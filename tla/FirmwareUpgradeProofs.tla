----------------------- MODULE FirmwareUpgradeProofs -----------------------
(***************************************************************************)
(* FirmwareUpgrade's type invariant, and what an upgrade promises of the   *)
(* order, the releases, the settings and the telling of its flashes.  For  *)
(* any devices, topology, releases, settings, acknowledgements and faults. *)
(*                                                                         *)
(* None is inductive by itself: what is true of a flash follows from the   *)
(* plan made before it.  The run may give a device up and go on while its  *)
(* work or its sysupgrade goes on by itself, so the invariant says what    *)
(* each of the three still has in hand of the plan's current step          *)
(* (PlanInv, BetweenInv, WorkInv, FlashInv), and so that there is never    *)
(* more than one; the rest follow the device (KeptInv, CutInv), the note   *)
(* (NoteInv) and what the run has told (ToldInv).                          *)
(*                                                                         *)
(* The plan itself rests on the order of the flashes being a total one: a  *)
(* finite set of devices has exactly one listing by it, which is what      *)
(* CHOOSE finds.  It is shown by induction over the number of devices.     *)
(***************************************************************************)
EXTENDS FirmwareUpgrade, FiniteSetTheorems, FunctionTheorems, WellFoundedInduction, TLAPS

(* A least number of any there are, and induction over the numbers in a set. *)
LEMMA Least ==
    ASSUME NEW T, T \subseteq Nat, T # {}
    PROVE  \E m \in T : \A k \in T : m <= k
<1> DEFINE R == {ss \in Nat \X Nat : ss[1] < ss[2]}
<1>1. IsWellFoundedOn(R, Nat)
  BY NatLessThanWellFounded DEF OpToRel
<1>2. \E x \in T : \A y \in T : ~ (<<y, x>> \in R)
  <2> HIDE DEF R
  <2> QED BY <1>1, WFMin
<1>3. PICK m \in T : \A k \in T : ~ (<<k, m>> \in R)
  BY <1>2
<1>4. ASSUME NEW k \in T PROVE m <= k
  <2>1. ~ (<<k, m>> \in R)
    BY <1>3
  <2> QED BY <2>1
<1> QED BY <1>4

LEMMA Induct ==
    ASSUME NEW S, 0 \in S, \A n \in Nat : n \in S => n + 1 \in S
    PROVE  Nat \subseteq S
<1> SUFFICES ASSUME Nat \ S # {} PROVE FALSE
  OBVIOUS
<1>1. PICK m \in Nat \ S : \A k \in Nat \ S : m <= k
  BY Least
<1>2. m # 0 /\ m - 1 \in Nat /\ m - 1 \in S
  BY <1>1
<1> QED BY <1>1, <1>2

(* The order of the flashes is a total one, of finitely many devices. *)

LEMMA PlaceOK ==
    ASSUME NEW d \in Device
    PROVE  Place(d) \in 1..Len(Hardware) /\ Hardware[Place(d)] = d
<1>1. \E i \in DOMAIN Hardware : Hardware[i] = d
  BY DEF Device
<1>2. Place(d) \in DOMAIN Hardware /\ Hardware[Place(d)] = d
  BY <1>1 DEF Place
<1> QED BY <1>2, TopologyAssumption

LEMMA RankOK ==
    ASSUME NEW d, NEW h
    PROVE  Rank(d, h) \in 0..3
  BY DEF Rank

LEMMA BeforeOrder ==
    ASSUME NEW h, NEW d \in Device, NEW e \in Device, NEW f \in Device
    PROVE  /\ ~Before(d, d, h)
           /\ d # e => Before(d, e, h) \/ Before(e, d, h)
           /\ Before(d, e, h) /\ Before(e, f, h) => Before(d, f, h)
<1>1. Place(d) \in Nat /\ Place(e) \in Nat /\ Place(f) \in Nat
  <2>1. Hardware \in Seq(Device)
    BY TopologyAssumption
  <2>2. DOMAIN Hardware = 1..Len(Hardware) /\ Len(Hardware) \in Nat
    BY <2>1
  <2>3. DOMAIN Hardware \subseteq Nat
    BY <2>2
  <2> QED BY <2>3, PlaceOK
<1>2. Rank(d, h) \in Nat /\ Rank(e, h) \in Nat /\ Rank(f, h) \in Nat
  BY RankOK
<1>3. d # e => Place(d) # Place(e)
  BY PlaceOK
<1> QED BY <1>1, <1>2, <1>3 DEF Before

LEMMA DeviceFinite == IsFiniteSet(Device)
<1> DEFINE h == [i \in 1..Len(Hardware) |-> Hardware[i]]
<1>1. Len(Hardware) \in Nat /\ DOMAIN Hardware = 1..Len(Hardware)
  BY TopologyAssumption
<1>2. h \in Surjection(1..Len(Hardware), Device)
  BY <1>1 DEF Surjection, Device
<1>3. IsFiniteSet(1..Len(Hardware))
  BY <1>1, FS_Interval
<1> HIDE DEF h
<1> QED BY <1>2, <1>3, FS_Surjection

LEMMA HasFirst ==
    ASSUME NEW h, NEW S \in SUBSET Device, S # {}
    PROVE  \E m \in S : \A e \in S \ {m} : Before(m, e, h)
<1> DEFINE Ranks == {Rank(d, h) : d \in S}
<1>1. PICK k \in Ranks : \A n \in Ranks : k <= n
  <2>1. Ranks \subseteq Nat /\ Ranks # {}
    BY RankOK
  <2> HIDE DEF Ranks
  <2> QED BY <2>1, Least
<1> DEFINE Lowest == {d \in S : Rank(d, h) = k}
           Places == {Place(d) : d \in Lowest}
<1>2. PICK p \in Places : \A n \in Places : p <= n
  <2>1. Places \subseteq Nat /\ Places # {}
    BY <1>1, PlaceOK, TopologyAssumption
  <2> HIDE DEF Places
  <2> QED BY <2>1, Least
<1>3. PICK m \in Lowest : p = Place(m)
  BY <1>2
<1>4. ASSUME NEW e \in S \ {m} PROVE Before(m, e, h)
  <2>1. Rank(m, h) = k /\ k <= Rank(e, h) /\ Rank(e, h) \in Nat /\ k \in Nat
    BY <1>1, <1>3, RankOK
  <2>2. Rank(e, h) = k => p <= Place(e)
    BY <1>2
  <2>3. Place(m) # Place(e) /\ Place(m) \in Nat /\ Place(e) \in Nat
    <3>1. m \in Device /\ e \in Device /\ m # e
      BY <1>3
    <3>2. Hardware[Place(m)] = m /\ Hardware[Place(e)] = e
      BY <3>1, PlaceOK
    <3>3. Place(m) \in 1..Len(Hardware) /\ Place(e) \in 1..Len(Hardware) /\ Len(Hardware) \in Nat
      BY <3>1, PlaceOK, TopologyAssumption
    <3> QED BY <3>1, <3>2, <3>3
  <2> QED BY <1>3, <2>1, <2>2, <2>3 DEF Before
<1> QED BY <1>3, <1>4

InOrder(order, h) == \A i, j \in DOMAIN order : i < j => Before(order[i], order[j], h)

LEMMA OneMore ==
    ASSUME NEW h, NEW n \in Nat, NEW S \in SUBSET Device, NEW m \in S,
           \A e \in S \ {m} : Before(m, e, h),
           NEW rest \in [1..n -> S \ {m}], InOrder(rest, h)
    PROVE  \E order \in [1..n + 1 -> S] : InOrder(order, h)
<1> DEFINE order == [i \in 1..n + 1 |-> IF i = 1 THEN m ELSE rest[i - 1]]
<1>1. \A i \in 2..n + 1 : i - 1 \in 1..n /\ order[i] = rest[i - 1] /\ order[i] \in S \ {m}
  OBVIOUS
<1>2. order \in [1..n + 1 -> S]
  BY <1>1
<1>3. ASSUME NEW i \in 1..n + 1, NEW j \in 1..n + 1, i < j PROVE Before(order[i], order[j], h)
  <2>1. CASE i = 1
    BY <1>1, <1>3, <2>1
  <2>2. CASE i # 1
    <3>1. i - 1 \in 1..n /\ j - 1 \in 1..n /\ i - 1 < j - 1
      BY <1>3, <2>2
    <3>2. order[i] = rest[i - 1] /\ order[j] = rest[j - 1]
      BY <1>1, <1>3, <2>2
    <3> QED BY <3>1, <3>2 DEF InOrder
  <2> QED BY <2>1, <2>2
<1>4. InOrder(order, h)
  BY <1>2, <1>3 DEF InOrder
<1> QED BY <1>2, <1>4

LEMMA Sorted ==
    ASSUME NEW h, NEW S \in SUBSET Device
    PROVE  \E order \in [1..Cardinality(S) -> S] : InOrder(order, h)
<1> DEFINE P(n) == \A T \in SUBSET Device : Cardinality(T) = n => \E order \in [1..n -> T] : InOrder(order, h)
           Good == {n \in Nat : P(n)}
<1>1. 0 \in Good
  <2> SUFFICES ASSUME NEW T \in SUBSET Device PROVE \E order \in [1..0 -> T] : InOrder(order, h)
    OBVIOUS
  <2> DEFINE none == [i \in 1..0 |-> i]
  <2>1. none \in [1..0 -> T] /\ InOrder(none, h)
    BY DEF InOrder
  <2> QED BY <2>1
<1>2. ASSUME NEW n \in Nat, n \in Good PROVE n + 1 \in Good
  <2> SUFFICES ASSUME NEW T \in SUBSET Device, Cardinality(T) = n + 1
               PROVE  \E order \in [1..n + 1 -> T] : InOrder(order, h)
    OBVIOUS
  <2>1. IsFiniteSet(T) /\ T # {}
    BY DeviceFinite, FS_Subset, FS_EmptySet
  <2>2. PICK m \in T : \A e \in T \ {m} : Before(m, e, h)
    BY <2>1, HasFirst
  <2>3. Cardinality(T \ {m}) = n
    BY <2>1, <2>2, FS_RemoveElement
  <2>4. PICK rest \in [1..n -> T \ {m}] : InOrder(rest, h)
    BY <1>2, <2>3
  <2> QED BY <2>2, <2>4, OneMore
<1>3. Nat \subseteq Good
  <2> HIDE DEF Good
  <2> QED BY <1>1, <1>2, Induct
<1>4. Cardinality(S) \in Nat
  BY DeviceFinite, FS_Subset, FS_CardinalityType
<1> QED BY <1>3, <1>4

LEMMA FlashOrder ==
    ASSUME NEW h, NEW S \in SUBSET Device
    PROVE  /\ InFlashOrder(S, h) \in [1..Cardinality(S) -> S]
           /\ InOrder(InFlashOrder(S, h), h)
           /\ Cardinality(S) \in Nat
<1>1. \E order \in [1..Cardinality(S) -> S] : \A i, j \in DOMAIN order : i < j => Before(order[i], order[j], h)
  BY Sorted DEF InOrder
<1>2. Cardinality(S) \in Nat
  BY DeviceFinite, FS_Subset, FS_CardinalityType
<1> QED BY <1>1, <1>2 DEF InFlashOrder, InOrder

(* Each device that moves is flashed once. *)
LEMMA FlashedOnce ==
    ASSUME NEW h, NEW S \in SUBSET Device
    PROVE  InFlashOrder(S, h) \in Bijection(1..Cardinality(S), S)
<1> DEFINE order == InFlashOrder(S, h)
<1>1. order \in [1..Cardinality(S) -> S] /\ InOrder(order, h) /\ Cardinality(S) \in Nat
  BY FlashOrder
<1> HIDE DEF order
<1>2. ASSUME NEW i \in 1..Cardinality(S), NEW j \in 1..Cardinality(S), order[i] = order[j] PROVE i = j
  <2>1. order[i] \in Device /\ order[j] \in Device
    BY <1>1
  <2>2. ~(i < j) /\ ~(j < i)
    BY <1>1, <1>2, <2>1, BeforeOrder DEF InOrder
  <2> QED BY <1>1, <2>2
<1>3. order \in Injection(1..Cardinality(S), S)
  BY <1>1, <1>2, Fun_IsInj
<1>4. IsFiniteSet(S) /\ IsFiniteSet(1..Cardinality(S)) /\ Cardinality(1..Cardinality(S)) = Cardinality(S)
  <2>1. IsFiniteSet(S)
    BY DeviceFinite, FS_Subset
  <2>2. IsFiniteSet(1..Cardinality(S)) /\ Cardinality(1..Cardinality(S)) = IF 1 > Cardinality(S) THEN 0 ELSE Cardinality(S) - 1 + 1
    BY <1>1, FS_Interval
  <2> QED BY <1>1, <2>1, <2>2
<1>5. order \in Surjection(1..Cardinality(S), S)
  BY <1>3, <1>4, FS_Injection
<1> QED BY <1>3, <1>5 DEF order, Bijection

(* The newest release of the series read. *)
LEMMA HasNewest ==
    ASSUME NEW R \in SUBSET Release, IsFiniteSet(R), R # {}
    PROVE  Newest(R) \in R /\ \A s \in R : ~Older(Newest(R), s)
<1> DEFINE P(n) == \A T \in SUBSET Release : IsFiniteSet(T) /\ Cardinality(T) = n /\ T # {} => \E r \in T : \A s \in T : ~Older(r, s)
           Good == {n \in Nat : P(n)}
<1>1. 0 \in Good
  BY FS_EmptySet
<1>2. ASSUME NEW n \in Nat, n \in Good PROVE n + 1 \in Good
  <2> SUFFICES ASSUME NEW T \in SUBSET Release, IsFiniteSet(T), Cardinality(T) = n + 1, T # {}
               PROVE  \E r \in T : \A s \in T : ~Older(r, s)
    OBVIOUS
  <2>1. PICK x \in T : TRUE
    OBVIOUS
  <2>2. IsFiniteSet(T \ {x}) /\ Cardinality(T \ {x}) = n
    <3>1. IsFiniteSet(T \ {x}) /\ Cardinality(T \ {x}) = Cardinality(T) - 1
      BY <2>1, FS_RemoveElement
    <3> QED BY <3>1
  <2>3. CASE T \ {x} = {}
    <3>1. ~Older(x, x) /\ T = {x}
      BY <2>1, <2>3 DEF Older, Release
    <3> QED BY <3>1
  <2>4. CASE T \ {x} # {}
    <3>1. PICK r \in T \ {x} : \A s \in T \ {x} : ~Older(r, s)
      BY <1>2, <2>2, <2>4
    <3>2. CASE Older(r, x)
      <4>1. ASSUME NEW s \in T PROVE ~Older(x, s)
        <5>1. s = x \/ ~Older(r, s)
          BY <3>1
        <5>2. s[1] \in Nat /\ s[2] \in Nat /\ x[1] \in Nat /\ x[2] \in Nat /\ r[1] \in Nat /\ r[2] \in Nat
          BY <2>1 DEF Release
        <5> QED BY <3>2, <5>1, <5>2 DEF Older
      <4> QED BY <2>1, <4>1
    <3>3. CASE ~Older(r, x)
      BY <3>1, <3>3
    <3> QED BY <3>2, <3>3
  <2> QED BY <2>3, <2>4
<1>3. Nat \subseteq Good
  <2> HIDE DEF Good
  <2> QED BY <1>1, <1>2, Induct
<1>4. Cardinality(R) \in Nat
  BY FS_CardinalityType
<1>5. \E r \in R : \A s \in R : ~Older(r, s)
  BY <1>3, <1>4
<1> QED BY <1>5 DEF Newest

(* What the plan gives. *)

LEMMA AskOK ==
    ASSUME NEW a \in Asks
    PROVE  /\ a.network.kind \in WishKind \ {"network"} /\ a.network.release \in Release
           /\ a.network.kind = "release" => a.network.release[1] > FirstBoot
           /\ \A d \in Device : /\ a.own[d].kind \in WishKind /\ a.own[d].release \in Release
                                /\ a.own[d].kind = "release" => a.own[d].release[1] > FirstBoot
           /\ IsFiniteSet(DOMAIN a.out)
           /\ \A s \in DOMAIN a.out : a.out[s] = NoRelease \/ a.out[s] \in Running
           /\ a.only \subseteq Device /\ a.unbuildable \subseteq Device
  BY AsksAssumption DEF Running

LEMMA NewestOK ==
    ASSUME NEW a \in Asks
    PROVE  Newest({NoRelease} \cup {a.out[s] : s \in DOMAIN a.out}) \in Running \cup {NoRelease}
<1> DEFINE Read == {a.out[s] : s \in DOMAIN a.out}
           R == {NoRelease} \cup Read
           f == [s \in DOMAIN a.out |-> a.out[s]]
<1>1. R \in SUBSET Release /\ R \subseteq Running \cup {NoRelease} /\ R # {}
  <2>1. NoRelease \in Release /\ Running \subseteq Release
    BY DEF NoRelease, Release, Running
  <2>2. \A s \in DOMAIN a.out : a.out[s] = NoRelease \/ a.out[s] \in Running
    BY AskOK
  <2> QED BY <2>1, <2>2
<1>2. IsFiniteSet(Read)
  <2>1. f \in Surjection(DOMAIN a.out, Read)
    BY DEF Surjection
  <2>2. IsFiniteSet(DOMAIN a.out)
    BY AskOK
  <2> HIDE DEF f, Read
  <2> QED BY <2>1, <2>2, FS_Surjection
<1>3. IsFiniteSet(R)
  <2>1. R = Read \cup {NoRelease}
    OBVIOUS
  <2> HIDE DEF Read, R
  <2> QED BY <1>2, <2>1, FS_AddElement
<1>4. Newest(R) \in R
  <2> HIDE DEF R
  <2> QED BY <1>1, <1>3, HasNewest
<1> QED BY <1>1, <1>4

LEMMA OlderThan ==
    ASSUME NEW r \in Release, NEW s \in Release, Older(r, s)
    PROVE  r # s
  BY DEF Older, Release

\* What moves is not held and is known, and goes to another release.
LEMMA TargetOK ==
    ASSUME NEW a \in Asks, NEW d \in Device, NEW f \in Running \cup {NoRelease},
           Moves(State(f, Target(a.network, a.own[d], a.out)))
    PROVE  /\ Target(a.network, a.own[d], a.out).version \in Running
           /\ f \in Running /\ f # Target(a.network, a.own[d], a.out).version
           /\ Target(a.network, a.own[d], a.out).kind = "release"
<1> DEFINE t == Target(a.network, a.own[d], a.out)
           wish == IF a.own[d].kind = "network" THEN a.network ELSE a.own[d]
           newest == IF wish.kind = "stable" THEN Newest({NoRelease} \cup {a.out[s] : s \in DOMAIN a.out})
                     ELSE IF wish.release[1] \in DOMAIN a.out THEN a.out[wish.release[1]] ELSE NoRelease
<1>1. t = IF wish.kind = "hold" THEN [kind |-> "hold", version |-> NoRelease, follows |-> FALSE]
          ELSE IF wish.kind = "release" THEN [kind |-> "release", version |-> wish.release, follows |-> FALSE]
          ELSE [kind |-> IF newest = NoRelease THEN "unknown" ELSE "release", version |-> newest, follows |-> TRUE]
  BY DEF Target
<1>2. newest \in Running \cup {NoRelease}
  BY NewestOK, AskOK
<1>3. wish.release \in Release /\ wish.kind \in WishKind /\ (wish.kind = "release" => wish.release[1] > FirstBoot)
  BY AskOK
<1>4. t.kind \in {"hold", "unknown", "release"}
  <2> HIDE DEF wish, newest, t
  <2> QED BY <1>1
<1> HIDE DEF wish, newest, t
<1>5. t.kind # "hold" /\ t.kind # "unknown" /\ f # NoRelease /\ (Older(f, t.version) \/ Older(t.version, f))
  BY DEF t, Moves, State
<1>6. wish.kind # "hold" /\ t.version \in Running
  <2>1. CASE wish.kind = "hold"
    BY <1>1, <1>5, <2>1
  <2>2. CASE wish.kind = "release"
    <3>1. t = [kind |-> "release", version |-> wish.release, follows |-> FALSE]
      BY <1>1, <2>2
    <3> QED BY <1>3, <2>2, <3>1 DEF Running
  <2>3. CASE wish.kind # "hold" /\ wish.kind # "release" /\ newest = NoRelease
    BY <1>1, <1>5, <2>3
  <2>4. CASE wish.kind # "hold" /\ wish.kind # "release" /\ newest # NoRelease
    BY <1>1, <1>2, <2>4
  <2> QED BY <2>1, <2>2, <2>3, <2>4
<1>7. f \in Running /\ f # t.version
  BY <1>5, <1>6, OlderThan DEF Running
<1> QED BY <1>4, <1>5, <1>6, <1>7 DEF t

TargetOf(a, d) == Target(a.network, a.own[d], a.out)
Movers(a, known) == {d \in a.only : Moves(State(known[d], TargetOf(a, d)))} \ a.unbuildable
PlanOf(a, known, h, wifi) == UpgradePlan(a.network, a.own, a.out, known, a.only, a.unbuildable, h, wifi)

LEMMA MoverOK ==
    ASSUME NEW a \in Asks, NEW known \in [Device -> Running \cup {NoRelease}], NEW d \in Movers(a, known)
    PROVE  /\ d \in Device /\ d \in a.only /\ TargetOf(a, d).kind = "release"
           /\ TargetOf(a, d).version \in Running /\ known[d] \in Running
           /\ known[d] # TargetOf(a, d).version
<1>1. d \in Device /\ d \in a.only /\ Moves(State(known[d], TargetOf(a, d)))
  BY AskOK DEF Movers
<1> QED BY <1>1, TargetOK DEF TargetOf

\* Its steps: each device that moves once, in the order of the flashes.
LEMMA PlanSteps ==
    ASSUME NEW a \in Asks, NEW known \in [Device -> Running \cup {NoRelease}], NEW h, NEW wifi
    PROVE  LET steps == PlanOf(a, known, h, wifi).steps IN
           /\ steps \in Seq(UpgradeStep)
           /\ {steps[i].device : i \in DOMAIN steps} = Movers(a, known)
           /\ \A i \in DOMAIN steps :
                LET d == steps[i].device IN
                steps[i] = [device |-> d, from |-> known[d], to |-> TargetOf(a, d).version,
                            keep |-> Keep(known[d], TargetOf(a, d).version), host |-> d = h]
           /\ \A i, j \in DOMAIN steps : i < j => Before(steps[i].device, steps[j].device, h)
<1> DEFINE M == Movers(a, known)
           order == InFlashOrder(M, h)
           n == Cardinality(M)
           step(d) == [device |-> d, from |-> known[d], to |-> TargetOf(a, d).version,
                       keep |-> Keep(known[d], TargetOf(a, d).version), host |-> d = h]
           steps == PlanOf(a, known, h, wifi).steps
<1>1. M \in SUBSET Device
  BY MoverOK
<1>2. order \in [1..n -> M] /\ n \in Nat /\ InOrder(order, h)
  BY <1>1, FlashOrder
<1>3. steps = [i \in DOMAIN order |-> step(order[i])]
  <2>1. steps = [i \in DOMAIN order |-> [d \in Device |-> step(d)][order[i]]]
    BY DEF PlanOf, UpgradePlan, Movers, TargetOf
  <2>2. \A i \in DOMAIN order : order[i] \in Device
    BY <1>1, <1>2
  <2> HIDE DEF order, steps
  <2> QED BY <2>1, <2>2
<1>4. order \in Surjection(1..n, M)
  BY <1>1, FlashedOnce DEF Bijection
<1>5. \A i \in 1..n : order[i] \in M /\ steps[i] = step(order[i]) /\ steps[i].device = order[i]
  BY <1>2, <1>3
<1>6. DOMAIN steps = 1..n
  BY <1>2, <1>3
<1>7. \A d \in M : step(d) \in UpgradeStep
  BY MoverOK DEF UpgradeStep, Keep
<1>8. steps \in Seq(UpgradeStep)
  <2>1. steps \in [1..n -> UpgradeStep]
    BY <1>2, <1>3, <1>5, <1>6, <1>7
  <2> HIDE DEF steps
  <2> QED BY <1>2, <2>1
<1>9. {steps[i].device : i \in DOMAIN steps} = M
  <2> HIDE DEF steps, step, order, M
  <2> QED BY <1>4, <1>5, <1>6 DEF Surjection
<1>10. \A i, j \in DOMAIN steps : i < j => Before(steps[i].device, steps[j].device, h)
  <2> HIDE DEF steps, step, order, M
  <2> QED BY <1>2, <1>5, <1>6 DEF InOrder
<1>11. \A i \in DOMAIN steps : steps[i] = step(steps[i].device)
  <2> HIDE DEF steps, step, order, M
  <2> QED BY <1>5, <1>6
<1> QED BY <1>8, <1>9, <1>10, <1>11

\* What is acknowledged of a plan that goes ahead, and what it cuts off.
LEMMA PlanAgreed ==
    ASSUME NEW a \in Asks, NEW known \in [Device -> Running \cup {NoRelease}], NEW h, NEW wifi,
           ~Refused(PlanOf(a, known, h, wifi), a.acks), NEW d \in Movers(a, known)
    PROVE  /\ Older(TargetOf(a, d).version, known[d]) => a.acks.downgrade
           /\ TargetOf(a, d).version[1] > CheckedSeries => a.acks.newSeries
           /\ ~Strands(d, Keep(known[d], TargetOf(a, d).version), h, wifi)
<1>1. d \in Device
  BY MoverOK
<1> DEFINE plan == PlanOf(a, known, h, wifi)
           M == Movers(a, known)
<1>2. /\ plan.downgrades = {e \in M : Older(TargetOf(a, e).version, known[e])}
      /\ plan.newSeries = {TargetOf(a, e).version[1] : e \in {x \in M : TargetOf(a, x).version[1] > CheckedSeries}}
  BY DEF PlanOf, UpgradePlan, Movers, TargetOf
<1>3. Strands(d, Keep(known[d], TargetOf(a, d).version), h, wifi) => d \in plan.refused
  BY <1>1 DEF PlanOf, UpgradePlan, Movers, TargetOf
<1>4. plan.refused = {} /\ (plan.downgrades # {} => a.acks.downgrade) /\ (plan.newSeries # {} => a.acks.newSeries)
  BY DEF Refused
<1>5. d \in M
  OBVIOUS
<1> HIDE DEF plan, M
<1>6. Older(TargetOf(a, d).version, known[d]) => plan.downgrades # {}
  BY <1>2, <1>5
<1>7. TargetOf(a, d).version[1] > CheckedSeries => plan.newSeries # {}
  <2> SUFFICES ASSUME TargetOf(a, d).version[1] > CheckedSeries PROVE TargetOf(a, d).version[1] \in plan.newSeries
    OBVIOUS
  <2> QED BY <1>2, <1>5
<1> QED BY <1>3, <1>4, <1>6, <1>7

(* The inductive invariant. *)

\* What is known of a step from the plan it is of, made when the devices were read.
CutsNone(d, seen) == d # host /\ d \notin Repeaters /\ (d \in MeshNodes => Repeaters = {}) /\ d # seen
Planned(s, seen) ==
    /\ s.device \in ask.only /\ TargetOf(ask, s.device).kind = "release" /\ s.to = TargetOf(ask, s.device).version
    /\ s.from = facts[s.device] /\ s.from # s.to
    /\ s.keep = Keep(s.from, s.to)
    /\ Older(s.to, s.from) => ask.acks.downgrade
    /\ s.to[1] > CheckedSeries => ask.acks.newSeries
    /\ (s.host <=> s.device = host)
    /\ s.keep = "keys" => CutsNone(s.device, seen)
Going(steps, seen) ==
    /\ \A i \in DOMAIN steps : Planned(steps[i], seen)
    /\ \A i, j \in DOMAIN steps : i < j => Before(steps[i].device, steps[j].device, host)

\* The plan the run goes by, once it has read the devices.
PlanInv ==
    /\ run.at = "reading" => run.steps = Plan(NoDevice, {}).steps
    /\ run.at \notin {"plan", "reading", "ended", "killed"} \/ work.at # "none" => Going(run.steps, run.seen)

\* Nothing is under way before a step, nor once its device came back.
BetweenInv ==
    /\ run.at \in {"plan", "reading", "building", "next"} =>
        work.at = "none" /\ note = NoRelease /\ \A d \in Device : dev[d].sys = "no"
    /\ run.at \in {"plan", "reading"} => \A d \in Device : dev[d].conf > FirstBoot
    /\ run.at \in {"flashing", "waiting", "own flash"} \/ work.at # "none" => run.i \in DOMAIN run.steps
    /\ run.at \in {"waiting", "own flash", "killed"} => work.at = "none"
    /\ run.at = "waiting" => ~Step.host
    /\ run.at = "own flash" => Step.host

\* Before its flash, the device worked on runs what the plan knew, with no sysupgrade due.
WorkInv ==
    /\ work.at \in {"session", "room", "check", "keep self", "flash"} => dev[Current].sys = "no"
    /\ work.at \in {"room", "check", "keep self", "flash"} => dev[Current].runs = Step.from
    /\ work.at = "keep self" => Step.host

\* Only the current device has a sysupgrade, of the current step.
FlashInv ==
    \A d \in Device : dev[d].sys # "no" =>
        /\ run.i \in DOMAIN run.steps /\ d = Current
        /\ dev[d].flash = Step /\ Planned(Step, run.seen)
        /\ dev[d].runs = Step.from

\* This app is on its device, or kept there for its flash.
KeptInv ==
    /\ work.at = "flash" /\ Step.host => dev[host].kept
    /\ host \in Device => /\ dev[host].sys = "due" /\ dev[host].ram \in {"image", "checked"} => dev[host].kept
                          /\ dev[host].sys = "writing" => dev[host].kept
    /\ app.there # "gone"

CutInv == \A d \in Device : dev[d].conf = FirstBoot => CutsNone(d, run.seen)

\* A note is of the run's own device, and something is still to come of it.
NoteInv ==
    note # NoRelease =>
        /\ run.i \in DOMAIN run.steps /\ Step.host /\ host \in Device
        /\ \/ work.at \in {"flash", "clean", "ok"}
           \/ run.at \in {"own flash", "killed"}
           \/ dev[host].sys = "writing"
           \/ app.start = "starting"

\* A device on first-boot settings is one flashed, told of, or being waited for.
ToldInv ==
    run.at # "killed" =>
        /\ \A d \in Device : dev[d].conf = FirstBoot =>
              d \in run.done \cup run.told \/ (run.at \in {"flashing", "waiting", "own flash"} /\ d = Current)
        /\ run.at \in {"applying", "ended"} => \A d \in Device : dev[d].sys # "no" => d \in run.told
        /\ run.at \in {"applying", "ended"} /\ work.at # "none" => Current \in run.told
        /\ run.end = "applied" => run.told = {}
        /\ run.end # "none" => run.at = "ended"

LEMMA Sizes ==
    /\ Router \in Device /\ NoDevice \notin Device /\ MaxFaults \in Nat
    /\ Releases \subseteq Running /\ Repeaters \subseteq Device
    /\ NoRelease \in Release /\ NoRelease \notin Running
    /\ \A r \in Running : r \in Release /\ r[1] \in Nat /\ r[1] > 0
  BY TopologyAssumption, AsksAssumption DEF Running, Release, NoRelease, FirstBoot

LEMMA StepIs ==
    ASSUME run \in RunState, run.i \in DOMAIN run.steps
    PROVE  Step \in UpgradeStep /\ Current = Step.device /\ Current \in Device
<1>1. run.steps \in Seq(UpgradeStep)
  BY DEF RunState
<1>2. run.steps[run.i] \in UpgradeStep
  BY <1>1
<1> QED BY <1>2 DEF Step, Current, UpgradeStep

LEMMA PlanTyped ==
    ASSUME TypeOK, NEW h, NEW wifi
    PROVE  Plan(h, wifi).steps \in Seq(UpgradeStep)
<1>1. ask \in Asks /\ facts \in [Device -> Running \cup {NoRelease}]
  BY DEF TypeOK
<1>2. Plan(h, wifi) = PlanOf(ask, facts, h, wifi)
  BY DEF Plan, PlanOf
<1> QED BY <1>1, <1>2, PlanSteps

(* What each of the model's changes of a part leaves alone. *)

SameWay == run'.i = run.i /\ run'.steps = run.steps /\ run'.seen = run.seen

LEMMA RunAtDoes ==
    ASSUME run \in RunState, NEW p \in Phase, RunAt(p)
    PROVE  /\ run' \in RunState /\ run'.at = p /\ SameWay
           /\ run'.done = run.done /\ run'.told = run.told /\ run'.end = run.end
  BY DEF RunState, RunAt, SameWay

LEMMA EndsDoes ==
    ASSUME run \in RunState, NEW how \in {"refused", "failed", "applied", "partial"}, Ends(how)
    PROVE  /\ run' \in RunState /\ run'.at = "ended" /\ SameWay
           /\ run'.done = run.done /\ run'.told = run.told /\ run'.end = how
  BY DEF RunState, Ends, SameWay, Phase

LEMMA StopsDoes ==
    ASSUME run \in RunState, NEW d \in Device, Stops(d)
    PROVE  /\ run' \in RunState /\ SameWay
           /\ run'.done = run.done /\ run'.told = run.told \cup {d}
           /\ \/ run'.at = "ended" /\ run'.end = "failed"
              \/ run'.at = "applying" /\ run'.end = run.end
  BY DEF RunState, Stops, SameWay, Phase

LEMMA PlansDoes ==
    ASSUME run \in RunState, NEW p \in Phase, NEW steps \in Seq(UpgradeStep),
           run' = [run EXCEPT !.at = p, !.steps = steps]
    PROVE  /\ run' \in RunState /\ run'.at = p /\ run'.steps = steps /\ run'.i = run.i /\ run'.seen = run.seen
           /\ run'.done = run.done /\ run'.told = run.told /\ run'.end = run.end
  BY DEF RunState

LEMMA ReadsDoes ==
    ASSUME run \in RunState, NEW p \in Phase, NEW steps \in Seq(UpgradeStep), NEW seen \in Device \cup {NoDevice},
           run' = [run EXCEPT !.at = p, !.steps = steps, !.seen = seen]
    PROVE  /\ run' \in RunState /\ run'.at = p /\ run'.steps = steps /\ run'.i = run.i /\ run'.seen = seen
           /\ run'.done = run.done /\ run'.told = run.told /\ run'.end = run.end
  BY DEF RunState

LEMMA NextDoes ==
    ASSUME run \in RunState, NEW d \in Device,
           run' = [run EXCEPT !.at = "next", !.i = @ + 1, !.done = @ \cup {d}]
    PROVE  /\ run' \in RunState /\ run'.at = "next" /\ run'.steps = run.steps /\ run'.i = run.i + 1 /\ run'.seen = run.seen
           /\ run'.done = run.done \cup {d} /\ run'.told = run.told /\ run'.end = run.end
<1>1. run.i + 1 \in Nat /\ run.done \cup {d} \in SUBSET Device
  BY DEF RunState
<1> QED BY <1>1 DEF RunState, Phase

LEMMA WorkAtDoes ==
    ASSUME work \in WorkState, NEW p \in WorkPlace, WorkAt(p)
    PROVE  work' \in WorkState /\ work'.at = p /\ work'.over = work.over
  BY DEF WorkState, WorkAt

LEMMA SetsDoes ==
    ASSUME dev \in [Device -> DeviceState], NEW d \in Device, NEW r \in DeviceState, Sets(d, r)
    PROVE  dev' \in [Device -> DeviceState] /\ dev'[d] = r /\ \A e \in Device \ {d} : dev'[e] = dev[e]
  BY DEF Sets

LEMMA HoldsSet ==
    ASSUME NEW s \in DeviceState, NEW x \in {"none", "part", "image", "checked"}
    PROVE  LET t == [s EXCEPT !.ram = x] IN
           /\ t \in DeviceState
           /\ t.runs = s.runs /\ t.conf = s.conf /\ t.ram = x /\ t.sys = s.sys /\ t.flash = s.flash /\ t.kept = s.kept
  BY Sizes DEF DeviceState

LEMMA KeptSet ==
    ASSUME NEW s \in DeviceState, NEW x \in BOOLEAN
    PROVE  LET t == [s EXCEPT !.kept = x] IN
           /\ t \in DeviceState
           /\ t.runs = s.runs /\ t.conf = s.conf /\ t.ram = s.ram /\ t.sys = s.sys /\ t.flash = s.flash /\ t.kept = x
  BY Sizes DEF DeviceState

LEMMA CleanedSet ==
    ASSUME NEW s \in DeviceState
    PROVE  LET t == [s EXCEPT !.ram = "none", !.kept = FALSE] IN
           /\ t \in DeviceState
           /\ t.runs = s.runs /\ t.conf = s.conf /\ t.ram = "none" /\ t.sys = s.sys /\ t.flash = s.flash /\ t.kept = FALSE
  BY Sizes DEF DeviceState

LEMMA SysSet ==
    ASSUME NEW s \in DeviceState, NEW x \in {"no", "due", "writing"}
    PROVE  LET t == [s EXCEPT !.sys = x] IN
           /\ t \in DeviceState
           /\ t.runs = s.runs /\ t.conf = s.conf /\ t.ram = s.ram /\ t.sys = x /\ t.flash = s.flash /\ t.kept = s.kept
  BY Sizes DEF DeviceState

LEMMA DueSet ==
    ASSUME NEW s \in DeviceState, NEW x \in UpgradeStep
    PROVE  LET t == [s EXCEPT !.sys = "due", !.flash = x] IN
           /\ t \in DeviceState
           /\ t.runs = s.runs /\ t.conf = s.conf /\ t.ram = s.ram /\ t.sys = "due" /\ t.flash = x /\ t.kept = s.kept
  BY Sizes DEF DeviceState

LEMMA MovedSet ==
    ASSUME NEW s \in DeviceState, NEW x \in Running
    PROVE  LET t == [s EXCEPT !.runs = x, !.conf = x[1]] IN
           /\ t \in DeviceState
           /\ t.runs = x /\ t.conf = x[1] /\ t.ram = s.ram /\ t.sys = s.sys /\ t.flash = s.flash /\ t.kept = s.kept
  BY Sizes DEF DeviceState

LEMMA FaultsTyped ==
    ASSUME faults \in 0..MaxFaults, Fine \/ Fault
    PROVE  faults' \in 0..MaxFaults
  BY Sizes DEF Fine, Fault

(* What each action does, field by field. *)

SameOutcome == run'.done = run.done /\ run'.told = run.told /\ run'.end = run.end
Rest(d) == \A e \in Device \ {d} : dev'[e] = dev[e]

LEMMA PlansAloneDoes ==
    ASSUME TypeOK, PlansAlone
    PROVE  /\ run.at = "plan" /\ run' \in RunState
           /\ run'.i = run.i /\ run'.seen = run.seen /\ run'.done = run.done /\ run'.told = run.told
           /\ \/ run'.at = "ended" /\ run'.end = "refused" /\ run'.steps = run.steps
              \/ run'.at = "applying" /\ run'.end = run.end /\ run'.steps = <<>>
              \/ run'.at = "reading" /\ run'.end = run.end /\ run'.steps = Plan(NoDevice, {}).steps
           /\ UNCHANGED <<via, dev, work, note, app, faults>>
<1> DEFINE draft == Plan(NoDevice, {})
           stays == Blind(ask.network, ask.own, ask.out, facts, ask.only) # {} \/ Refused(draft, ask.acks)
<1>1. run \in RunState /\ draft.steps \in Seq(UpgradeStep)
  BY PlanTyped DEF TypeOK
<1>2. /\ run.at = "plan" /\ UNCHANGED <<via, dev, work, note, app, faults>>
      /\ IF stays THEN Ends("refused")
         ELSE run' = [run EXCEPT !.at = IF draft.steps = <<>> THEN "applying" ELSE "reading", !.steps = draft.steps]
  BY DEF PlansAlone, Fine
<1> HIDE DEF draft, stays
<1>3. CASE stays
  BY <1>1, <1>2, <1>3, EndsDoes DEF SameWay
<1>4. CASE ~stays /\ draft.steps = <<>>
  <2>1. run' = [run EXCEPT !.at = "applying", !.steps = draft.steps]
    BY <1>2, <1>4
  <2>2. "applying" \in Phase
    BY DEF Phase
  <2> QED BY <1>1, <1>2, <1>4, <2>1, <2>2, PlansDoes
<1>5. CASE ~stays /\ draft.steps # <<>>
  <2>1. run' = [run EXCEPT !.at = "reading", !.steps = draft.steps]
    BY <1>2, <1>5
  <2>2. "reading" \in Phase
    BY DEF Phase
  <2> QED BY <1>1, <1>2, <2>1, <2>2, PlansDoes DEF draft
<1> QED BY <1>3, <1>4, <1>5

LEMMA ReadsDevicesDoes ==
    ASSUME TypeOK, ReadsDevices
    PROVE  /\ run.at = "reading" /\ run' \in RunState
           /\ run'.i = run.i /\ run'.done = run.done /\ run'.told = run.told
           /\ LET moving == {run.steps[i].device : i \in DOMAIN run.steps}
                  plan == Plan(IF host \in moving THEN host ELSE NoDevice, {via} \cap moving)
              IN  \/ run'.at = "ended" /\ run'.end = "refused" /\ run'.steps = run.steps /\ run'.seen = run.seen
                  \/ /\ run'.at = "building" /\ run'.end = run.end /\ run'.steps = plan.steps /\ run'.seen = via
                     /\ ~Refused(plan, ask.acks)
           /\ UNCHANGED <<via, dev, work, note, app, faults>>
<1> DEFINE moving == {run.steps[i].device : i \in DOMAIN run.steps}
           plan == Plan(IF host \in moving THEN host ELSE NoDevice, {via} \cap moving)
<1>1. run \in RunState /\ plan.steps \in Seq(UpgradeStep) /\ via \in Device \cup {NoDevice}
  BY PlanTyped DEF TypeOK
<1>2. /\ run.at = "reading" /\ UNCHANGED <<via, dev, work, note, app, faults>>
      /\ IF Refused(plan, ask.acks) THEN Ends("refused")
         ELSE run' = [run EXCEPT !.at = "building", !.steps = plan.steps, !.seen = via]
  BY DEF ReadsDevices, Fine
<1>3. "building" \in Phase
  BY DEF Phase
<1> HIDE DEF moving, plan
<1>4. CASE Refused(plan, ask.acks)
  BY <1>1, <1>2, <1>4, EndsDoes DEF SameWay, plan, moving
<1>5. CASE ~Refused(plan, ask.acks)
  <2>1. run' = [run EXCEPT !.at = "building", !.steps = plan.steps, !.seen = via]
    BY <1>2, <1>5
  <2>2. /\ run' \in RunState /\ run'.at = "building" /\ run'.steps = plan.steps /\ run'.i = run.i /\ run'.seen = via
        /\ run'.done = run.done /\ run'.told = run.told /\ run'.end = run.end
    BY <1>1, <1>3, <2>1, ReadsDoes
  <2> QED BY <1>2, <1>5, <2>2 DEF plan, moving
<1> QED BY <1>4, <1>5

\* The run's other steps that touch no device.
LEMMA RunOnDoes ==
    ASSUME TypeOK, DeviceNotRead \/ Builds \/ AllUpgraded \/ Killed
    PROVE  /\ run' \in RunState /\ SameWay /\ run'.done = run.done /\ run'.told = run.told
           /\ \/ run.at = "reading" /\ run'.at = "ended" /\ run'.end = "refused" /\ work' = work
              \/ run.at = "building" /\ run'.at = "next" /\ run'.end = run.end /\ work' = work
              \/ run.at = "building" /\ run'.at = "ended" /\ run'.end = "failed" /\ work' = work
              \/ run.at = "next" /\ run'.at = "applying" /\ run'.end = run.end /\ work' = work
              \/ run.at # "ended" /\ run'.at = "killed" /\ run'.end = run.end /\ work' = NoWork
           /\ faults' \in 0..MaxFaults /\ UNCHANGED <<via, dev, note, app>>
<1>1. run \in RunState /\ faults \in 0..MaxFaults /\ {"next", "applying", "killed"} \subseteq Phase
  BY DEF TypeOK, Phase
<1>2. CASE DeviceNotRead
  BY <1>1, <1>2, EndsDoes, Sizes DEF DeviceNotRead, Fault
<1>3. CASE Builds
  BY <1>1, <1>3, EndsDoes, RunAtDoes, Sizes DEF Builds, Fine, Fault
<1>4. CASE AllUpgraded
  BY <1>1, <1>4, RunAtDoes DEF AllUpgraded, Fine
<1>5. CASE Killed
  BY <1>1, <1>5, RunAtDoes, Sizes DEF Killed, Fault
<1> QED BY <1>2, <1>3, <1>4, <1>5

\* The run given up on its device: at its session, in time, or waited for.
LEMMA StopsOnDoes ==
    ASSUME TypeOK, BetweenInv, OpensSession \/ TimesOut \/ WorkDone \/ NotBack
    PROVE  \/ /\ run' \in RunState /\ SameWay /\ run'.done = run.done /\ run.i \in DOMAIN run.steps
              /\ run'.told = run.told \cup {Current}
              /\ (run'.at = "ended" /\ run'.end = "failed") \/ (run'.at = "applying" /\ run'.end = run.end)
              /\ \/ run.at = "next" /\ work' = work
                 \/ run.at = "flashing" /\ work' = [work EXCEPT !.over = TRUE]
                 \/ run.at = "flashing" /\ work.at = "failed" /\ work' = NoWork
                 \/ run.at = "waiting" /\ work' = work
              /\ UNCHANGED <<via, dev, note, app>>
           \/ /\ run' \in RunState /\ SameWay /\ SameOutcome /\ run.i \in DOMAIN run.steps
              /\ \/ run.at = "next" /\ run'.at = "flashing" /\ work' = [NoWork EXCEPT !.at = "session"]
                 \/ /\ run.at = "flashing" /\ work.at = "ok" /\ work' = NoWork
                    /\ run'.at = IF Step.host THEN "own flash" ELSE "waiting"
              /\ UNCHANGED <<via, dev, note, app>>
<1>1. run \in RunState /\ {"flashing", "waiting", "own flash"} \subseteq Phase
  BY DEF TypeOK, Phase
<1>2. run.i \in DOMAIN run.steps => Current \in Device
  BY <1>1, StepIs
<1>3. CASE OpensSession
  <2>1. CASE RunAt("flashing") /\ work' = [NoWork EXCEPT !.at = "session"]
    BY <1>1, <1>3, <2>1, RunAtDoes DEF OpensSession, SameOutcome
  <2>2. CASE Stops(Current) /\ UNCHANGED work
    BY <1>1, <1>2, <1>3, <2>2, StopsDoes DEF OpensSession
  <2> QED BY <1>3, <2>1, <2>2 DEF OpensSession
<1>4. CASE TimesOut
  BY <1>1, <1>2, <1>4, StopsDoes DEF TimesOut, BetweenInv
<1>5. CASE WorkDone
  <2>1. run.at = "flashing" /\ run.i \in DOMAIN run.steps /\ work.at \in {"ok", "failed"} /\ work' = NoWork /\ UNCHANGED <<via, dev, note, app>>
    BY <1>5 DEF WorkDone, BetweenInv
  <2>2. CASE work.at = "failed"
    BY <1>1, <1>2, <1>5, <2>1, <2>2, StopsDoes DEF WorkDone
  <2>3. CASE work.at # "failed"
    <3>1. PICK p \in {"own flash", "waiting"} : RunAt(p) /\ p = IF Step.host THEN "own flash" ELSE "waiting"
      BY <1>5, <2>3 DEF WorkDone
    <3>2. p \in Phase
      BY <1>1
    <3> QED BY <1>1, <2>1, <2>3, <3>1, <3>2, RunAtDoes DEF SameOutcome
  <2> QED BY <2>2, <2>3
<1>6. CASE NotBack
  BY <1>1, <1>2, <1>6, StopsDoes DEF NotBack, BetweenInv
<1> QED BY <1>3, <1>4, <1>5, <1>6

LEMMA ComesBackDoes ==
    ASSUME TypeOK, BetweenInv, ComesBack
    PROVE  /\ run.at = "waiting" /\ run.i \in DOMAIN run.steps /\ dev[Current].sys # "writing" /\ dev[Current].runs = Step.to
           /\ run' \in RunState /\ run'.at = "next" /\ run'.steps = run.steps /\ run'.i = run.i + 1 /\ run'.seen = run.seen
           /\ run'.done = run.done \cup {Current} /\ run'.told = run.told /\ run'.end = run.end
           /\ UNCHANGED <<via, dev, work, note, app, faults>>
<1>1. run \in RunState /\ run.i \in DOMAIN run.steps
  BY DEF TypeOK, BetweenInv, ComesBack
<1>2. Current \in Device
  BY <1>1, StepIs
<1> QED BY <1>1, <1>2, NextDoes DEF ComesBack, Fine

LEMMA OwnFlashNeverBeganDoes ==
    ASSUME TypeOK, PlanInv, BetweenInv, OwnFlashNeverBegan
    PROVE  /\ run.at = "own flash" /\ run.i \in DOMAIN run.steps /\ Current = host /\ host \in Device /\ dev[host].sys = "no"
           /\ run' \in RunState /\ SameWay /\ run'.done = run.done /\ run'.told = run.told \cup {Current}
           /\ (run'.at = "ended" /\ run'.end = "failed") \/ (run'.at = "applying" /\ run'.end = run.end)
           /\ note' = NoRelease
           /\ dev' \in [Device -> DeviceState] /\ Rest(host)
           /\ dev'[host].runs = dev[host].runs /\ dev'[host].conf = dev[host].conf /\ dev'[host].ram = "none"
           /\ dev'[host].sys = "no" /\ dev'[host].kept = FALSE
           /\ UNCHANGED <<via, work, app, faults>>
<1>1. run \in RunState /\ run.i \in DOMAIN run.steps /\ run.at = "own flash" /\ dev \in [Device -> DeviceState]
  BY DEF TypeOK, BetweenInv, OwnFlashNeverBegan
<1>2. Current = host /\ host \in Device
  <2>1. Step.host /\ Planned(Step, run.seen)
    BY <1>1 DEF BetweenInv, PlanInv, Going, Step
  <2> QED BY <1>1, <2>1, StepIs DEF Planned
<1>3. dev[host] \in DeviceState
  BY <1>1, <1>2
<1> DEFINE t == [dev[host] EXCEPT !.ram = "none", !.kept = FALSE]
<1>4. t \in DeviceState /\ t.runs = dev[host].runs /\ t.conf = dev[host].conf /\ t.ram = "none" /\ t.sys = dev[host].sys /\ t.kept = FALSE
  BY <1>3, CleanedSet
<1>5. Stops(host) /\ Sets(host, t) /\ dev[host].sys = "no" /\ note' = NoRelease /\ UNCHANGED <<via, work, app, faults>>
  BY DEF OwnFlashNeverBegan, Fine
<1> HIDE DEF t
<1>6. dev' \in [Device -> DeviceState] /\ dev'[host] = t /\ Rest(host)
  BY <1>1, <1>2, <1>4, <1>5, SetsDoes DEF Rest
<1>7. /\ run' \in RunState /\ SameWay /\ run'.done = run.done /\ run'.told = run.told \cup {Current}
      /\ (run'.at = "ended" /\ run'.end = "failed") \/ (run'.at = "applying" /\ run'.end = run.end)
  BY <1>1, <1>2, <1>5, StopsDoes
<1> QED BY <1>1, <1>2, <1>4, <1>5, <1>6, <1>7

SameRelease(d) == dev'[d].runs = dev[d].runs /\ dev'[d].conf = dev[d].conf
SameSysupgrade(d) == dev'[d].sys = dev[d].sys /\ dev'[d].flash = dev[d].flash
SameHeld(d) == dev'[d].ram = dev[d].ram /\ dev'[d].kept = dev[d].kept

LEMMA AppliedDoes ==
    ASSUME dev \in [Device -> DeviceState], NEW ds \in SUBSET Device, AppliedTo(ds)
    PROVE  /\ dev' \in [Device -> DeviceState]
           /\ \A d \in Device : /\ SameSysupgrade(d) /\ SameHeld(d) /\ dev'[d].runs = dev[d].runs
                                /\ dev'[d].conf = IF d \in ds THEN dev[d].runs[1] ELSE dev[d].conf
<1>1. \A d \in Device : /\ dev[d] \in DeviceState
                        /\ LET t == [dev[d] EXCEPT !.conf = dev[d].runs[1]] IN
                            /\ t \in DeviceState /\ t.runs = dev[d].runs /\ t.conf = dev[d].runs[1]
                            /\ t.sys = dev[d].sys /\ t.flash = dev[d].flash /\ t.ram = dev[d].ram /\ t.kept = dev[d].kept
  BY Sizes DEF DeviceState
<1>2. dev' \in [Device -> DeviceState]
  BY <1>1 DEF AppliedTo
<1>3. \A d \in Device : dev'[d] = IF d \in ds THEN [dev[d] EXCEPT !.conf = dev[d].runs[1]] ELSE dev[d]
  BY DEF AppliedTo
<1> QED BY <1>1, <1>2, <1>3 DEF SameSysupgrade, SameHeld

LEMMA PartlyDoes ==
    ASSUME run \in RunState, NEW ds \in SUBSET Device, NEW keeps, EndsPartly(ds, keeps)
    PROVE  /\ run' \in RunState /\ run'.at = "ended" /\ SameWay /\ run'.done = run.done
           /\ run'.told = run.told \cup (ds \ keeps) /\ run'.end \in {"failed", "partial"}
<1>1. PICK how \in {"failed", "partial"} : run' = [run EXCEPT !.at = "ended", !.end = how, !.told = @ \cup (ds \ keeps)]
  BY DEF EndsPartly
<1>2. run.told \cup (ds \ keeps) \in SUBSET Device
  BY DEF RunState
<1> HIDE DEF EndsPartly
<1> QED BY <1>1, <1>2 DEF RunState, Phase, SameWay

LEMMA AppliesDoes ==
    ASSUME TypeOK, Applies
    PROVE  /\ run.at = "applying" /\ run' \in RunState /\ run'.at = "ended" /\ SameWay
           /\ run'.done = run.done /\ run.told \subseteq run'.told
           /\ \A d \in Device : dev'[d].conf \in {dev[d].conf, dev[d].runs[1]}
           /\ \/ run'.end = "failed"
              \/ /\ run'.told = {} /\ run'.end = "applied"
                 /\ \A d \in Device : dev'[d].conf = dev[d].runs[1]
              \/ /\ run'.end = "partial"
                 /\ \A d \in run.done \ run'.told : dev'[d].conf = dev[d].runs[1]
           /\ dev' \in [Device -> DeviceState]
           /\ \A d \in Device : SameSysupgrade(d) /\ SameHeld(d) /\ dev'[d].runs = dev[d].runs
           /\ faults' \in 0..MaxFaults /\ UNCHANGED <<via, work, note, app>>
<1> DEFINE ds == IF run.told = {} THEN Device ELSE run.done
           end == IF run.told = {} THEN "applied" ELSE "partial"
<1>1. /\ run \in RunState /\ run.done \subseteq Device /\ dev \in [Device -> DeviceState] /\ faults \in 0..MaxFaults
      /\ ds \in SUBSET Device /\ run.done \subseteq ds /\ end \in {"applied", "partial"}
      /\ run.told = {} => ds = Device
  BY DEF TypeOK, RunState
<1>2. /\ run.at = "applying" /\ UNCHANGED <<via, work, note, app>> /\ (Fine \/ Fault)
      /\ \/ AppliedTo(ds) /\ Ends(end)
         \/ UNCHANGED dev /\ Ends("failed")
         \/ \E holds \in SUBSET ds : AppliedTo(holds) /\ \E keeps \in SUBSET holds : EndsPartly(ds, keeps)
  BY DEF Applies
<1>3. faults' \in 0..MaxFaults
  BY <1>1, <1>2, FaultsTyped
<1>4. (end = "applied" => run.told = {}) /\ (end = "partial" => run.told # {})
  OBVIOUS
<1> HIDE DEF ds, end
<1>5. CASE UNCHANGED dev /\ Ends("failed")
  BY <1>1, <1>2, <1>3, <1>5, EndsDoes DEF SameSysupgrade, SameHeld
<1>6. CASE AppliedTo(ds) /\ Ends(end)
  <2>1. /\ run' \in RunState /\ run'.at = "ended" /\ SameWay
        /\ run'.done = run.done /\ run'.told = run.told /\ run'.end = end
    BY <1>1, <1>6, EndsDoes
  <2>2. /\ dev' \in [Device -> DeviceState]
        /\ \A d \in Device : /\ SameSysupgrade(d) /\ SameHeld(d) /\ dev'[d].runs = dev[d].runs
                             /\ dev'[d].conf = IF d \in ds THEN dev[d].runs[1] ELSE dev[d].conf
    BY <1>1, <1>6, AppliedDoes
  <2> QED BY <1>1, <1>2, <1>3, <1>4, <2>1, <2>2
<1>7. CASE \E holds \in SUBSET ds : AppliedTo(holds) /\ \E keeps \in SUBSET holds : EndsPartly(ds, keeps)
  <2>6. PICK holds \in SUBSET ds : AppliedTo(holds) /\ \E keeps \in SUBSET holds : EndsPartly(ds, keeps)
    BY <1>7
  <2>1. PICK keeps \in SUBSET holds : EndsPartly(ds, keeps)
    BY <2>6
  <2>2. holds \in SUBSET Device /\ keeps \subseteq holds /\ AppliedTo(holds)
    BY <1>1, <2>1, <2>6
  <2>3. /\ run' \in RunState /\ run'.at = "ended" /\ SameWay /\ run'.done = run.done
        /\ run'.told = run.told \cup (ds \ keeps) /\ run'.end \in {"failed", "partial"}
    BY <1>1, <2>1, PartlyDoes
  <2>4. /\ dev' \in [Device -> DeviceState]
        /\ \A d \in Device : /\ SameSysupgrade(d) /\ SameHeld(d) /\ dev'[d].runs = dev[d].runs
                             /\ dev'[d].conf = IF d \in holds THEN dev[d].runs[1] ELSE dev[d].conf
    BY <1>1, <2>1, <2>2, AppliedDoes
  <2>5. \A d \in run.done \ run'.told : dev'[d].conf = dev[d].runs[1]
    BY <1>1, <2>2, <2>3, <2>4
  <2> QED BY <1>2, <1>3, <2>3, <2>4, <2>5
<1> QED BY <1>2, <1>5, <1>6, <1>7

\* The verbs that change no device.
LEMMA SaysDoes ==
    ASSUME TypeOK, BetweenInv, ChecksSession \/ VerbUnanswered
    PROVE  /\ run' = run /\ run.i \in DOMAIN run.steps /\ work' \in WorkState
           /\ \/ work.at = "session" /\ work'.at = "room" /\ dev[Current].runs = Step.from
              \/ work.at \in {"session", "room", "check", "flash"} /\ work'.at = "failed" /\ (work.at = "session" \/ ~Step.host)
              \/ work.at \in {"session", "room", "check", "flash"} /\ work'.at = "clean" /\ ~Step.host
           /\ faults' \in 0..MaxFaults /\ UNCHANGED <<via, dev, note, app>>
<1>1. work \in WorkState /\ {"room", "failed", "clean"} \subseteq WorkPlace /\ faults \in 0..MaxFaults
  BY DEF TypeOK, WorkPlace
<1>2. work.at # "none" => run.i \in DOMAIN run.steps
  BY DEF BetweenInv
<1>3. CASE ChecksSession
  BY <1>1, <1>2, <1>3, WorkAtDoes, Sizes DEF ChecksSession, Verb, Fine, Fault
<1>4. CASE VerbUnanswered
  <2>1. PICK p \in {"failed", "clean"} : WorkAt(p) /\ p = IF work.at = "session" THEN "failed" ELSE "clean"
    BY <1>4 DEF VerbUnanswered
  <2> QED BY <1>1, <1>2, <1>4, <2>1, WorkAtDoes DEF VerbUnanswered, Answers, Fine
<1> QED BY <1>3, <1>4

\* Those that hold an image in the device's memory.
LEMMA HoldsDoes ==
    ASSUME TypeOK, BetweenInv, Fetches \/ Checks
    PROVE  /\ run' = run /\ run.i \in DOMAIN run.steps /\ work' \in WorkState
           /\ \/ work.at = "room" /\ work'.at \in {"check", "clean"}
              \/ work.at = "check" /\ work'.at = (IF Step.host THEN "keep self" ELSE "flash")
              \/ work.at = "check" /\ work'.at = "clean"
           /\ dev' \in [Device -> DeviceState] /\ Rest(Current) /\ Current \in Device
           /\ SameRelease(Current) /\ SameSysupgrade(Current) /\ dev'[Current].kept = dev[Current].kept
           /\ faults' \in 0..MaxFaults /\ UNCHANGED <<via, note, app>>
<1>1. /\ work \in WorkState /\ {"check", "clean", "keep self", "flash"} \subseteq WorkPlace /\ faults \in 0..MaxFaults
      /\ run \in RunState /\ dev \in [Device -> DeviceState]
  BY DEF TypeOK, WorkPlace
<1>2. run.i \in DOMAIN run.steps
  BY DEF BetweenInv, Fetches, Checks, Verb
<1>3. Current \in Device /\ dev[Current] \in DeviceState
  BY <1>1, <1>2, StepIs
<1>4. ASSUME NEW left \in {"none", "part", "image", "checked"}, Sets(Current, [dev[Current] EXCEPT !.ram = left])
      PROVE  /\ dev' \in [Device -> DeviceState] /\ Rest(Current)
             /\ SameRelease(Current) /\ SameSysupgrade(Current) /\ dev'[Current].kept = dev[Current].kept
  <2> DEFINE t == [dev[Current] EXCEPT !.ram = left]
  <2>1. t \in DeviceState /\ t.runs = dev[Current].runs /\ t.conf = dev[Current].conf /\ t.sys = dev[Current].sys
        /\ t.flash = dev[Current].flash /\ t.kept = dev[Current].kept
    BY <1>3, HoldsSet
  <2>2. Sets(Current, t)
    BY <1>4
  <2> HIDE DEF t
  <2>3. dev' \in [Device -> DeviceState] /\ dev'[Current] = t /\ Rest(Current)
    BY <1>1, <1>3, <2>1, <2>2, SetsDoes DEF Rest
  <2> QED BY <2>1, <2>3 DEF SameRelease, SameSysupgrade
<1>5. CASE Fetches
  <2>1. PICK p \in {"check", "clean"}, left \in {"none", "part", "image", "checked"} :
            WorkAt(p) /\ Sets(Current, [dev[Current] EXCEPT !.ram = left])
    BY <1>5 DEF Fetches
  <2>2. work.at = "room" /\ UNCHANGED <<via, run, note, app>> /\ (Fine \/ Fault)
    BY <1>5 DEF Fetches, Verb
  <2>3. work' \in WorkState /\ work'.at = p
    BY <1>1, <2>1, WorkAtDoes
  <2>4. faults' \in 0..MaxFaults
    BY <1>1, <2>2, FaultsTyped
  <2> QED BY <1>2, <1>3, <1>4, <2>1, <2>2, <2>3, <2>4
<1>6. CASE Checks
  <2>1. PICK p \in {"keep self", "flash", "clean"}, left \in {"none", "checked"} :
            /\ WorkAt(p) /\ Sets(Current, [dev[Current] EXCEPT !.ram = left])
            /\ p = (IF Step.host THEN "keep self" ELSE "flash") \/ p = "clean"
    BY <1>6 DEF Checks
  <2>2. work.at = "check" /\ UNCHANGED <<via, run, note, app>> /\ (Fine \/ Fault)
    BY <1>6 DEF Checks, Verb
  <2>3. work' \in WorkState /\ work'.at = p
    BY <1>1, <2>1, WorkAtDoes
  <2>4. faults' \in 0..MaxFaults
    BY <1>1, <2>2, FaultsTyped
  <2> QED BY <1>2, <1>3, <1>4, <2>1, <2>2, <2>3, <2>4
<1> QED BY <1>5, <1>6

\* The app kept on its own device, and noted.
LEMMA KeepsSelfDoes ==
    ASSUME TypeOK, PlanInv, BetweenInv, WorkInv, KeepsSelf
    PROVE  /\ run' = run /\ run.i \in DOMAIN run.steps /\ work' \in WorkState
           /\ Step.host /\ Current = host /\ host \in Device /\ work.at = "keep self"
           /\ \/ work'.at = "flash" /\ dev'[host].kept /\ note' \in {note, Step.to}
              \/ work'.at = "clean" /\ note' = note
           /\ dev' \in [Device -> DeviceState] /\ Rest(host)
           /\ SameRelease(host) /\ SameSysupgrade(host) /\ dev'[host].ram = dev[host].ram
           /\ faults' \in 0..MaxFaults /\ UNCHANGED <<via, app>>
<1>1. /\ work \in WorkState /\ {"clean", "flash"} \subseteq WorkPlace /\ faults \in 0..MaxFaults
      /\ run \in RunState /\ dev \in [Device -> DeviceState]
  BY DEF TypeOK, WorkPlace
<1>2. work.at = "keep self" /\ run.i \in DOMAIN run.steps /\ Step.host
  BY DEF BetweenInv, WorkInv, KeepsSelf, Verb
<1>3. Current = host /\ host \in Device /\ dev[host] \in DeviceState
  <2>1. Planned(Step, run.seen)
    BY <1>2 DEF PlanInv, Going, Step
  <2> QED BY <1>1, <1>2, <2>1, StepIs DEF Planned
<1>4. ASSUME NEW kept \in BOOLEAN, Sets(host, [dev[host] EXCEPT !.kept = kept])
      PROVE  /\ dev' \in [Device -> DeviceState] /\ Rest(host) /\ dev'[host].kept = kept
             /\ SameRelease(host) /\ SameSysupgrade(host) /\ dev'[host].ram = dev[host].ram
  <2> DEFINE t == [dev[host] EXCEPT !.kept = kept]
  <2>1. t \in DeviceState /\ t.runs = dev[host].runs /\ t.conf = dev[host].conf /\ t.sys = dev[host].sys
        /\ t.flash = dev[host].flash /\ t.kept = kept /\ t.ram = dev[host].ram
    BY <1>3, KeptSet
  <2>2. Sets(host, t)
    BY <1>4
  <2> HIDE DEF t
  <2>3. dev' \in [Device -> DeviceState] /\ dev'[host] = t /\ Rest(host)
    BY <1>1, <1>3, <2>1, <2>2, SetsDoes DEF Rest
  <2> QED BY <2>1, <2>3 DEF SameRelease, SameSysupgrade
<1>5. UNCHANGED <<via, run, app>> /\ (Fine \/ Fault)
  BY DEF KeepsSelf
<1>6. faults' \in 0..MaxFaults
  BY <1>1, <1>5, FaultsTyped
<1>7. CASE WorkAt("flash") /\ Sets(host, [dev[host] EXCEPT !.kept = TRUE]) /\ note' \in {note, Step.to}
  <2>1. work' \in WorkState /\ work'.at = "flash"
    BY <1>1, <1>7, WorkAtDoes
  <2> QED BY <1>2, <1>3, <1>4, <1>5, <1>6, <1>7, <2>1
<1>8. CASE WorkAt("clean") /\ note' = note /\ \E kept \in BOOLEAN : Sets(host, [dev[host] EXCEPT !.kept = kept])
  <2>1. work' \in WorkState /\ work'.at = "clean"
    BY <1>1, <1>8, WorkAtDoes
  <2> QED BY <1>2, <1>3, <1>4, <1>5, <1>6, <1>8, <2>1
<1> QED BY <1>7, <1>8 DEF KeepsSelf

LEMMA FlashesDoes ==
    ASSUME TypeOK, BetweenInv, Flashes
    PROVE  /\ run' = run /\ run.i \in DOMAIN run.steps /\ work' \in WorkState
           /\ work.at = "flash" /\ work'.at \in {"ok", "clean"}
           /\ dev' \in [Device -> DeviceState] /\ Rest(Current) /\ Current \in Device
           /\ SameRelease(Current) /\ SameHeld(Current)
           /\ SameSysupgrade(Current) \/ (dev'[Current].sys = "due" /\ dev'[Current].flash = Step)
           /\ faults' \in 0..MaxFaults /\ UNCHANGED <<via, note, app>>
<1>1. /\ work \in WorkState /\ {"clean", "ok"} \subseteq WorkPlace /\ faults \in 0..MaxFaults
      /\ run \in RunState /\ dev \in [Device -> DeviceState]
  BY DEF TypeOK, WorkPlace
<1>2. work.at = "flash" /\ run.i \in DOMAIN run.steps
  BY DEF BetweenInv, Flashes, Verb
<1>3. Current \in Device /\ dev[Current] \in DeviceState /\ Step \in UpgradeStep
  BY <1>1, <1>2, StepIs
<1> DEFINE t == [dev[Current] EXCEPT !.sys = "due", !.flash = Step]
<1>4. t \in DeviceState /\ t.runs = dev[Current].runs /\ t.conf = dev[Current].conf /\ t.sys = "due"
      /\ t.flash = Step /\ t.kept = dev[Current].kept /\ t.ram = dev[Current].ram
  BY <1>3, DueSet
<1>5. /\ UNCHANGED <<via, run, note, app>> /\ (Fine \/ Fault)
      /\ (WorkAt("ok") /\ Sets(Current, t)) \/ (WorkAt("clean") /\ (Sets(Current, t) \/ UNCHANGED dev))
  BY DEF Flashes
<1> HIDE DEF t
<1>6. work' \in WorkState /\ work'.at \in {"ok", "clean"}
  BY <1>1, <1>5, WorkAtDoes
<1>7. CASE Sets(Current, t)
  <2>1. dev' \in [Device -> DeviceState] /\ dev'[Current] = t /\ Rest(Current)
    BY <1>1, <1>3, <1>4, <1>7, SetsDoes DEF Rest
  <2> QED BY <1>1, <1>2, <1>3, <1>4, <1>5, <1>6, <2>1, FaultsTyped DEF SameRelease, SameHeld
<1>8. CASE UNCHANGED dev
  BY <1>1, <1>2, <1>3, <1>5, <1>6, <1>8, FaultsTyped DEF SameRelease, SameHeld, SameSysupgrade, Rest
<1> QED BY <1>5, <1>7, <1>8

\* The device left clean where it can be asked, the note forgotten.
LEMMA CleansDoes ==
    ASSUME TypeOK, BetweenInv, Cleans
    PROVE  /\ run' = run /\ run.i \in DOMAIN run.steps /\ work' \in WorkState
           /\ work.at = "clean" /\ work'.at = "failed"
           /\ note' = IF Step.host THEN NoRelease ELSE note
           /\ dev' \in [Device -> DeviceState] /\ Rest(Current) /\ Current \in Device
           /\ SameRelease(Current) /\ SameSysupgrade(Current)
           /\ SameHeld(Current) \/ (dev'[Current].ram = "none" /\ ~dev'[Current].kept /\ dev[Current].sys # "writing")
           /\ faults' \in 0..MaxFaults /\ UNCHANGED <<via, app>>
<1>1. /\ work \in WorkState /\ "failed" \in WorkPlace /\ faults \in 0..MaxFaults
      /\ run \in RunState /\ dev \in [Device -> DeviceState]
  BY DEF TypeOK, WorkPlace
<1>2. work.at = "clean" /\ run.i \in DOMAIN run.steps
  BY DEF BetweenInv, Cleans
<1>3. Current \in Device /\ dev[Current] \in DeviceState
  BY <1>1, <1>2, StepIs
<1> DEFINE t == [dev[Current] EXCEPT !.ram = "none", !.kept = FALSE]
<1>4. t \in DeviceState /\ t.runs = dev[Current].runs /\ t.conf = dev[Current].conf /\ t.sys = dev[Current].sys
      /\ t.flash = dev[Current].flash /\ t.kept = FALSE /\ t.ram = "none"
  BY <1>3, CleanedSet
<1>5. /\ UNCHANGED <<via, run, app>> /\ (Fine \/ Fault) /\ WorkAt("failed")
      /\ note' = IF Step.host THEN NoRelease ELSE note
      /\ (dev[Current].sys # "writing" /\ Sets(Current, t)) \/ UNCHANGED dev
  BY DEF Cleans
<1> HIDE DEF t
<1>6. work' \in WorkState /\ work'.at = "failed"
  BY <1>1, <1>5, WorkAtDoes
<1>7. CASE dev[Current].sys # "writing" /\ Sets(Current, t)
  <2>1. dev' \in [Device -> DeviceState] /\ dev'[Current] = t /\ Rest(Current)
    BY <1>1, <1>3, <1>4, <1>7, SetsDoes DEF Rest
  <2> QED BY <1>1, <1>2, <1>3, <1>4, <1>5, <1>6, <1>7, <2>1, FaultsTyped DEF SameRelease, SameSysupgrade
<1>8. CASE UNCHANGED dev
  BY <1>1, <1>2, <1>3, <1>5, <1>6, <1>8, FaultsTyped DEF SameRelease, SameHeld, SameSysupgrade, Rest
<1> QED BY <1>5, <1>7, <1>8

\* A sysupgrade begun ends what runs on the device: this app's run, on its host.
LEMMA SysupgradeDoes ==
    ASSUME TypeOK, NEW d \in Device, SysupgradeBegins(d) \/ SysupgradeFails(d)
    PROVE  /\ dev[d].sys = "due"
           /\ dev' \in [Device -> DeviceState] /\ Rest(d)
           /\ SameRelease(d) /\ SameHeld(d) /\ dev'[d].flash = dev[d].flash
           /\ \/ dev'[d].sys = "no" /\ run' = run /\ work' = work
              \/ dev'[d].sys = "writing" /\ dev[d].ram \in {"image", "checked"} /\ d # host /\ run' = run /\ work' = work
              \/ /\ dev'[d].sys = "writing" /\ dev[d].ram \in {"image", "checked"} /\ d = host /\ work' = NoWork
                 /\ \/ run.at = "ended" /\ run' = run
                    \/ run.at # "ended" /\ run' \in RunState /\ run'.at = "killed" /\ SameWay /\ SameOutcome
           /\ faults' \in 0..MaxFaults /\ UNCHANGED <<via, note, app>>
<1>1. run \in RunState /\ dev \in [Device -> DeviceState] /\ dev[d] \in DeviceState /\ faults \in 0..MaxFaults /\ "killed" \in Phase
  BY DEF TypeOK, Phase
<1>2. ASSUME NEW x \in {"no", "writing"}, Sets(d, [dev[d] EXCEPT !.sys = x])
      PROVE  /\ dev' \in [Device -> DeviceState] /\ Rest(d) /\ dev'[d].sys = x
             /\ SameRelease(d) /\ SameHeld(d) /\ dev'[d].flash = dev[d].flash
  <2> DEFINE t == [dev[d] EXCEPT !.sys = x]
  <2>1. t \in DeviceState /\ t.runs = dev[d].runs /\ t.conf = dev[d].conf /\ t.sys = x
        /\ t.flash = dev[d].flash /\ t.kept = dev[d].kept /\ t.ram = dev[d].ram
    <3>1. x \in {"no", "due", "writing"}
      OBVIOUS
    <3> QED BY ZenonT(60), <1>1, <3>1, SysSet
  <2>2. Sets(d, t)
    BY <1>2
  <2> HIDE DEF t
  <2>3. dev' \in [Device -> DeviceState] /\ dev'[d] = t /\ Rest(d)
    BY <1>1, <2>1, <2>2, SetsDoes DEF Rest
  <2> QED BY <2>1, <2>3 DEF SameRelease, SameHeld
<1>3. CASE SysupgradeFails(d)
  <2>1. dev[d].sys = "due" /\ Sets(d, [dev[d] EXCEPT !.sys = "no"]) /\ (Fine \/ Fault) /\ UNCHANGED <<via, run, work, note, app>>
    BY <1>3 DEF SysupgradeFails
  <2> QED BY <1>1, <1>2, <2>1, FaultsTyped
<1>4. CASE SysupgradeBegins(d)
  <2>1. /\ dev[d].sys = "due" /\ dev[d].ram \in {"image", "checked"} /\ Sets(d, [dev[d] EXCEPT !.sys = "writing"])
        /\ (Fine \/ Fault) /\ UNCHANGED <<via, note, app>>
        /\ d # host => UNCHANGED <<run, work>>
        /\ d = host => work' = NoWork /\ run' = IF run.at = "ended" THEN run ELSE [run EXCEPT !.at = "killed"]
    BY <1>4 DEF SysupgradeBegins
  <2>2. d = host /\ run.at # "ended" => run' \in RunState /\ run'.at = "killed" /\ SameWay /\ SameOutcome
    BY <1>1, <2>1, RunAtDoes DEF RunAt, SameOutcome
  <2> QED BY <1>1, <1>2, <2>1, <2>2, FaultsTyped
<1> QED BY <1>3, <1>4

LEMMA BootsDoes ==
    ASSUME TypeOK, FlashInv, NEW d \in Device, Boots(d)
    PROVE  /\ dev[d].sys = "writing" /\ dev[d].flash \in UpgradeStep
           /\ dev' \in [Device -> DeviceState] /\ Rest(d) /\ dev'[d].sys = "no" /\ dev'[d].ram = "none"
           /\ \/ /\ dev'[d].runs = dev[d].flash.to
                 /\ dev'[d].conf = IF dev[d].flash.keep = "keys" THEN FirstBoot ELSE dev[d].conf
              \/ SameRelease(d)
           /\ app' \in AppState /\ (d # host => app' = app) /\ (d = host => app'.start = "starting")
           /\ app'.there \in {app.there} \cup Reinstalled(dev[d].kept /\ dev[d].flash.host /\ dev[d].flash.keep = "settings")
           /\ faults' \in 0..MaxFaults /\ UNCHANGED <<via, run, work, note>>
<1>1. run \in RunState /\ dev \in [Device -> DeviceState] /\ dev[d] \in DeviceState /\ faults \in 0..MaxFaults
  BY DEF TypeOK
<1> DEFINE flash == dev[d].flash
           up == [dev[d] EXCEPT !.ram = "none", !.sys = "no", !.flash = NoStep]
           new == [up EXCEPT !.runs = flash.to, !.conf = IF flash.keep = "keys" THEN FirstBoot ELSE @, !.kept = FALSE]
<1>2. dev[d].sys = "writing" /\ flash \in UpgradeStep
  <2>1. dev[d].sys = "writing"
    BY DEF Boots
  <2> QED BY <1>1, <2>1, StepIs DEF FlashInv
<1>3. flash.to \in Running /\ (flash.keep = "keys" => FirstBoot \in Nat)
  BY <1>2 DEF UpgradeStep, FirstBoot
<1>4. up \in DeviceState /\ up.runs = dev[d].runs /\ up.conf = dev[d].conf /\ up.ram = "none" /\ up.sys = "no"
  BY <1>1 DEF DeviceState
<1>5. new \in DeviceState /\ new.runs = flash.to /\ new.ram = "none" /\ new.sys = "no"
      /\ new.conf = IF flash.keep = "keys" THEN FirstBoot ELSE dev[d].conf
  <2> HIDE DEF up, flash
  <2> QED BY <1>3, <1>4 DEF DeviceState, FirstBoot
<1>6. /\ UNCHANGED <<via, run, work, note>> /\ (Fine \/ Fault)
      /\ \/ /\ Sets(d, new)
            /\ \E there \in Reinstalled(dev[d].kept /\ flash.host /\ flash.keep = "settings") :
                  app' = IF d = host THEN [there |-> there, start |-> "starting"] ELSE app
         \/ /\ Sets(d, up)
            /\ app' = IF d = host THEN [app EXCEPT !.start = "starting"] ELSE app
  BY DEF Boots
<1>9. \A there \in Reinstalled(dev[d].kept /\ flash.host /\ flash.keep = "settings") :
         [there |-> there, start |-> "starting"] \in AppState
  BY DEF AppState, Reinstalled
<1>10. app \in AppState /\ [app EXCEPT !.start = "starting"] \in AppState
  BY DEF TypeOK, AppState
<1>11. /\ app' \in AppState /\ (d # host => app' = app) /\ (d = host => app'.start = "starting")
       /\ app'.there \in {app.there} \cup Reinstalled(dev[d].kept /\ flash.host /\ flash.keep = "settings")
  <2>1. CASE d # host
    BY <1>6, <1>10, <2>1
  <2>2. CASE d = host
    <3>1. \/ app' = [app EXCEPT !.start = "starting"]
          \/ \E there \in Reinstalled(dev[d].kept /\ flash.host /\ flash.keep = "settings") :
                app' = [there |-> there, start |-> "starting"]
      BY <1>6, <2>2
    <3> HIDE DEF flash
    <3>2. CASE app' = [app EXCEPT !.start = "starting"]
      BY <1>10, <2>2, <3>2 DEF AppState
    <3>3. CASE \E there \in Reinstalled(dev[d].kept /\ flash.host /\ flash.keep = "settings") :
                app' = [there |-> there, start |-> "starting"]
      BY <1>9, <2>2, <3>3
    <3> QED BY <3>1, <3>2, <3>3
  <2> QED BY <2>1, <2>2
<1>7. CASE /\ Sets(d, new)
           /\ \E there \in Reinstalled(dev[d].kept /\ flash.host /\ flash.keep = "settings") :
                  app' = IF d = host THEN [there |-> there, start |-> "starting"] ELSE app
  <2>1. dev' \in [Device -> DeviceState] /\ dev'[d] = new /\ Rest(d)
    <3> HIDE DEF new
    <3> QED BY <1>1, <1>5, <1>7, SetsDoes DEF Rest
  <2> HIDE DEF new, up
  <2> QED BY <1>1, <1>2, <1>5, <1>6, <1>11, <2>1, FaultsTyped
<1>8. CASE Sets(d, up) /\ app' = IF d = host THEN [app EXCEPT !.start = "starting"] ELSE app
  <2>1. dev' \in [Device -> DeviceState] /\ dev'[d] = up /\ Rest(d)
    <3> HIDE DEF up
    <3> QED BY <1>1, <1>4, <1>8, SetsDoes DEF Rest
  <2> HIDE DEF new, up
  <2> QED BY <1>1, <1>2, <1>4, <1>6, <1>11, <2>1, FaultsTyped DEF SameRelease
<1> HIDE DEF new, up, flash
<1> QED BY <1>6, <1>7, <1>8

LEMMA MovedByHandDoes ==
    ASSUME TypeOK, NEW d \in Device, MovedByHand(d)
    PROVE  /\ run.at \in {"reading", "building", "next"} /\ dev[d].sys = "no"
           /\ dev' \in [Device -> DeviceState] /\ Rest(d) /\ SameSysupgrade(d) /\ SameHeld(d)
           /\ dev'[d].conf = dev'[d].runs[1]
           /\ faults' \in 0..MaxFaults /\ UNCHANGED <<via, run, work, note, app>>
<1>1. dev \in [Device -> DeviceState] /\ dev[d] \in DeviceState /\ faults \in 0..MaxFaults
  BY DEF TypeOK
<1>2. PICK r \in Running : Sets(d, [dev[d] EXCEPT !.runs = r, !.conf = r[1]])
  BY Sizes DEF MovedByHand
<1> DEFINE t == [dev[d] EXCEPT !.runs = r, !.conf = r[1]]
<1>3. t \in DeviceState /\ t.runs = r /\ t.conf = r[1] /\ t.sys = dev[d].sys
      /\ t.flash = dev[d].flash /\ t.kept = dev[d].kept /\ t.ram = dev[d].ram
  BY <1>1, MovedSet
<1>4. Sets(d, t)
  BY <1>2
<1> HIDE DEF t
<1>5. dev' \in [Device -> DeviceState] /\ dev'[d] = t /\ Rest(d)
  BY <1>1, <1>3, <1>4, SetsDoes DEF Rest
<1>6. run.at \in {"reading", "building", "next"} /\ dev[d].sys = "no" /\ Fault /\ UNCHANGED <<via, run, work, note, app>>
  BY DEF MovedByHand
<1> QED BY <1>1, <1>3, <1>5, <1>6, FaultsTyped DEF SameSysupgrade, SameHeld

\* The app's next start, and a machine that goes from one access point to another.
LEMMA StartDoes ==
    ASSUME TypeOK, StartStep \/ RestartedMeanwhile \/ BootsAgain \/ Roams
    PROVE  /\ dev' \in [Device -> DeviceState]
           /\ \A d \in Device : /\ SameSysupgrade(d) /\ SameHeld(d) /\ dev'[d].runs = dev[d].runs
                                /\ dev'[d].conf \in {dev[d].conf, dev[d].runs[1]}
           /\ \/ app.start = "starting" /\ note' = NoRelease
              \/ app.start # "starting" /\ note' = note
              \/ app'.start = app.start /\ note' = note
           /\ app' \in AppState
           /\ (app.there # "gone" => app'.there # "gone") /\ via' \in Device \cup {NoDevice}
           /\ faults' \in 0..MaxFaults /\ UNCHANGED <<run, work>>
<1>1. /\ dev \in [Device -> DeviceState] /\ faults \in 0..MaxFaults /\ via \in Device \cup {NoDevice}
      /\ app \in AppState
  BY DEF TypeOK
<1>2. CASE ReadsNote
  BY <1>1, <1>2, FaultsTyped DEF ReadsNote, SameSysupgrade, SameHeld, AppState
<1>3. CASE FinishesUpgrade
  <2>1. /\ app.start = "network" /\ app' = [app EXCEPT !.start = "said"] /\ UNCHANGED <<via, run, work, note>>
        /\ ((\E holds \in SUBSET Device : AppliedTo(holds)) \/ UNCHANGED dev) /\ (Fine \/ Fault)
    BY <1>3 DEF FinishesUpgrade
  <2>2. dev' \in [Device -> DeviceState]
        /\ \A d \in Device : /\ SameSysupgrade(d) /\ SameHeld(d) /\ dev'[d].runs = dev[d].runs
                             /\ dev'[d].conf \in {dev[d].conf, dev[d].runs[1]}
    <3>1. CASE \E holds \in SUBSET Device : AppliedTo(holds)
      <4>1. PICK holds \in SUBSET Device : AppliedTo(holds)
        BY <3>1
      <4> QED BY <1>1, <4>1, AppliedDoes
    <3>2. CASE UNCHANGED dev
      BY <1>1, <3>2 DEF SameSysupgrade, SameHeld
    <3> QED BY <2>1, <3>1, <3>2
  <2> QED BY <1>1, <2>1, <2>2, FaultsTyped DEF AppState
<1>4. CASE RestartedMeanwhile \/ Roams
  BY <1>1, <1>4, FaultsTyped DEF RestartedMeanwhile, Roams, SameSysupgrade, SameHeld, AppState
<1>5. CASE BootsAgain
  BY <1>1, <1>5, FaultsTyped DEF BootsAgain, Reinstalled, SameSysupgrade, SameHeld, AppState
<1> QED BY <1>2, <1>3, <1>4, <1>5 DEF StartStep

\* The steps of the run, of the work, of the devices and of the next start.
LEMMA NextIs ==
    ASSUME [Next]_vars
    PROVE  \/ PlansAlone \/ ReadsDevices \/ ComesBack \/ OwnFlashNeverBegan \/ Applies
           \/ (DeviceNotRead \/ Builds \/ AllUpgraded \/ Killed)
           \/ (OpensSession \/ TimesOut \/ WorkDone \/ NotBack)
           \/ (ChecksSession \/ VerbUnanswered) \/ (Fetches \/ Checks) \/ KeepsSelf \/ Flashes \/ Cleans
           \/ \E d \in Device : (SysupgradeBegins(d) \/ SysupgradeFails(d)) \/ Boots(d) \/ MovedByHand(d)
           \/ (StartStep \/ RestartedMeanwhile \/ BootsAgain \/ Roams)
           \/ UNCHANGED vars
  BY DEF Next, RunStep, WorkStep, DeviceStep

LEMMA FixedStays == [Next]_vars => ask' = ask /\ host' = host /\ facts' = facts
<1> SUFFICES ASSUME [Next]_vars PROVE UNCHANGED fixed
  BY DEF fixed
<1>1. CASE RunStep
  BY <1>1 DEF RunStep, PlansAlone, ReadsDevices, Builds, OpensSession, AllUpgraded, WorkDone, ComesBack, NotBack, OwnFlashNeverBegan, Applies
<1>2. CASE WorkStep
  BY <1>2 DEF WorkStep, ChecksSession, Fetches, Checks, KeepsSelf, Flashes, Cleans, VerbUnanswered
<1>3. ASSUME NEW d \in Device, DeviceStep(d) \/ MovedByHand(d) PROVE UNCHANGED fixed
  BY <1>3 DEF DeviceStep, SysupgradeBegins, SysupgradeFails, Boots, MovedByHand
<1>4. CASE StartStep
  BY <1>4 DEF StartStep, ReadsNote, FinishesUpgrade
<1>5. CASE DeviceNotRead \/ TimesOut \/ RestartedMeanwhile \/ BootsAgain \/ Killed \/ Roams
  BY <1>5 DEF DeviceNotRead, TimesOut, RestartedMeanwhile, BootsAgain, Killed, Roams
<1>6. CASE UNCHANGED vars
  BY <1>6 DEF vars
<1> QED BY <1>1, <1>2, <1>3, <1>4, <1>5, <1>6 DEF Next

LEMMA InitTyped == Init => TypeOK
<1> SUFFICES ASSUME Init PROVE TypeOK
  OBVIOUS
<1>1. PICK runs \in [Device -> Releases] :
        /\ facts = [d \in Device |-> IF d \in ask.unread THEN NoRelease ELSE runs[d]]
        /\ dev = [d \in Device |-> [runs |-> runs[d], conf |-> runs[d][1], ram |-> "none",
                                    sys |-> "no", flash |-> NoStep, kept |-> FALSE]]
  BY DEF Init
<1>2. ask \in Asks /\ host \in {NoDevice, Router} /\ via \in Device \cup {NoDevice}
      /\ run = [at |-> "plan", i |-> 1, steps |-> <<>>, done |-> {}, told |-> {}, end |-> "none", seen |-> NoDevice]
      /\ work = NoWork /\ note = NoRelease /\ app = [there |-> "yes", start |-> "none"] /\ faults = MaxFaults
  BY DEF Init
<1>3. \A d \in Device : runs[d] \in Running /\ runs[d][1] \in Nat
  BY Sizes
<1>4. dev \in [Device -> DeviceState] /\ facts \in [Device -> Running \cup {NoRelease}]
  BY <1>1, <1>3 DEF DeviceState
<1>5. run \in RunState /\ work \in WorkState
  BY <1>2 DEF RunState, Phase, WorkState, WorkPlace, NoWork
<1> QED BY <1>2, <1>4, <1>5, Sizes DEF TypeOK, AppState

LEMMA StepTyped == TypeOK /\ PlanInv /\ BetweenInv /\ WorkInv /\ FlashInv /\ [Next]_vars => TypeOK'
<1> SUFFICES ASSUME TypeOK, PlanInv, BetweenInv, WorkInv, FlashInv, [Next]_vars PROVE TypeOK'
  OBVIOUS
<1>0. ask' \in Asks /\ host' \in {NoDevice, Router} /\ facts' \in [Device -> Running \cup {NoRelease}]
  BY FixedStays DEF TypeOK
<1>1. NoRelease \in Release /\ NoWork \in WorkState /\ [NoWork EXCEPT !.at = "session"] \in WorkState /\ (work \in WorkState => [work EXCEPT !.over = TRUE] \in WorkState)
  BY Sizes DEF WorkState, WorkPlace, NoWork
<1>2. CASE PlansAlone
  BY <1>0, <1>2, PlansAloneDoes DEF TypeOK
<1>3. CASE ReadsDevices
  BY <1>0, <1>3, ReadsDevicesDoes DEF TypeOK
<1>4. CASE DeviceNotRead \/ Builds \/ AllUpgraded \/ Killed
  BY <1>0, <1>1, <1>4, RunOnDoes DEF TypeOK
<1>5. CASE OpensSession \/ TimesOut \/ WorkDone \/ NotBack
  <2>1. faults' \in 0..MaxFaults
    BY <1>5, FaultsTyped DEF OpensSession, TimesOut, WorkDone, NotBack, TypeOK
  <2> QED BY <1>0, <1>1, <1>5, <2>1, StopsOnDoes DEF TypeOK
<1>6. CASE ComesBack
  BY <1>0, <1>6, ComesBackDoes DEF TypeOK
<1>7. CASE OwnFlashNeverBegan
  BY <1>0, <1>1, <1>7, OwnFlashNeverBeganDoes DEF TypeOK
<1>8. CASE Applies
  BY <1>0, <1>8, AppliesDoes DEF TypeOK
<1>9. CASE ChecksSession \/ VerbUnanswered
  BY <1>0, <1>9, SaysDoes DEF TypeOK
<1>10. CASE Fetches \/ Checks
  BY <1>0, <1>10, HoldsDoes DEF TypeOK
<1>11. CASE KeepsSelf
  <2>1. Step.to \in Release
    BY <1>11, KeepsSelfDoes, StepIs, Sizes DEF TypeOK, UpgradeStep
  <2> QED BY <1>0, <1>11, <2>1, KeepsSelfDoes DEF TypeOK
<1>12. CASE Flashes
  BY <1>0, <1>12, FlashesDoes DEF TypeOK
<1>13. CASE Cleans
  BY <1>0, <1>1, <1>13, CleansDoes DEF TypeOK
<1>14. ASSUME NEW d \in Device, SysupgradeBegins(d) \/ SysupgradeFails(d) PROVE TypeOK'
  BY <1>0, <1>1, <1>14, SysupgradeDoes DEF TypeOK
<1>15. ASSUME NEW d \in Device, Boots(d) PROVE TypeOK'
  BY <1>0, <1>15, BootsDoes DEF TypeOK
<1>16. ASSUME NEW d \in Device, MovedByHand(d) PROVE TypeOK'
  BY <1>0, <1>16, MovedByHandDoes DEF TypeOK
<1>17. CASE StartStep \/ RestartedMeanwhile \/ BootsAgain \/ Roams
  BY <1>0, <1>1, <1>17, StartDoes DEF TypeOK
<1>18. CASE UNCHANGED vars
  BY <1>18 DEF vars, fixed, TypeOK
<1> QED BY <1>2, <1>3, <1>4, <1>5, <1>6, <1>7, <1>8, <1>9, <1>10, <1>11, <1>12, <1>13, <1>14, <1>15, <1>16, <1>17, <1>18, NextIs

(* The plan the run goes by. *)

LEMMA GoingStays ==
    ASSUME [Next]_vars
    PROVE  /\ \A s, seen : Planned(s, seen) => Planned(s, seen)'
           /\ \A steps, seen : Going(steps, seen) => Going(steps, seen)'
  BY FixedStays DEF Going, Planned, CutsNone, TargetOf

\* Planned again with what the devices answered, the same devices move: what
\* the app runs on is among them or moves not at all.
LEMMA ReadPlan ==
    ASSUME TypeOK, PlanInv, [Next]_vars, ReadsDevices, run'.at = "building"
    PROVE  Going(run'.steps, run'.seen)
<1> DEFINE moving == {run.steps[i].device : i \in DOMAIN run.steps}
           apphost == IF host \in moving THEN host ELSE NoDevice
           wifi == {via} \cap moving
           plan == Plan(apphost, wifi)
           M == Movers(ask, facts)
<1>1. ask \in Asks /\ facts \in [Device -> Running \cup {NoRelease}] /\ host \in {NoDevice, Router}
  BY DEF TypeOK
<1>2. \A h, w : Plan(h, w) = PlanOf(ask, facts, h, w)
  BY DEF Plan, PlanOf
<1>3. moving = M
  <2>1. run.steps = Plan(NoDevice, {}).steps
    BY ReadsDevicesDoes DEF PlanInv
  <2> HIDE DEF M
  <2> QED BY <1>1, <1>2, <2>1, PlanSteps DEF M
<1>4. run'.steps = plan.steps /\ run'.seen = via /\ ~Refused(plan, ask.acks) /\ ask' = ask /\ host' = host /\ facts' = facts
  BY ReadsDevicesDoes, FixedStays
<1> HIDE DEF moving, plan, M
<1>5. /\ {plan.steps[i].device : i \in DOMAIN plan.steps} = M
      /\ \A i \in DOMAIN plan.steps :
                LET d == plan.steps[i].device IN
                plan.steps[i] = [device |-> d, from |-> facts[d], to |-> TargetOf(ask, d).version,
                            keep |-> Keep(facts[d], TargetOf(ask, d).version), host |-> d = apphost]
      /\ \A i, j \in DOMAIN plan.steps : i < j => Before(plan.steps[i].device, plan.steps[j].device, apphost)
  <2>1. plan = PlanOf(ask, facts, apphost, wifi)
    BY <1>2 DEF plan
  <2> HIDE DEF apphost, wifi
  <2> QED BY <1>1, <2>1, PlanSteps DEF M
<1>6. ASSUME NEW d \in M
      PROVE  /\ d \in Device /\ (d = apphost <=> d = host)
             /\ (d \in wifi <=> d = via)
             /\ Rank(d, apphost) = Rank(d, host)
  <2>1. d \in Device /\ d # NoDevice
    BY <1>1, MoverOK, Sizes DEF M
  <2> QED BY <1>3, <1>6, <2>1 DEF Rank
<1>7. ASSUME NEW i \in DOMAIN plan.steps
      PROVE  Planned(plan.steps[i], via)
  <2> DEFINE d == plan.steps[i].device
             to == TargetOf(ask, d).version
  <2>1. d \in M
    BY <1>5
  <2>2. plan.steps[i] = [device |-> d, from |-> facts[d], to |-> to, keep |-> Keep(facts[d], to), host |-> d = apphost]
    BY <1>5
  <2> HIDE DEF d, to
  <2>3. /\ d \in Device /\ d \in ask.only /\ TargetOf(ask, d).kind = "release" /\ facts[d] # to /\ to = TargetOf(ask, d).version
    BY <1>1, <2>1, MoverOK DEF M, to
  <2>4. /\ Older(to, facts[d]) => ask.acks.downgrade
        /\ to[1] > CheckedSeries => ask.acks.newSeries
        /\ ~Strands(d, Keep(facts[d], to), apphost, wifi)
    BY <1>1, <1>2, <1>4, <2>1, PlanAgreed DEF M, to, plan
  <2>5. Keep(facts[d], to) = "keys" => d # host /\ d \notin Repeaters /\ (d \in MeshNodes => Repeaters = {}) /\ d # via
    BY <1>6, <2>1, <2>4 DEF Strands, RepeatersThrough
  <2>6. d = apphost <=> d = host
    BY <1>6, <2>1
  <2> DEFINE s == plan.steps[i]
  <2>7. s.device = d /\ s.from = facts[d] /\ s.to = to /\ s.keep = Keep(facts[d], to) /\ s.host = (d = apphost)
    BY <2>2
  <2> HIDE DEF s
  <2>8. Planned(s, via)
    BY <2>3, <2>4, <2>5, <2>6, <2>7 DEF Planned, CutsNone
  <2> QED BY <2>8 DEF s
<1>8. ASSUME NEW i \in DOMAIN plan.steps, NEW j \in DOMAIN plan.steps, i < j
      PROVE  Before(plan.steps[i].device, plan.steps[j].device, host)
  <2>1. plan.steps[i].device \in M /\ plan.steps[j].device \in M
    BY <1>5
  <2>2. Before(plan.steps[i].device, plan.steps[j].device, apphost)
    BY <1>5, <1>8
  <2> QED BY <1>6, <2>1, <2>2 DEF Before
<1> QED BY <1>4, <1>7, <1>8 DEF Going

LEMMA InitPlan == Init => PlanInv
  BY DEF Init, PlanInv, NoWork

LEMMA StepPlan == TypeOK /\ PlanInv /\ BetweenInv /\ WorkInv /\ FlashInv /\ [Next]_vars => PlanInv'
<1> SUFFICES ASSUME TypeOK, PlanInv, BetweenInv, WorkInv, FlashInv, [Next]_vars PROVE PlanInv'
  OBVIOUS
<1>0. \A steps, seen : Going(steps, seen) => Going(steps, seen)'
  BY GoingStays
<1>1. CASE PlansAlone
  <2>1. work.at = "none" /\ work' = work
    BY <1>1, PlansAloneDoes DEF BetweenInv
  <2>2. run'.at = "applying" => Going(run.steps, run.seen)'
    BY <1>1, PlansAloneDoes DEF Going
  <2>3. Plan(NoDevice, {})' = Plan(NoDevice, {})
    BY FixedStays DEF Plan
  <2> QED BY <1>1, <2>1, <2>2, <2>3, PlansAloneDoes DEF PlanInv
<1>2. CASE ReadsDevices
  <2>1. work.at = "none" /\ work' = work
    BY <1>2, ReadsDevicesDoes DEF BetweenInv
  <2>2. run'.at = "building" => Going(run'.steps, run'.seen)
    BY <1>2, ReadPlan
  <2> QED BY <1>0, <1>2, <2>1, <2>2, ReadsDevicesDoes DEF PlanInv
<1>3. CASE DeviceNotRead \/ Builds \/ AllUpgraded \/ Killed
  <2>1. work'.at # "none" => work' = work
    BY <1>3, RunOnDoes DEF NoWork
  <2> QED BY <1>0, <1>3, <2>1, RunOnDoes DEF PlanInv, SameWay, BetweenInv
<1>4. CASE OpensSession \/ TimesOut \/ WorkDone \/ NotBack
  BY <1>0, <1>4, StopsOnDoes DEF PlanInv, SameWay
<1>5. CASE ComesBack
  BY <1>0, <1>5, ComesBackDoes DEF PlanInv
<1>6. CASE OwnFlashNeverBegan
  BY <1>0, <1>6, OwnFlashNeverBeganDoes DEF PlanInv, SameWay
<1>7. CASE Applies
  BY <1>0, <1>7, AppliesDoes DEF PlanInv, SameWay
<1>8. CASE run' = run /\ (work' = work \/ work.at # "none")
  <2>1. Plan(NoDevice, {})' = Plan(NoDevice, {})
    BY FixedStays DEF Plan
  <2> QED BY <1>0, <1>8, <2>1 DEF PlanInv
<1>9. CASE ChecksSession \/ VerbUnanswered
  BY <1>8, <1>9, SaysDoes
<1>10. CASE Fetches \/ Checks
  BY <1>8, <1>10, HoldsDoes
<1>11. CASE KeepsSelf
  BY <1>8, <1>11, KeepsSelfDoes
<1>12. CASE Flashes \/ Cleans
  BY <1>8, <1>12, FlashesDoes, CleansDoes
<1>13. ASSUME NEW d \in Device, SysupgradeBegins(d) \/ SysupgradeFails(d) PROVE PlanInv'
  <2>1. (run' = run /\ (work' = work \/ work' = NoWork)) \/ (work' = NoWork /\ run'.at = "killed")
    BY <1>13, SysupgradeDoes
  <2>2. work' = NoWork => work'.at = "none"
    BY DEF NoWork
  <2>3. Plan(NoDevice, {})' = Plan(NoDevice, {})
    BY FixedStays DEF Plan
  <2> QED BY <1>0, <2>1, <2>2, <2>3 DEF PlanInv
<1>14. ASSUME NEW d \in Device, Boots(d) PROVE PlanInv'
  BY <1>8, <1>14, BootsDoes
<1>15. ASSUME NEW d \in Device, MovedByHand(d) PROVE PlanInv'
  BY <1>8, <1>15, MovedByHandDoes
<1>16. CASE StartStep \/ RestartedMeanwhile \/ BootsAgain \/ Roams
  BY <1>8, <1>16, StartDoes
<1>17. CASE UNCHANGED vars
  BY <1>8, <1>17 DEF vars
<1> QED BY <1>1, <1>2, <1>3, <1>4, <1>5, <1>6, <1>7, <1>9, <1>10, <1>11, <1>12, <1>13, <1>14, <1>15, <1>16, <1>17, NextIs

LEMMA InitBetween == Init => BetweenInv
<1> SUFFICES ASSUME Init PROVE BetweenInv
  OBVIOUS
<1>1. PICK runs \in [Device -> Releases] :
        dev = [d \in Device |-> [runs |-> runs[d], conf |-> runs[d][1], ram |-> "none",
                                 sys |-> "no", flash |-> NoStep, kept |-> FALSE]]
  BY DEF Init
<1>2. \A d \in Device : dev[d].sys = "no" /\ dev[d].conf > FirstBoot
  BY <1>1, Sizes DEF Running
<1> QED BY <1>2 DEF Init, BetweenInv, NoWork

LEMMA StepBetween == TypeOK /\ PlanInv /\ BetweenInv /\ WorkInv /\ FlashInv /\ NoteInv /\ [Next]_vars => BetweenInv'
<1> SUFFICES ASSUME TypeOK, PlanInv, BetweenInv, WorkInv, FlashInv, NoteInv, [Next]_vars PROVE BetweenInv'
  OBVIOUS
<1>1. CASE PlansAlone
  BY <1>1, PlansAloneDoes DEF BetweenInv
<1>2. CASE ReadsDevices
  BY <1>2, ReadsDevicesDoes DEF BetweenInv
<1>3. CASE DeviceNotRead \/ Builds \/ AllUpgraded \/ Killed
  <2>1. UNCHANGED <<dev, note>> /\ SameWay
    BY <1>3, RunOnDoes
  <2>2. \/ run'.at = "ended" /\ work' = work /\ run.at \in {"reading", "building"}
        \/ run'.at \in {"next", "applying"} /\ work' = work /\ run.at \in {"building", "next"}
        \/ run'.at = "killed" /\ work'.at = "none"
    BY <1>3, RunOnDoes DEF NoWork
  <2> QED BY <2>1, <2>2 DEF BetweenInv, SameWay, Step
<1>4. CASE OpensSession \/ TimesOut \/ WorkDone \/ NotBack
  <2>1. UNCHANGED <<dev, note>> /\ SameWay /\ run.i \in DOMAIN run.steps
    BY <1>4, StopsOnDoes
  <2>2. Step' = Step
    BY <2>1 DEF SameWay, Step
  <2>3. \/ run'.at \in {"ended", "applying", "flashing"}
        \/ run'.at = (IF Step.host THEN "own flash" ELSE "waiting") /\ work' = NoWork
    BY <1>4, StopsOnDoes
  <2>4. NoWork.at = "none"
    BY DEF NoWork
  <2> QED BY <2>1, <2>2, <2>3, <2>4 DEF BetweenInv, SameWay
<1>5. CASE ComesBack
  <2>1. Planned(Step, run.seen) /\ Step.from # Step.to
    BY <1>5, ComesBackDoes DEF PlanInv, Going, Step, Planned
  <2>2. \A d \in Device : dev[d].sys = "no"
    BY <1>5, <2>1, ComesBackDoes DEF FlashInv, TypeOK, DeviceState
  <2>3. note = NoRelease /\ work.at = "none"
    BY <1>5, ComesBackDoes DEF NoteInv, BetweenInv
  <2> QED BY <1>5, <2>2, <2>3, ComesBackDoes DEF BetweenInv
<1>6. CASE OwnFlashNeverBegan
  BY <1>6, OwnFlashNeverBeganDoes DEF BetweenInv, SameWay
<1>7. CASE Applies
  BY <1>7, AppliesDoes DEF BetweenInv, SameWay
<1>8. CASE run' = run /\ work.at # "none"
  BY <1>8 DEF BetweenInv, Step
<1>9. CASE ChecksSession \/ VerbUnanswered
  BY <1>8, <1>9, SaysDoes
<1>10. CASE Fetches \/ Checks
  BY <1>8, <1>10, HoldsDoes
<1>11. CASE KeepsSelf
  BY <1>8, <1>11, KeepsSelfDoes
<1>12. CASE Flashes \/ Cleans
  BY <1>8, <1>12, FlashesDoes, CleansDoes
<1>13. ASSUME NEW d \in Device, SysupgradeBegins(d) \/ SysupgradeFails(d) PROVE BetweenInv'
  <2>1. run.at \notin {"plan", "reading", "building", "next"}
    BY <1>13, SysupgradeDoes DEF BetweenInv
  <2>2. \/ run' = run /\ (work' = work \/ work' = NoWork)
        \/ run'.at = "killed" /\ work' = NoWork
    BY <1>13, SysupgradeDoes
  <2>3. NoWork.at = "none"
    BY DEF NoWork
  <2> QED BY <2>1, <2>2, <2>3 DEF BetweenInv, Step
<1>14. ASSUME NEW d \in Device, Boots(d) PROVE BetweenInv'
  <2>1. run.at \notin {"plan", "reading", "building", "next"} /\ run' = run /\ work' = work
    BY <1>14, BootsDoes DEF BetweenInv
  <2> QED BY <2>1 DEF BetweenInv, Step
<1>15. ASSUME NEW d \in Device, MovedByHand(d) PROVE BetweenInv'
  <2>1. run' = run /\ work' = work /\ note' = note /\ run.at \in {"reading", "building", "next"}
    BY <1>15, MovedByHandDoes
  <2>2. \A e \in Device : dev'[e].sys = dev[e].sys
    BY <1>15, MovedByHandDoes DEF Rest, SameSysupgrade
  <2>3. \A e \in Device : dev'[e].conf = dev[e].conf \/ dev'[e].conf > FirstBoot
    <3>1. dev'[d].runs \in Running
      BY <1>15, MovedByHandDoes DEF DeviceState
    <3> QED BY <1>15, <3>1, MovedByHandDoes, Sizes DEF Rest, FirstBoot
  <2> QED BY <2>1, <2>2, <2>3 DEF BetweenInv, Step
<1>16. CASE StartStep \/ RestartedMeanwhile \/ BootsAgain \/ Roams
  <2>1. /\ run' = run /\ work' = work /\ (note' = note \/ note' = NoRelease)
        /\ \A d \in Device : dev'[d].sys = dev[d].sys /\ (dev'[d].conf = dev[d].conf \/ dev'[d].conf = dev[d].runs[1])
    BY <1>16, StartDoes DEF SameSysupgrade
  <2>2. \A d \in Device : dev[d].runs[1] > FirstBoot
    BY Sizes DEF TypeOK, DeviceState, FirstBoot
  <2> QED BY <2>1, <2>2 DEF BetweenInv, Step
<1>17. CASE UNCHANGED vars
  BY <1>17 DEF vars, BetweenInv, Step
<1> QED BY <1>1, <1>2, <1>3, <1>4, <1>5, <1>6, <1>7, <1>9, <1>10, <1>11, <1>12, <1>13, <1>14, <1>15, <1>16, <1>17, NextIs

(* The device worked on, and its sysupgrade. *)

Unflashed == {"session", "room", "check", "keep self", "flash"}

LEMMA InitWork == Init => WorkInv
  BY DEF Init, WorkInv, NoWork

LEMMA StepWork == TypeOK /\ PlanInv /\ BetweenInv /\ WorkInv /\ FlashInv /\ [Next]_vars => WorkInv'
<1> SUFFICES ASSUME TypeOK, PlanInv, BetweenInv, WorkInv, FlashInv, [Next]_vars PROVE WorkInv'
  OBVIOUS
<1>0. NoWork.at = "none"
  BY DEF NoWork
\* Where the work is over or has not begun there is nothing to show.
<1>1. CASE work'.at = "none"
  BY <1>1 DEF WorkInv
<1>2. CASE /\ SameWay /\ work'.at = work.at
           /\ \A d \in Device : dev'[d].sys = dev[d].sys /\ dev'[d].runs = dev[d].runs
  <2>1. work.at # "none" => run.i \in DOMAIN run.steps
    BY DEF BetweenInv
  <2>2. work.at # "none" => Current \in Device
    BY <2>1, StepIs DEF TypeOK
  <2> QED BY <1>2, <2>2 DEF WorkInv, SameWay, Step, Current
<1>3. CASE PlansAlone
  BY <1>1, <1>3, PlansAloneDoes DEF BetweenInv
<1>4. CASE ReadsDevices
  BY <1>1, <1>4, ReadsDevicesDoes DEF BetweenInv
<1>5. CASE DeviceNotRead \/ Builds \/ AllUpgraded \/ Killed
  BY <1>0, <1>1, <1>2, <1>5, RunOnDoes
<1>6. CASE OpensSession \/ TimesOut \/ WorkDone \/ NotBack
  <2>1. CASE run.at = "next" /\ run'.at = "flashing"
    <3>1. run'.i = run.i /\ run'.steps = run.steps /\ run.i \in DOMAIN run.steps /\ UNCHANGED dev /\ work'.at = "session"
      BY <1>6, <2>1, StopsOnDoes DEF SameWay, NoWork
    <3>2. dev[Current].sys = "no"
      BY <2>1, <3>1, StepIs DEF BetweenInv, TypeOK
    <3> QED BY <3>1, <3>2 DEF WorkInv, Current
  <2>2. CASE ~(run.at = "next" /\ run'.at = "flashing")
    <3>1. SameWay /\ dev' = dev /\ (work' = work \/ work' = NoWork \/ work' = [work EXCEPT !.over = TRUE])
      BY <1>6, <2>2, StopsOnDoes
    <3>2. work' = [work EXCEPT !.over = TRUE] => work'.at = work.at
      BY DEF TypeOK, WorkState
    <3> QED BY <1>0, <1>1, <1>2, <3>1, <3>2
  <2> QED BY <2>1, <2>2
<1>7. CASE ComesBack
  BY <1>1, <1>7, ComesBackDoes DEF BetweenInv
<1>8. CASE OwnFlashNeverBegan
  BY <1>1, <1>8, OwnFlashNeverBeganDoes DEF BetweenInv
<1>9. CASE Applies
  BY <1>2, <1>9, AppliesDoes DEF SameSysupgrade
<1>10. CASE ChecksSession \/ VerbUnanswered
  BY <1>10, SaysDoes DEF WorkInv, Step, Current
<1>11. CASE Fetches \/ Checks
  BY <1>11, HoldsDoes DEF WorkInv, Step, Current, SameRelease, SameSysupgrade
<1>12. CASE KeepsSelf
  BY <1>12, KeepsSelfDoes DEF WorkInv, Step, Current, SameRelease, SameSysupgrade
<1>13. CASE Flashes \/ Cleans
  BY <1>13, FlashesDoes, CleansDoes DEF WorkInv
<1>14. ASSUME NEW d \in Device, SysupgradeBegins(d) \/ SysupgradeFails(d) PROVE WorkInv'
  <2>1. CASE work' = NoWork
    BY <1>0, <1>1, <2>1
  <2>2. CASE run' = run /\ work' = work
    <3>1. work.at # "none" => Current \in Device
      BY StepIs DEF BetweenInv, TypeOK
    <3>2. \A e \in Device : dev'[e].runs = dev[e].runs /\ (dev[e].sys = "no" => dev'[e].sys = "no")
      BY <1>14, SysupgradeDoes DEF Rest, SameRelease
    <3> QED BY <2>2, <3>1, <3>2 DEF WorkInv, Step, Current
  <2> QED BY <1>14, <2>1, <2>2, SysupgradeDoes
<1>15. ASSUME NEW d \in Device, Boots(d) PROVE WorkInv'
  <2>1. work.at # "none" => Current \in Device
    BY StepIs DEF BetweenInv, TypeOK
  <2>2. run' = run /\ work' = work /\ \A e \in Device : dev[e].sys = "no" => dev'[e] = dev[e]
    BY <1>15, BootsDoes DEF Rest
  <2> QED BY <2>1, <2>2 DEF WorkInv, Step, Current
<1>16. ASSUME NEW d \in Device, MovedByHand(d) PROVE WorkInv'
  BY <1>1, <1>16, MovedByHandDoes DEF BetweenInv
<1>17. CASE StartStep \/ RestartedMeanwhile \/ BootsAgain \/ Roams
  BY <1>2, <1>17, StartDoes DEF SameSysupgrade, SameWay
<1>18. CASE UNCHANGED vars
  BY <1>2, <1>18 DEF vars, SameWay
<1> QED BY <1>3, <1>4, <1>5, <1>6, <1>7, <1>8, <1>9, <1>10, <1>11, <1>12, <1>13, <1>14, <1>15, <1>16, <1>17, <1>18, NextIs

LEMMA InitFlash == Init => FlashInv
<1> SUFFICES ASSUME Init PROVE FlashInv
  OBVIOUS
<1>1. PICK runs \in [Device -> Releases] :
        dev = [d \in Device |-> [runs |-> runs[d], conf |-> runs[d][1], ram |-> "none",
                                 sys |-> "no", flash |-> NoStep, kept |-> FALSE]]
  BY DEF Init
<1> QED BY <1>1 DEF FlashInv

LEMMA StepFlash == TypeOK /\ PlanInv /\ BetweenInv /\ WorkInv /\ FlashInv /\ [Next]_vars => FlashInv'
<1> SUFFICES ASSUME TypeOK, PlanInv, BetweenInv, WorkInv, FlashInv, [Next]_vars PROVE FlashInv'
  OBVIOUS
<1>0. \A s, seen : Planned(s, seen) => Planned(s, seen)'
  BY GoingStays
<1>1. CASE \A d \in Device : dev'[d].sys = "no"
  BY <1>1 DEF FlashInv
<1>2. CASE /\ SameWay
           /\ \A d \in Device : \/ dev'[d].sys = "no"
                                \/ dev[d].sys # "no" /\ dev'[d].flash = dev[d].flash /\ dev'[d].runs = dev[d].runs
  <2>1. \A s : Planned(s, run.seen) => Planned(s, run.seen)'
    BY <1>0, <1>2 DEF SameWay
  <2> QED BY <1>2, <2>1 DEF FlashInv, SameWay, Step, Current
<1>3. CASE PlansAlone
  BY <1>1, <1>3, PlansAloneDoes DEF BetweenInv
<1>4. CASE ReadsDevices
  BY <1>1, <1>4, ReadsDevicesDoes DEF BetweenInv
<1>5. CASE DeviceNotRead \/ Builds \/ AllUpgraded \/ Killed
  BY <1>2, <1>5, RunOnDoes
<1>6. CASE OpensSession \/ TimesOut \/ WorkDone \/ NotBack
  BY <1>2, <1>6, StopsOnDoes
<1>7. CASE ComesBack
  <2>1. Planned(Step, run.seen) /\ Step.from # Step.to
    BY <1>7, ComesBackDoes DEF PlanInv, Going, Step, Planned
  <2>2. \A d \in Device : dev[d].sys = "no"
    BY <1>7, <2>1, ComesBackDoes DEF FlashInv, TypeOK, DeviceState
  <2> QED BY <1>1, <1>7, <2>2, ComesBackDoes
<1>8. CASE OwnFlashNeverBegan
  BY <1>2, <1>8, OwnFlashNeverBeganDoes DEF Rest
<1>9. CASE Applies
  BY <1>2, <1>9, AppliesDoes DEF SameSysupgrade
<1>10. CASE ChecksSession \/ VerbUnanswered
  BY <1>2, <1>10, SaysDoes DEF SameWay
<1>11. CASE Fetches \/ Checks
  BY <1>2, <1>11, HoldsDoes DEF SameWay, Rest, SameRelease, SameSysupgrade
<1>12. CASE KeepsSelf
  BY <1>2, <1>12, KeepsSelfDoes DEF SameWay, Rest, SameRelease, SameSysupgrade
<1>13. CASE Flashes
  <2>1. CASE SameSysupgrade(Current)
    BY <1>2, <1>13, <2>1, FlashesDoes DEF SameWay, Rest, SameRelease, SameSysupgrade
  <2>2. CASE dev'[Current].sys = "due" /\ dev'[Current].flash = Step
    <3>1. /\ run' = run /\ run.i \in DOMAIN run.steps /\ Current \in Device /\ work.at = "flash"
          /\ \A e \in Device \ {Current} : dev'[e] = dev[e]
          /\ dev'[Current].runs = dev[Current].runs
      BY <1>13, FlashesDoes DEF Rest, SameRelease
    <3>2. dev'[Current].runs = Step.from /\ Planned(Step, run.seen)
      BY <3>1 DEF WorkInv, PlanInv, Going, Step
    <3>3. \A e \in Device \ {Current} : dev[e].sys = "no"
      BY DEF FlashInv
    <3>4. \A s : Planned(s, run.seen) => Planned(s, run.seen)'
      BY <1>0, <3>1
    <3>5. Planned(Step, run.seen)'
      BY <3>1, <3>2, <3>4 DEF Step
    <3> QED BY <2>2, <3>1, <3>2, <3>3, <3>5 DEF FlashInv, Step, Current
  <2> QED BY <1>13, <2>1, <2>2, FlashesDoes
<1>14. CASE Cleans
  BY <1>2, <1>14, CleansDoes DEF SameWay, Rest, SameRelease, SameSysupgrade
<1>15. ASSUME NEW d \in Device, SysupgradeBegins(d) \/ SysupgradeFails(d) PROVE FlashInv'
  <2>1. SameWay /\ dev[d].sys # "no" /\ dev'[d].flash = dev[d].flash /\ dev'[d].runs = dev[d].runs /\ Rest(d)
    BY <1>15, SysupgradeDoes DEF SameWay, SameRelease
  <2> QED BY <1>2, <2>1 DEF Rest
<1>16. ASSUME NEW d \in Device, Boots(d) PROVE FlashInv'
  BY <1>2, <1>16, BootsDoes DEF SameWay, Rest
<1>17. ASSUME NEW d \in Device, MovedByHand(d) PROVE FlashInv'
  BY <1>2, <1>17, MovedByHandDoes DEF SameWay, Rest, SameSysupgrade
<1>18. CASE StartStep \/ RestartedMeanwhile \/ BootsAgain \/ Roams
  BY <1>2, <1>18, StartDoes DEF SameSysupgrade, SameWay
<1>19. CASE UNCHANGED vars
  BY <1>2, <1>19 DEF vars, SameWay
<1> QED BY <1>3, <1>4, <1>5, <1>6, <1>7, <1>8, <1>9, <1>10, <1>11, <1>12, <1>13, <1>14, <1>15, <1>16, <1>17, <1>18, <1>19, NextIs

(* What a device's settings are written for. *)

LEMMA InitNewer == Init => NoNewerSettings
<1> SUFFICES ASSUME Init PROVE NoNewerSettings
  OBVIOUS
<1>1. PICK runs \in [Device -> Releases] :
        dev = [d \in Device |-> [runs |-> runs[d], conf |-> runs[d][1], ram |-> "none",
                                 sys |-> "no", flash |-> NoStep, kept |-> FALSE]]
  BY DEF Init
<1>2. \A d \in Device : runs[d][1] \in Nat
  BY Sizes
<1> QED BY <1>1, <1>2 DEF NoNewerSettings

\* A step changes the settings a device holds, or its release, in one of these ways.
LEMMA ReleaseChanges ==
    ASSUME TypeOK, PlanInv, BetweenInv, WorkInv, FlashInv, [Next]_vars
    PROVE  \A d \in Device :
             \/ dev'[d].runs = dev[d].runs /\ dev'[d].conf = dev[d].conf
             \/ dev'[d].runs \in Running /\ dev'[d].conf = dev'[d].runs[1] /\ (dev'[d].runs = dev[d].runs \/ dev[d].sys = "no")
             \/ /\ dev[d].sys = "writing" /\ dev[d].flash = Step /\ Planned(Step, run.seen) /\ Step \in UpgradeStep
                /\ d = Current /\ run' = run /\ work' = work
                /\ dev[d].runs = Step.from /\ dev'[d].runs = Step.to
                /\ dev'[d].conf = IF Step.keep = "keys" THEN FirstBoot ELSE dev[d].conf
<1>0. \A d \in Device : dev[d].runs \in Running
  BY DEF TypeOK, DeviceState
<1>1. CASE \A d \in Device : SameRelease(d)
  BY <1>1 DEF SameRelease
<1>2. CASE PlansAlone \/ ReadsDevices \/ ComesBack
  BY <1>2, PlansAloneDoes, ReadsDevicesDoes, ComesBackDoes
<1>3. CASE DeviceNotRead \/ Builds \/ AllUpgraded \/ Killed
  BY <1>3, RunOnDoes
<1>4. CASE OpensSession \/ TimesOut \/ WorkDone \/ NotBack
  BY <1>4, StopsOnDoes
<1>5. CASE OwnFlashNeverBegan
  BY <1>1, <1>5, OwnFlashNeverBeganDoes DEF Rest, SameRelease
<1>6. CASE Applies
  BY <1>0, <1>6, AppliesDoes
<1>7. CASE ChecksSession \/ VerbUnanswered
  BY <1>7, SaysDoes
<1>8. CASE (Fetches \/ Checks) \/ KeepsSelf \/ Flashes \/ Cleans
  BY <1>1, <1>8, HoldsDoes, KeepsSelfDoes, FlashesDoes, CleansDoes DEF Rest, SameRelease
<1>9. ASSUME NEW d \in Device, SysupgradeBegins(d) \/ SysupgradeFails(d) PROVE \A e \in Device : SameRelease(e)
  BY <1>9, SysupgradeDoes DEF Rest, SameRelease
<1>10. ASSUME NEW d \in Device, Boots(d)
       PROVE  /\ \A e \in Device \ {d} : dev'[e] = dev[e]
              /\ \/ SameRelease(d)
                 \/ /\ dev[d].sys = "writing" /\ dev[d].flash = Step /\ Planned(Step, run.seen) /\ Step \in UpgradeStep
                    /\ d = Current /\ run' = run /\ work' = work
                    /\ dev[d].runs = Step.from /\ dev'[d].runs = Step.to
                    /\ dev'[d].conf = IF Step.keep = "keys" THEN FirstBoot ELSE dev[d].conf
  <2>1. /\ dev[d].sys = "writing" /\ run.i \in DOMAIN run.steps /\ d = Current
        /\ dev[d].flash = Step /\ Planned(Step, run.seen) /\ dev[d].runs = Step.from
    BY <1>10, BootsDoes DEF FlashInv
  <2>2. Step \in UpgradeStep
    BY <2>1, StepIs DEF TypeOK
  <2> QED BY <1>10, <2>1, <2>2, BootsDoes DEF Rest
<1>11. ASSUME NEW d \in Device, MovedByHand(d)
       PROVE  /\ \A e \in Device \ {d} : dev'[e] = dev[e]
              /\ dev'[d].runs \in Running /\ dev'[d].conf = dev'[d].runs[1] /\ dev[d].sys = "no"
  BY <1>11, MovedByHandDoes DEF Rest, DeviceState
<1>12. CASE StartStep \/ RestartedMeanwhile \/ BootsAgain \/ Roams
  BY <1>0, <1>12, StartDoes
<1>13. CASE UNCHANGED vars
  BY <1>13 DEF vars
<1> QED BY <1>1, <1>2, <1>3, <1>4, <1>5, <1>6, <1>7, <1>8, <1>9, <1>10, <1>11, <1>12, <1>13, NextIs DEF SameRelease

LEMMA StepNewer == TypeOK /\ PlanInv /\ BetweenInv /\ WorkInv /\ FlashInv /\ NoNewerSettings /\ [Next]_vars => NoNewerSettings'
<1> SUFFICES ASSUME TypeOK, PlanInv, BetweenInv, WorkInv, FlashInv, NoNewerSettings, [Next]_vars, NEW d \in Device
             PROVE  dev'[d].conf <= dev'[d].runs[1]
  BY DEF NoNewerSettings
<1>1. dev[d].conf <= dev[d].runs[1] /\ dev[d].conf \in Nat
  BY DEF NoNewerSettings, TypeOK, DeviceState
<1>2. CASE dev'[d].runs = dev[d].runs /\ dev'[d].conf = dev[d].conf
  BY <1>1, <1>2
<1>3. CASE dev'[d].runs \in Running /\ dev'[d].conf = dev'[d].runs[1]
  BY <1>3, Sizes
<1>4. CASE /\ dev[d].flash = Step /\ Planned(Step, run.seen) /\ Step \in UpgradeStep
           /\ dev[d].runs = Step.from /\ dev'[d].runs = Step.to
           /\ dev'[d].conf = IF Step.keep = "keys" THEN FirstBoot ELSE dev[d].conf
  <2>1. Step.to[1] \in Nat /\ Step.from[1] \in Nat
    BY <1>4, Sizes DEF UpgradeStep
  <2>2. Step.keep = "keys" \/ Step.to[1] >= Step.from[1]
    BY <1>4, <2>1 DEF Planned, Keep
  <2> QED BY <1>1, <1>4, <2>1, <2>2 DEF FirstBoot
<1> QED BY <1>2, <1>3, <1>4, ReleaseChanges

(* What is cut off. *)

LEMMA InitCut == Init => CutInv
<1> SUFFICES ASSUME Init PROVE CutInv
  OBVIOUS
<1>1. \A d \in Device : dev[d].conf > FirstBoot
  BY InitBetween DEF Init, BetweenInv
<1> QED BY <1>1 DEF CutInv, FirstBoot

LEMMA SeenStays ==
    ASSUME TypeOK, PlanInv, BetweenInv, WorkInv, FlashInv, [Next]_vars
    PROVE  run'.seen = run.seen \/ (run.at = "reading" /\ \A d \in Device : dev'[d].conf = dev[d].conf)
<1>1. CASE PlansAlone \/ ReadsDevices \/ ComesBack
  BY <1>1, PlansAloneDoes, ReadsDevicesDoes, ComesBackDoes
<1>2. CASE DeviceNotRead \/ Builds \/ AllUpgraded \/ Killed
  BY <1>2, RunOnDoes DEF SameWay
<1>3. CASE OpensSession \/ TimesOut \/ WorkDone \/ NotBack
  BY <1>3, StopsOnDoes DEF SameWay
<1>4. CASE OwnFlashNeverBegan
  BY <1>4, OwnFlashNeverBeganDoes DEF SameWay
<1>5. CASE Applies
  BY <1>5, AppliesDoes DEF SameWay
<1>6. CASE (ChecksSession \/ VerbUnanswered) \/ (Fetches \/ Checks) \/ KeepsSelf \/ Flashes \/ Cleans
  BY <1>6, SaysDoes, HoldsDoes, KeepsSelfDoes, FlashesDoes, CleansDoes
<1>7. ASSUME NEW d \in Device, (SysupgradeBegins(d) \/ SysupgradeFails(d)) \/ Boots(d) \/ MovedByHand(d) PROVE run'.seen = run.seen
  BY <1>7, SysupgradeDoes, BootsDoes, MovedByHandDoes DEF SameWay
<1>8. CASE (StartStep \/ RestartedMeanwhile \/ BootsAgain \/ Roams) \/ UNCHANGED vars
  BY <1>8, StartDoes DEF vars
<1> QED BY <1>1, <1>2, <1>3, <1>4, <1>5, <1>6, <1>7, <1>8, NextIs

LEMMA StepCut == TypeOK /\ PlanInv /\ BetweenInv /\ WorkInv /\ FlashInv /\ CutInv /\ [Next]_vars => CutInv'
<1> SUFFICES ASSUME TypeOK, PlanInv, BetweenInv, WorkInv, FlashInv, CutInv, [Next]_vars,
                    NEW d \in Device, dev'[d].conf = FirstBoot
             PROVE  CutsNone(d, run.seen)'
  BY DEF CutInv
<1>1. host' = host
  BY FixedStays
<1>2. dev'[d].conf = dev[d].conf => run'.seen = run.seen
  <2>1. run.at = "reading" => dev[d].conf > 0
    BY DEF BetweenInv, FirstBoot
  <2>2. run'.seen = run.seen \/ (run.at = "reading" /\ dev'[d].conf = dev[d].conf)
    BY SeenStays
  <2> QED BY <2>1, <2>2 DEF FirstBoot
<1>3. CASE dev'[d].conf = dev[d].conf
  BY <1>1, <1>2, <1>3 DEF CutInv, CutsNone
<1>4. CASE dev'[d].runs \in Running /\ dev'[d].conf = dev'[d].runs[1]
  BY <1>4, Sizes DEF FirstBoot
<1>5. CASE /\ Planned(Step, run.seen) /\ d = Current /\ run' = run
           /\ dev'[d].conf = IF Step.keep = "keys" THEN FirstBoot ELSE dev[d].conf
  <2>1. CASE Step.keep = "keys"
    BY <1>1, <1>5, <2>1 DEF Planned, CutsNone, Current, Step
  <2>2. CASE Step.keep # "keys"
    BY <1>3, <1>5, <2>2
  <2> QED BY <2>1, <2>2
<1> QED BY <1>3, <1>4, <1>5, ReleaseChanges

(* This app kept on its device. *)

LEMMA InitKept == Init => KeptInv
<1> SUFFICES ASSUME Init PROVE KeptInv
  OBVIOUS
<1>1. \A d \in Device : dev[d].sys = "no"
  BY InitBetween DEF Init, BetweenInv
<1> QED BY <1>1 DEF Init, KeptInv, NoWork

LEMMA StepKept == TypeOK /\ PlanInv /\ BetweenInv /\ WorkInv /\ FlashInv /\ KeptInv /\ [Next]_vars => KeptInv'
<1> SUFFICES ASSUME TypeOK, PlanInv, BetweenInv, WorkInv, FlashInv, KeptInv, [Next]_vars PROVE KeptInv'
  OBVIOUS
<1>0. host' = host /\ NoWork.at = "none"
  BY FixedStays DEF NoWork
<1>1. work.at # "none" => run.i \in DOMAIN run.steps /\ Planned(Step, run.seen) /\ Current \in Device /\ (Step.host <=> Current = host)
  BY StepIs DEF BetweenInv, PlanInv, Going, Step, TypeOK, Planned, Current
<1>2. CASE /\ dev' = dev /\ app'.there = app.there
           /\ work'.at = "flash" => work.at = "flash" /\ run'.i = run.i /\ run'.steps = run.steps
  BY <1>0, <1>2 DEF KeptInv, Step
<1>3. CASE PlansAlone \/ ReadsDevices \/ ComesBack
  BY <1>2, <1>3, PlansAloneDoes, ReadsDevicesDoes, ComesBackDoes DEF BetweenInv
<1>4. CASE DeviceNotRead \/ Builds \/ AllUpgraded \/ Killed
  BY <1>0, <1>2, <1>4, RunOnDoes DEF SameWay
<1>5. CASE OpensSession \/ TimesOut \/ WorkDone \/ NotBack
  <2>1. dev' = dev /\ app' = app /\ SameWay
    BY <1>5, StopsOnDoes
  <2>2. work'.at = "flash" => work.at = "flash"
    BY <1>0, <1>5, StopsOnDoes DEF TypeOK, WorkState, NoWork
  <2> QED BY <1>2, <2>1, <2>2 DEF SameWay
<1>6. CASE OwnFlashNeverBegan
  BY <1>0, <1>6, OwnFlashNeverBeganDoes DEF BetweenInv, KeptInv
<1>7. CASE Applies
  BY <1>0, <1>1, <1>7, AppliesDoes DEF KeptInv, SameSysupgrade, SameHeld, SameWay, Step
<1>8. CASE ChecksSession \/ VerbUnanswered
  BY <1>2, <1>8, SaysDoes
<1>9. CASE Fetches \/ Checks
  <2>1. dev[Current].sys = "no" /\ dev'[Current].sys = "no" /\ app' = app /\ run' = run
    BY <1>9, HoldsDoes DEF WorkInv, SameSysupgrade
  <2>2. ~(work'.at = "flash" /\ Step.host)
    BY <1>9, HoldsDoes
  <2>3. \A d \in Device \ {Current} : dev'[d] = dev[d]
    BY <1>9, HoldsDoes DEF Rest
  <2> QED BY <1>0, <2>1, <2>2, <2>3 DEF KeptInv, Step
<1>10. CASE KeepsSelf
  <2>1. dev[host].sys = "no" /\ dev'[host].sys = "no" /\ app' = app /\ run' = run
    BY <1>10, KeepsSelfDoes DEF WorkInv, SameSysupgrade
  <2> QED BY <1>0, <1>10, <2>1, KeepsSelfDoes DEF KeptInv, Step
<1>11. CASE Flashes
  <2>1. /\ work.at = "flash" /\ work'.at # "flash" /\ dev'[Current].kept = dev[Current].kept /\ app' = app /\ run' = run
        /\ dev'[Current].sys # "writing" /\ \A d \in Device \ {Current} : dev'[d] = dev[d]
    BY <1>11, FlashesDoes DEF Rest, SameHeld, SameSysupgrade, WorkInv
  <2> QED BY <1>0, <1>1, <2>1 DEF KeptInv
<1>12. CASE Cleans
  <2>1. /\ work'.at # "flash" /\ app' = app /\ dev'[Current].sys = dev[Current].sys /\ \A d \in Device \ {Current} : dev'[d] = dev[d]
        /\ SameHeld(Current) \/ (dev'[Current].ram = "none" /\ dev[Current].sys # "writing")
    BY <1>12, CleansDoes DEF Rest, SameSysupgrade
  <2> QED BY <1>0, <2>1 DEF KeptInv, SameHeld
<1>13. ASSUME NEW d \in Device, SysupgradeBegins(d) \/ SysupgradeFails(d) PROVE KeptInv'
  <2>1. /\ SameHeld(d) /\ Rest(d) /\ dev[d].sys = "due" /\ app' = app
        /\ dev'[d].sys = "no" \/ (dev'[d].sys = "writing" /\ dev[d].ram \in {"image", "checked"})
        /\ (run' = run /\ work' = work) \/ work' = NoWork
    BY <1>13, SysupgradeDoes
  <2> QED BY <1>0, <1>1, <2>1 DEF KeptInv, SameHeld, Rest, Step
<1>14. ASSUME NEW d \in Device, Boots(d) PROVE KeptInv'
  <2>1. /\ dev[d].sys = "writing" /\ d = Current /\ dev[d].flash = Step /\ Planned(Step, run.seen) /\ Step \in UpgradeStep
    BY <1>14, BootsDoes, StepIs DEF FlashInv, TypeOK
  <2>2. d = host => dev[d].kept /\ dev[d].flash.host /\ dev[d].flash.keep = "settings"
    BY <2>1 DEF KeptInv, Planned, CutsNone, UpgradeStep, Current, Step
  <2>3. app'.there # "gone"
    <3>1. CASE d # host
      BY <1>14, <3>1, BootsDoes DEF KeptInv
    <3>2. CASE d = host
      BY <1>14, <2>2, <3>2, BootsDoes DEF KeptInv, Reinstalled
    <3> QED BY <3>1, <3>2
  <2>4. work.at = "flash" => d # Current
    BY <2>1 DEF WorkInv
  <2>5. run' = run /\ work' = work /\ Rest(d) /\ dev'[d].sys = "no"
    BY <1>14, BootsDoes
  <2>6. work.at = "none" \/ work.at # "flash"
    BY <2>1, <2>4
  <2> QED BY <1>0, <2>3, <2>5, <2>6 DEF KeptInv, Rest, Step
<1>15. ASSUME NEW d \in Device, MovedByHand(d) PROVE KeptInv'
  BY <1>0, <1>15, MovedByHandDoes DEF KeptInv, BetweenInv, Rest, SameSysupgrade, SameHeld
<1>16. CASE StartStep \/ RestartedMeanwhile \/ BootsAgain \/ Roams
  BY <1>0, <1>1, <1>16, StartDoes DEF KeptInv, SameSysupgrade, SameHeld, Step
<1>17. CASE UNCHANGED vars
  BY <1>2, <1>17 DEF vars
<1> QED BY <1>3, <1>4, <1>5, <1>6, <1>7, <1>8, <1>9, <1>10, <1>11, <1>12, <1>13, <1>14, <1>15, <1>16, <1>17, NextIs

(* What the note is of. *)

LEMMA InitNote == Init => NoteInv
  BY DEF Init, NoteInv

LEMMA StepNote == TypeOK /\ PlanInv /\ BetweenInv /\ WorkInv /\ FlashInv /\ NoteInv /\ [Next]_vars => NoteInv'
<1> SUFFICES ASSUME TypeOK, PlanInv, BetweenInv, WorkInv, FlashInv, NoteInv, [Next]_vars PROVE NoteInv'
  OBVIOUS
<1>0. host' = host /\ NoWork.at = "none"
  BY FixedStays DEF NoWork
<1>1. CASE note' = NoRelease
  BY <1>1 DEF NoteInv
<1>2. CASE /\ note' = note /\ run'.i = run.i /\ run'.steps = run.steps
           /\ \/ work'.at = work.at
              \/ work'.at \in {"flash", "clean", "ok"}
              \/ work.at \notin {"flash", "clean", "ok"}
              \/ run'.at \in {"own flash", "killed"}
           /\ run'.at = run.at \/ run.at \notin {"own flash", "killed"} \/ run'.at = "killed"
           /\ host \in Device => dev'[host].sys = dev[host].sys \/ dev[host].sys # "writing" \/ app'.start = "starting"
           /\ app'.start = app.start \/ app.start # "starting"
  BY <1>0, <1>2 DEF NoteInv, Step
<1>3. CASE PlansAlone \/ ReadsDevices
  BY <1>1, <1>3, PlansAloneDoes, ReadsDevicesDoes DEF BetweenInv
<1>4. CASE ComesBack
  <2>1. note = NoRelease
    BY <1>4, ComesBackDoes DEF BetweenInv, NoteInv
  <2> QED BY <1>1, <1>4, <2>1, ComesBackDoes
<1>5. CASE DeviceNotRead \/ Builds \/ AllUpgraded \/ Killed
  BY <1>2, <1>5, RunOnDoes DEF SameWay
<1>6. CASE OpensSession \/ TimesOut \/ WorkDone \/ NotBack
  <2>1. dev' = dev /\ app' = app /\ note' = note /\ SameWay
    BY <1>6, StopsOnDoes
  <2>2. CASE run'.at = "own flash"
    BY <1>2, <1>6, <2>1, <2>2, StopsOnDoes DEF SameWay
  <2>3. CASE run'.at = "waiting"
    <3>1. ~Step.host
      BY <1>6, <2>3, StopsOnDoes
    <3> QED BY <1>1, <2>1, <3>1 DEF NoteInv
  <2>4. CASE run'.at \notin {"own flash", "waiting"}
    <3>1. \/ run.at = "next"
          \/ work'.at = work.at /\ run.at \in {"flashing", "waiting"}
          \/ work.at = "failed" /\ run.at = "flashing"
      BY <1>6, <2>4, StopsOnDoes DEF TypeOK, WorkState
    <3>2. CASE run.at = "next"
      BY <1>1, <2>1, <3>2 DEF BetweenInv
    <3>3. CASE work'.at = work.at /\ run.at \in {"flashing", "waiting"}
      BY <1>2, <2>1, <3>3 DEF SameWay
    <3>4. CASE work.at = "failed" /\ run.at = "flashing"
      BY <1>2, <2>1, <3>4 DEF SameWay
    <3> QED BY <3>1, <3>2, <3>3, <3>4
  <2> QED BY <2>2, <2>3, <2>4
<1>7. CASE OwnFlashNeverBegan
  BY <1>1, <1>7, OwnFlashNeverBeganDoes
<1>8. CASE Applies
  <2>1. host \in Device => dev'[host].sys = dev[host].sys
    BY <1>8, AppliesDoes DEF SameSysupgrade
  <2> QED BY <1>2, <1>8, <2>1, AppliesDoes DEF SameWay
<1>9. CASE ChecksSession \/ VerbUnanswered
  <2>1. CASE ~Step.host
    BY <1>1, <1>9, <2>1, SaysDoes DEF NoteInv
  <2>2. CASE Step.host
    BY <1>2, <1>9, <2>2, SaysDoes
  <2> QED BY <2>1, <2>2
<1>10. CASE Fetches \/ Checks
  <2>1. \A d \in Device : dev'[d].sys = dev[d].sys
    BY <1>10, HoldsDoes DEF Rest, SameSysupgrade
  <2>2. run' = run /\ note' = note /\ app' = app /\ work.at \notin {"flash", "clean", "ok"}
    BY <1>10, HoldsDoes
  <2> QED BY <1>2, <2>1, <2>2
<1>11. CASE KeepsSelf
  BY <1>0, <1>11, KeepsSelfDoes DEF NoteInv, Step
<1>12. CASE Flashes
  BY <1>0, <1>12, FlashesDoes DEF NoteInv, Step
<1>13. CASE Cleans
  BY <1>1, <1>13, CleansDoes DEF NoteInv
<1>14. ASSUME NEW d \in Device, SysupgradeBegins(d) \/ SysupgradeFails(d) PROVE NoteInv'
  <2>1. /\ dev[d].sys = "due" /\ \A e \in Device \ {d} : dev'[e] = dev[e]
        /\ note' = note /\ app' = app /\ run'.i = run.i /\ run'.steps = run.steps
        /\ \/ run' = run /\ work' = work
           \/ run'.at = "killed"
           \/ dev'[d].sys = "writing" /\ d = host /\ run' = run
    BY <1>14, SysupgradeDoes DEF Rest, SameWay
  <2>2. CASE (run' = run /\ work' = work) \/ run'.at = "killed"
    BY <1>2, <2>1, <2>2
  <2>3. CASE dev'[d].sys = "writing" /\ d = host /\ run' = run
    BY <1>0, <2>1, <2>3 DEF NoteInv, Step
  <2> QED BY <2>1, <2>2, <2>3
<1>15. ASSUME NEW d \in Device, Boots(d) PROVE NoteInv'
  <2>1. d = host => app'.start = "starting"
    BY <1>15, BootsDoes
  <2>2. d # host => app' = app
    BY <1>15, BootsDoes
  <2>3. run' = run /\ note' = note /\ work' = work /\ \A e \in Device \ {d} : dev'[e] = dev[e]
    BY <1>15, BootsDoes DEF Rest
  <2> QED BY <1>2, <2>1, <2>2, <2>3
<1>16. ASSUME NEW d \in Device, MovedByHand(d) PROVE NoteInv'
  BY <1>1, <1>16, MovedByHandDoes DEF BetweenInv
<1>17. CASE StartStep \/ RestartedMeanwhile \/ BootsAgain \/ Roams
  <2>1. \A d \in Device : dev'[d].sys = dev[d].sys
    BY <1>17, StartDoes DEF SameSysupgrade
  <2>2. run' = run /\ work' = work /\ (note' = NoRelease \/ (note' = note /\ (app.start # "starting" \/ app'.start = app.start)))
    BY <1>17, StartDoes
  <2> QED BY <1>1, <1>2, <2>1, <2>2
<1>18. CASE UNCHANGED vars
  BY <1>2, <1>18 DEF vars
<1> QED BY <1>3, <1>4, <1>5, <1>6, <1>7, <1>8, <1>9, <1>10, <1>11, <1>12, <1>13, <1>14, <1>15, <1>16, <1>17, <1>18, NextIs

(* What the run has told. *)

LEMMA InitTold == Init => ToldInv
<1> SUFFICES ASSUME Init PROVE ToldInv
  OBVIOUS
<1>1. \A d \in Device : dev[d].conf > FirstBoot
  BY InitBetween DEF Init, BetweenInv
<1> QED BY <1>1 DEF Init, ToldInv, FirstBoot

LEMMA InitFirstBoot == Init => FirstBootIsTold
  BY DEF Init, FirstBootIsTold

\* A device comes to first-boot settings by the current flash alone.
LEMMA FirstBoots ==
    ASSUME TypeOK, PlanInv, BetweenInv, WorkInv, FlashInv, [Next]_vars, NEW d \in Device, dev'[d].conf = FirstBoot
    PROVE  \/ dev[d].conf = FirstBoot
           \/ dev[d].sys # "no" /\ d = Current /\ run' = run /\ work' = work
<1>1. CASE dev'[d].runs \in Running /\ dev'[d].conf = dev'[d].runs[1]
  BY <1>1, Sizes DEF FirstBoot
<1> QED BY <1>1, ReleaseChanges

LEMMA StepTold ==
    TypeOK /\ PlanInv /\ BetweenInv /\ WorkInv /\ FlashInv /\ ToldInv /\ FirstBootIsTold /\ [Next]_vars => ToldInv' /\ FirstBootIsTold'
<1> SUFFICES ASSUME TypeOK, PlanInv, BetweenInv, WorkInv, FlashInv, ToldInv, FirstBootIsTold, [Next]_vars
             PROVE  ToldInv' /\ FirstBootIsTold'
  OBVIOUS
<1>0. NoWork.at = "none" /\ run.told \subseteq Device /\ run.done \subseteq Device
  BY DEF NoWork, TypeOK, RunState
\* A step of another process than the run.
<1>1. CASE /\ run' = run /\ (work'.at # "none" => work.at # "none")
           /\ \A d \in Device : dev'[d].sys # "no" => dev[d].sys # "no" \/ (d = Current /\ work.at # "none")
  <2>1. run.at \in {"applying", "ended"} => \A d \in Device : dev'[d].sys # "no" => d \in run.told
    BY <1>1 DEF ToldInv
  <2>2. \A d \in Device : dev'[d].conf = FirstBoot => dev[d].conf = FirstBoot \/ (dev[d].sys # "no" /\ d = Current)
    BY FirstBoots
  <2>3. \A d \in Device : dev[d].sys # "no" => run.at \notin {"plan", "reading", "building", "next"}
    BY DEF BetweenInv
  <2>4. run.at \in {"flashing", "waiting", "own flash", "applying", "ended", "killed", "plan", "reading", "building", "next"}
    BY DEF TypeOK, RunState, Phase
  <2>5. run.at # "killed" => \A d \in Device : dev'[d].conf = FirstBoot =>
              d \in run.done \cup run.told \/ (run.at \in {"flashing", "waiting", "own flash"} /\ d = Current)
    BY <2>2, <2>3, <2>4 DEF ToldInv
  <2>6. ToldInv'
    BY <1>1, <2>1, <2>5 DEF ToldInv, Current
  <2>7. FirstBootIsTold'
    <3> SUFFICES ASSUME run.at = "ended", run.end \in {"applied", "partial"}, NEW d \in Device, dev'[d].conf = FirstBoot
                 PROVE  run.end = "partial" /\ d \in run.told
      BY <1>1 DEF FirstBootIsTold
    <3>1. CASE dev[d].conf = FirstBoot
      BY <3>1 DEF FirstBootIsTold
    <3>2. CASE dev[d].sys # "no"
      BY <3>2 DEF ToldInv
    <3> QED BY <2>2, <3>1, <3>2
  <2> QED BY <2>6, <2>7
<1>2. CASE run'.at = "killed"
  BY <1>2 DEF ToldInv, FirstBootIsTold
<1>3. CASE PlansAlone
  <2>1. /\ dev' = dev /\ work' = work /\ work.at = "none" /\ run.at = "plan"
        /\ \A d \in Device : dev[d].sys = "no" /\ dev[d].conf # FirstBoot
    <3>1. dev' = dev /\ work' = work /\ run.at = "plan"
      BY <1>3, PlansAloneDoes
    <3>2. \A d \in Device : dev[d].conf > FirstBoot /\ dev[d].conf \in Nat
      BY <3>1 DEF BetweenInv, TypeOK, DeviceState
    <3> QED BY <3>1, <3>2 DEF BetweenInv, FirstBoot
  <2>2. run.end = "none" /\ (run'.end = "none" \/ (run'.at = "ended" /\ run'.end = "refused"))
    BY <1>3, <2>1, PlansAloneDoes DEF ToldInv
  <2> QED BY <2>1, <2>2 DEF ToldInv, FirstBootIsTold
<1>4. CASE ReadsDevices
  <2>1. /\ dev' = dev /\ work' = work /\ work.at = "none" /\ run.at = "reading"
        /\ \A d \in Device : dev[d].sys = "no" /\ dev[d].conf # FirstBoot
    <3>1. dev' = dev /\ work' = work /\ run.at = "reading"
      BY <1>4, ReadsDevicesDoes
    <3>2. \A d \in Device : dev[d].conf > FirstBoot /\ dev[d].conf \in Nat
      BY <3>1 DEF BetweenInv, TypeOK, DeviceState
    <3> QED BY <3>1, <3>2 DEF BetweenInv, FirstBoot
  <2>2. run.end = "none" /\ (run'.end = "none" \/ (run'.at = "ended" /\ run'.end = "refused"))
    BY <1>4, <2>1, ReadsDevicesDoes DEF ToldInv
  <2> QED BY <2>1, <2>2 DEF ToldInv, FirstBootIsTold
<1>5. CASE DeviceNotRead \/ Builds \/ AllUpgraded \/ Killed
  <2>1. CASE run'.at # "killed"
    <3>1. /\ dev' = dev /\ work' = work /\ work.at = "none" /\ run.at \in {"reading", "building", "next"}
          /\ run'.done = run.done /\ run'.told = run.told
          /\ \A d \in Device : dev[d].sys = "no"
      BY <1>5, <2>1, RunOnDoes DEF BetweenInv
    <3>2. run.end = "none" /\ (run'.end = "none" \/ (run'.at = "ended" /\ run'.end \in {"refused", "failed"}))
      BY <1>5, <2>1, <3>1, RunOnDoes DEF ToldInv
    <3> QED BY <3>1, <3>2 DEF ToldInv, FirstBootIsTold
  <2> QED BY <1>2, <2>1
\* The run told of its current device, and what it is worked on no longer.
<1>6. CASE /\ run.at \in {"next", "flashing", "waiting", "own flash"}
           /\ SameWay /\ run'.done = run.done /\ run'.told = run.told \cup {Current}
           /\ (run'.at = "ended" /\ run'.end = "failed") \/ (run'.at = "applying" /\ run'.end = run.end)
           /\ \A d \in Device : dev'[d].sys = dev[d].sys /\ dev'[d].conf = dev[d].conf
  <2>1. Current' = Current
    BY <1>6 DEF SameWay, Current
  <2>2. run.end = "none"
    BY <1>6 DEF ToldInv
  <2>3. \A d \in Device : dev'[d].conf = FirstBoot => d \in run'.done \cup run'.told
    BY <1>6 DEF ToldInv
  <2>4. \A d \in Device : dev'[d].sys # "no" => d \in run'.told
    BY <1>6 DEF FlashInv
  <2>5. ToldInv'
    BY <1>6, <2>1, <2>2, <2>3, <2>4 DEF ToldInv
  <2> QED BY <1>6, <2>2, <2>5 DEF FirstBootIsTold
<1>7. CASE OpensSession \/ TimesOut \/ WorkDone \/ NotBack
  <2>1. CASE run'.told = run.told \cup {Current} /\ run'.at \in {"ended", "applying"}
    BY <1>6, <1>7, <2>1, StopsOnDoes
  <2>2. CASE ~(run'.told = run.told \cup {Current} /\ run'.at \in {"ended", "applying"})
    <3>1. /\ SameWay /\ SameOutcome /\ dev' = dev
          /\ run.at \in {"next", "flashing"} /\ run'.at \in {"flashing", "own flash", "waiting"}
          /\ run'.at = "flashing" => run.at = "next"
      BY <1>7, <2>2, StopsOnDoes
    <3>2. Current' = Current
      BY <3>1 DEF SameWay, Current
    <3> QED BY <3>1, <3>2 DEF ToldInv, FirstBootIsTold, SameOutcome
  <2> QED BY <2>1, <2>2
<1>8. CASE ComesBack
  BY <1>8, ComesBackDoes DEF ToldInv, FirstBootIsTold
<1>9. CASE OwnFlashNeverBegan
  <2>1. \A d \in Device : dev'[d].sys = dev[d].sys /\ dev'[d].conf = dev[d].conf
    BY <1>9, OwnFlashNeverBeganDoes DEF Rest
  <2> QED BY <1>6, <1>9, <2>1, OwnFlashNeverBeganDoes
<1>10. CASE Applies
  <2>1. /\ run.at = "applying" /\ run'.at = "ended" /\ SameWay /\ run'.done = run.done /\ run.told \subseteq run'.told /\ work' = work
        /\ \A d \in Device : dev'[d].sys = dev[d].sys
    BY <1>10, AppliesDoes DEF SameSysupgrade
  <2>2. \A d \in Device : dev[d].runs[1] # FirstBoot
    BY Sizes DEF TypeOK, DeviceState, FirstBoot
  <2>3. \A d \in Device : dev[d].conf = FirstBoot => d \in run.done \cup run.told
    BY <2>1 DEF ToldInv
  <2>4. \A d \in Device : dev'[d].conf = FirstBoot => dev[d].conf = FirstBoot
    BY <1>10, <2>2, AppliesDoes
  <2>5. Current' = Current
    BY <2>1 DEF SameWay, Current
  <2>6. run'.end = "applied" => run'.told = {}
    BY <1>10, AppliesDoes
  <2>7. ToldInv'
    BY <2>1, <2>3, <2>4, <2>5, <2>6 DEF ToldInv
  <2>8. FirstBootIsTold'
    <3> SUFFICES ASSUME run'.end \in {"applied", "partial"}, NEW d \in Device, dev'[d].conf = FirstBoot
                 PROVE  run'.end = "partial" /\ d \in run'.told
      BY <2>1 DEF FirstBootIsTold
    <3>1. d \in run.done \cup run.told
      BY <2>3, <2>4
    <3> QED BY <1>10, <2>1, <2>2, <3>1, AppliesDoes
  <2> QED BY <2>7, <2>8
<1>11. CASE ChecksSession \/ VerbUnanswered
  BY <1>1, <1>11, SaysDoes
<1>12. CASE Fetches \/ Checks
  <2>1. \A d \in Device : dev'[d].sys = dev[d].sys
    BY <1>12, HoldsDoes DEF Rest, SameSysupgrade
  <2> QED BY <1>1, <1>12, <2>1, HoldsDoes
<1>13. CASE KeepsSelf
  <2>1. \A d \in Device : dev'[d].sys = dev[d].sys
    BY <1>13, KeepsSelfDoes DEF Rest, SameSysupgrade
  <2> QED BY <1>1, <1>13, <2>1, KeepsSelfDoes
<1>14. CASE Flashes
  <2>1. \A d \in Device : dev'[d].sys = dev[d].sys \/ d = Current
    BY <1>14, FlashesDoes DEF Rest
  <2> QED BY <1>1, <1>14, <2>1, FlashesDoes
<1>15. CASE Cleans
  <2>1. \A d \in Device : dev'[d].sys = dev[d].sys
    BY <1>15, CleansDoes DEF Rest, SameSysupgrade
  <2> QED BY <1>1, <1>15, <2>1, CleansDoes
<1>16. ASSUME NEW d \in Device, SysupgradeBegins(d) \/ SysupgradeFails(d) PROVE ToldInv' /\ FirstBootIsTold'
  <2>1. \A e \in Device : dev'[e].sys # "no" => dev[e].sys # "no"
    BY <1>16, SysupgradeDoes DEF Rest
  <2>2. run'.at = "killed" \/ (run' = run /\ (work' = work \/ work' = NoWork))
    BY <1>16, SysupgradeDoes
  <2> QED BY <1>0, <1>1, <1>2, <2>1, <2>2
<1>17. ASSUME NEW d \in Device, Boots(d) PROVE ToldInv' /\ FirstBootIsTold'
  <2>1. \A e \in Device : dev'[e].sys # "no" => dev[e].sys # "no"
    BY <1>17, BootsDoes DEF Rest
  <2> QED BY <1>1, <1>17, <2>1, BootsDoes
<1>18. ASSUME NEW d \in Device, MovedByHand(d) PROVE ToldInv' /\ FirstBootIsTold'
  <2>1. \A e \in Device : dev'[e].sys # "no" => dev[e].sys # "no"
    BY <1>18, MovedByHandDoes DEF Rest, SameSysupgrade
  <2> QED BY <1>1, <1>18, <2>1, MovedByHandDoes
<1>19. CASE StartStep \/ RestartedMeanwhile \/ BootsAgain \/ Roams
  BY <1>1, <1>19, StartDoes DEF SameSysupgrade
<1>20. CASE UNCHANGED vars
  BY <1>1, <1>20 DEF vars
<1> QED BY <1>3, <1>4, <1>5, <1>7, <1>8, <1>9, <1>10, <1>11, <1>12, <1>13, <1>14, <1>15, <1>16, <1>17, <1>18, <1>19, <1>20, NextIs

(* The theorems. *)

IInv ==
    /\ TypeOK /\ PlanInv /\ BetweenInv /\ WorkInv /\ FlashInv
    /\ NoNewerSettings /\ KeptInv /\ CutInv /\ NoteInv /\ ToldInv /\ FirstBootIsTold

LEMMA Inductive ==
    /\ Init => IInv
    /\ IInv /\ [Next]_vars => IInv'
<1>1. Init => IInv
  BY InitTyped, InitPlan, InitBetween, InitWork, InitFlash, InitNewer, InitKept, InitCut, InitNote, InitTold, InitFirstBoot DEF IInv
<1>2. IInv /\ [Next]_vars => IInv'
  BY StepTyped, StepPlan, StepBetween, StepWork, StepFlash, StepNewer, StepKept, StepCut, StepNote, StepTold DEF IInv
<1> QED BY <1>1, <1>2

LEMMA Always == Spec => []IInv
<1>1. Init => IInv
  BY Inductive
<1>2. IInv /\ [Next]_vars => IInv'
  BY Inductive
<1> QED BY <1>1, <1>2, PTL DEF Spec

LEMMA InTurn == TypeOK /\ PlanInv /\ BetweenInv /\ FlashInv => FlashedInTurn
<1> SUFFICES ASSUME TypeOK, PlanInv, BetweenInv, FlashInv,
                    NEW d \in Device, dev[d].sys # "no", run.at \notin {"ended", "killed", "applying"}
             PROVE  /\ \A e \in Device \ {d} : dev[e].sys = "no"
                    /\ \A i \in run.i + 1 .. Len(run.steps) :
                        LET e == run.steps[i].device IN
                        /\ e \in Repeaters => d \in Repeaters
                        /\ d = Router => e = host
  BY DEF FlashedInTurn
<1>1. \A e \in Device \ {d} : dev[e].sys = "no"
  BY DEF FlashInv
<1>2. d = run.steps[run.i].device /\ run.i \in DOMAIN run.steps
  BY DEF FlashInv, Current
<1>3. run.i \in Nat /\ DOMAIN run.steps = 1..Len(run.steps) /\ Len(run.steps) \in Nat /\ run.steps \in Seq(UpgradeStep)
  BY DEF TypeOK, RunState
<1>4. Going(run.steps, run.seen)
  BY DEF BetweenInv, PlanInv
<1>5. d # NoDevice /\ host \in {NoDevice, Router} /\ Router \notin Repeaters
  BY TopologyAssumption DEF TypeOK
<1>6. Place(d) \in Nat
  <2>1. Place(d) \in DOMAIN Hardware /\ Hardware \in Seq(Device)
    BY PlaceOK, TopologyAssumption
  <2>2. DOMAIN Hardware = 1..Len(Hardware) /\ Len(Hardware) \in Nat
    BY <2>1
  <2> QED BY <2>1, <2>2
<1>7. ASSUME NEW i \in run.i + 1 .. Len(run.steps)
      PROVE  LET e == run.steps[i].device IN
             /\ e \in Repeaters => d \in Repeaters
             /\ d = Router => e = host
  <2> DEFINE e == run.steps[i].device
  <2>1. i \in DOMAIN run.steps /\ run.i < i
    BY <1>2, <1>3
  <2>2. e \in Device
    <3>1. run.steps[i] \in UpgradeStep
      BY <1>3, <2>1
    <3> QED BY <3>1 DEF UpgradeStep
  <2>3. Before(d, e, host)
    BY <1>2, <1>4, <2>1 DEF Going
  <2> HIDE DEF e
  <2>4. e \in Repeaters => d \in Repeaters
    <3> SUFFICES ASSUME e \in Repeaters, d \notin Repeaters PROVE FALSE
      OBVIOUS
    <3>1. e # host
      BY <1>5, <2>2, Sizes
    <3>2. Rank(e, host) = 0 /\ Rank(d, host) \in {1, 2, 3}
      BY <1>5, <3>1 DEF Rank
    <3> QED BY <2>3, <3>2 DEF Before
  <2>5. d = Router => e = host
    <3> SUFFICES ASSUME d = Router, e # host PROVE FALSE
      OBVIOUS
    <3>1. Rank(d, host) \in {2, 3}
      BY DEF Rank
    <3>2. e = Router
      BY <2>3, <3>1 DEF Before, Rank
    <3> QED BY <1>6, <2>3, <3>2, <3>1 DEF Before
  <2> QED BY <2>4, <2>5 DEF e
<1> QED BY <1>1, <1>7

LEMMA NoneCut == TypeOK /\ KeptInv /\ CutInv => NoneCutOff
  BY DEF KeptInv, CutInv, CutsNone, NoneCutOff

\* Once the run has ended and its work with it, only the flash itself, or the
\* start after it, is still to come.
LEMMA NoteStays == NoteInv => NoteIsOfAFlash
  BY DEF NoteInv, NoteIsOfAFlash

Asked ==
    \A d \in Device : dev[d].sys = "writing" /\ dev'[d].runs # dev[d].runs =>
        LET target == Target(ask.network, ask.own[d], ask.out) IN
        /\ Older(dev'[d].runs, dev[d].runs) => ask.acks.downgrade
        /\ dev'[d].runs[1] > CheckedSeries => ask.acks.newSeries
        /\ d \in ask.only /\ dev[d].runs = facts[d]
        /\ target.kind = "release" /\ dev'[d].runs = target.version

\* A device writing its flash comes to another release by its plan's step alone.
LEMMA StepAsked == TypeOK /\ PlanInv /\ BetweenInv /\ WorkInv /\ FlashInv /\ [Next]_vars => Asked
<1> SUFFICES ASSUME TypeOK, PlanInv, BetweenInv, WorkInv, FlashInv, [Next]_vars,
                    NEW d \in Device, dev[d].sys = "writing", dev'[d].runs # dev[d].runs
             PROVE  /\ Older(dev'[d].runs, dev[d].runs) => ask.acks.downgrade
                    /\ dev'[d].runs[1] > CheckedSeries => ask.acks.newSeries
                    /\ d \in ask.only /\ dev[d].runs = facts[d]
                    /\ TargetOf(ask, d).kind = "release" /\ dev'[d].runs = TargetOf(ask, d).version
  BY DEF Asked, TargetOf
<1>1. Planned(Step, run.seen) /\ d = Step.device /\ dev[d].runs = Step.from /\ dev'[d].runs = Step.to
  BY ReleaseChanges DEF Current, Step
<1> QED BY <1>1 DEF Planned

-----------------------------------------------------------------------------
(* The theorems: for any devices, settings, releases and faults. *)

\* The plan's steps, what the devices run and what is noted are releases of a
\* series (never the "none" of an unread device or series), and the run, its
\* work and the devices are always in one of their known places.
THEOREM TypeCorrect == Spec => []TypeOK
  BY Always, PTL DEF IInv

\* Settings written for a series are never on a device that runs an older one:
\* the plan keeps only the SSH keys going back (upgradePlan.ts), and flashOne
\* flashes only a device that still runs what the plan knew.
THEOREM NeverNewerSettings == Spec => []NoNewerSettings
  BY Always, PTL DEF IInv

\* One device at a time, a repeater never after the access point it hangs on,
\* and the router after all but this app's own (inFlashOrder, backOn).
THEOREM AlwaysInTurn == Spec => []FlashedInTurn
<1>1. IInv => FlashedInTurn
  BY InTurn DEF IInv
<1> QED BY <1>1, Always, PTL

\* No device is left on first-boot settings with another behind its mesh, with
\* this machine on its Wi-Fi as the devices were read, or with this app on it;
\* and this app is always on its device, or kept there until a boot puts it
\* back (keysRefusal, keep-self).
THEOREM NeverCutOff == Spec => []NoneCutOff
<1>1. IInv => NoneCutOff
  BY NoneCut DEF IInv
<1> QED BY <1>1, Always, PTL

\* A note left when a run has ended is of a flash under way, or just over.
THEOREM NoteAlwaysOfAFlash == Spec => []NoteIsOfAFlash
<1>1. IInv => NoteIsOfAFlash
  BY NoteStays DEF IInv
<1> QED BY <1>1, Always, PTL

\* A run that says applied, or partial, told of every device left on
\* first-boot settings: those still flashing as it ended, and those an apply
\* gone wrong left so.
THEOREM FirstBootAlwaysTold == Spec => []FirstBootIsTold
  BY Always, PTL DEF IInv

\* A device the run flashes goes from what the plan knew to what was asked and
\* acknowledged, never back or into an unchecked series unasked.
THEOREM AlwaysAsAsked == Spec => OnlyAsAsked
<1>1. IInv /\ [Next]_vars => Asked
  BY StepAsked DEF IInv
<1>2. Spec => [][Asked]_vars
  BY <1>1, Always, PTL DEF Spec
<1> QED BY <1>2 DEF OnlyAsAsked, Asked
=============================================================================
