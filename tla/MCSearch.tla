------------------------------ MODULE MCSearch ------------------------------
(***************************************************************************)
(* A small instance of Search: two products and the bundle of them in one  *)
(* store, whose delivery hours change, and a product in another store.     *)
(***************************************************************************)
EXTENDS Search

CONSTANTS s1, s2, bundle, stroller, crib, light, large, rain, es, nl, madrid

SmallStoreOf == [i \in Items |-> IF i = 4 THEN s2 ELSE s1]
SmallMembers == [b \in Bundles |-> {1, 2}]
SmallCategory == [p \in Products |-> IF p = 1 THEN crib ELSE stroller]
SmallTypes == [p \in Products |-> IF p = 2 THEN {light} ELSE {large}]
SmallAccessories == [p \in Products |-> IF p = 4 THEN {rain} ELSE {}]
\* The second product's type is an array.
SmallReadTypes == [p \in Products |-> IF p = 2 THEN {} ELSE SmallTypes[p]]
SmallCountry == [s \in Stores |-> IF s = s1 THEN es ELSE nl]
SmallCities == [s \in Stores |-> IF s = s1 THEN {madrid} ELSE {}]

Hour(from, to) == [from |-> from, to |-> to]
Body(available, always, ranges, days) ==
  [available |-> available, ranges |-> ranges, days |-> days, available24h |-> always]

Mornings == <<Hour(8, 10), Hour(16, 18)>>
ByDay == Body(TRUE, FALSE, Mornings, [d \in {1, 2} |-> IF d = 1 THEN {0} ELSE {0, 1}])
NoDayNamed == Body(TRUE, FALSE, Mornings, [d \in {1} |-> {}])
Overnight == Body(TRUE, FALSE, <<Hour(22, 2)>>, Absent)
Always == Body(TRUE, TRUE, <<>>, Absent)
Never == Body(FALSE, FALSE, Mornings, [d \in {1, 2} |-> {0, 1}])
BeyondRanges == Body(TRUE, FALSE, Mornings, [d \in {1} |-> {2}])
ManyIntervals == Body(TRUE, FALSE, Mornings \o <<Hour(20, 21)>>, [d \in {1} |-> {0, 1, 2}])
NoRanges == Body(TRUE, FALSE, <<>>, Absent)

SmallBodies == {ByDay, NoDayNamed, Overnight, Always, Never, BeyondRanges, ManyIntervals, NoRanges}

\* Changes reach the other hours; the second store always delivers and has no pickup.
SmallOpenings ==
  {[s \in Stores |->
     IF s = s1 THEN [delivery |-> dto, customer_pickup |-> ByDay]
     ELSE [delivery |-> Always, customer_pickup |-> Absent]] :
   dto \in {ByDay}}

Handoff(service, time) == [time |-> time, type |-> service]
Query(country, city, categories, period, acquisition, devolution) ==
  [country |-> country, city |-> city, categories |-> categories, period |-> period,
   acquisition |-> acquisition, devolution |-> devolution]
Criterion(name, types, accessories) == [name |-> name, types |-> types, accessories |-> accessories]
Rental(start, end) == [start |-> start, end |-> end]

SmallQueries ==
  {Query(Absent, Absent, {}, Absent, Absent, Absent),
   Query(Absent, Absent, {Criterion(stroller, {}, {rain}), Criterion(stroller, {light}, {})}, Absent, Absent, Absent),
   Query(Absent, Absent, {}, Rental(1, 9), Handoff("delivery", 17), Handoff("delivery", 17)),
   Query(Absent, Absent, {}, Rental(8, 10), Handoff("delivery", 9), Handoff("customer_pickup", 9)),
   Query(es, Absent, {Criterion(bundle, {}, {})}, Absent, Handoff("delivery", Absent), Absent),
   Query(es, madrid, {Criterion(crib, {large}, {})}, Absent, Handoff("delivery", 23), Absent),
   Query(nl, Absent, {}, Rental(5, 4), Absent, Absent)}
=============================================================================
