----------------------------- MODULE SearchProofs -----------------------------
(***************************************************************************)
(* What a search shows, and what a walk through its pages shows, for any   *)
(* catalog, hours and queries, and any number of changes in between.       *)
(***************************************************************************)
EXTENDS Search, FiniteSetTheorems, TLAPS

\* The walk is of a query, and the schedules are built from bodies that were accepted.
TypeOK ==
  /\ query \in Queries \cup {Absent}
  /\ asked \in [Stores -> [Services -> Bodies \cup {Absent}] \cup {Absent}]
  /\ \A s \in Stores, service \in Services : asked[s] # Absent => asked[s][service] \in AcceptedBodies(service)

\* The variables have these types.
THEOREM TypeCorrect == Spec => []TypeOK
<1> USE SearchAssumption
<1>1. Init => TypeOK
  BY DEF Init, TypeOK
<1>2. TypeOK /\ [Next]_vars => TypeOK'
  <2> SUFFICES ASSUME TypeOK, [Next]_vars PROVE TypeOK'
    OBVIOUS
  <2>1. ASSUME NEW q \in Queries, BeginWalk(q) PROVE TypeOK'
    BY <2>1 DEF BeginWalk, TypeOK
  <2>2. ASSUME NextPage \/ UNCHANGED vars PROVE TypeOK'
    BY <2>2 DEF NextPage, TypeOK, vars
  <2>3. ASSUME NEW i \in Items, NEW s, ChangeStatus(i, s) PROVE TypeOK'
    BY <2>3 DEF ChangeStatus, Observe, TypeOK
  <2>4. ASSUME NEW s \in Stores, NEW service \in Services, NEW dto \in Bodies, ChangeHours(s, service, dto)
        PROVE  TypeOK'
    <3>1. /\ query' = query /\ asked[s] # Absent
          /\ asked' = [asked EXCEPT ![s] = [asked[s] EXCEPT ![service] = dto]]
          /\ asked[s] \in [Services -> Bodies \cup {Absent}]
          /\ dto \in AcceptedBodies(service)
      BY <2>4 DEF ChangeHours, Observe, TypeOK, AcceptedBodies
    <3> DEFINE new == [asked[s] EXCEPT ![service] = dto]
    <3>2. new \in [Services -> Bodies \cup {Absent}] /\ \A e \in Services : new[e] \in AcceptedBodies(e)
      BY <3>1 DEF TypeOK
    <3>3. asked' = [asked EXCEPT ![s] = new]
      BY <3>1
    <3> HIDE DEF new
    <3> QED
      BY <3>1, <3>2, <3>3 DEF TypeOK
  <2>5. ASSUME NEW s \in Stores, RemoveStore(s) PROVE TypeOK'
    BY <2>5 DEF RemoveStore, Observe, TypeOK
  <2> QED
    BY <2>1, <2>2, <2>3, <2>4, <2>5 DEF Next
<1> QED
  BY <1>1, <1>2, PTL DEF Spec

-----------------------------------------------------------------------------
\* Through building, storing and reading a schedule: the search takes a service for
\* open exactly when it is, by what the provider entered.
LEMMA ScheduleIsFaithful ==
  ASSUME NEW D \in SUBSET Weekdays, NEW dto \in Dto(D),
         NEW time \in Nat \cup {Absent}, NEW day \in Weekdays \cup {Absent}
  PROVE  CoversHandoff(Schedule(dto), time, day) <=> Open(dto, day, time)
<1> USE HoursAssumption
<1>1. /\ dto.available \in BOOLEAN /\ dto.available24h \in BOOLEAN
      /\ dto.ranges \in Seq(TimeRange) /\ dto.days \in [D -> SUBSET Nat] \cup {Absent}
      /\ dto # Absent
  BY DEF Dto
<1>2. \A k \in DOMAIN dto.ranges : dto.ranges[k] \in TimeRange
  BY <1>1
<1>3. \A range \in TimeRange : time # Absent =>
        (RangeContains(range, time) <=> time \in range.from .. range.to)
  BY DEF RangeContains, TimeRange
<1>4. CASE dto.available24h
  <2>1. Schedule(dto) = [available |-> dto.available, available24h |-> TRUE, ranges |-> <<>>, days |-> NoDays]
    BY <1>4 DEF Schedule
  <2>2. Schedule(dto) # Absent
    <3>1. NoDays \in [{} -> SUBSET Nat] /\ <<>> \in Seq(TimeRange)
      BY DEF NoDays
    <3>2. Schedule(dto) \in Dto({})
      BY <1>1, <2>1, <3>1 DEF Dto
    <3> QED
      BY <3>2
  <2> QED
    BY <1>1, <1>4, <2>1, <2>2 DEF CoversHandoff, Open
<1>5. CASE ~dto.available24h
  <2> DEFINE used == {d \in D : dto.days[d] # {}}
             days == Normalized(dto.days)
  <2>1. Schedule(dto) = [available |-> dto.available, available24h |-> FALSE, ranges |-> dto.ranges, days |-> days]
    BY <1>5 DEF Schedule
  <2>2. dto.days = Absent => days = Absent
    BY DEF Normalized
  <2>3. dto.days # Absent => /\ DOMAIN dto.days = D
                             /\ used = {} => days = Absent
                             /\ used # {} => days = [d \in used |-> dto.days[d]] /\ days # Absent
    <3> SUFFICES ASSUME dto.days # Absent
                 PROVE  /\ DOMAIN dto.days = D
                        /\ used = {} => days = Absent
                        /\ used # {} => days = [d \in used |-> dto.days[d]] /\ days # Absent
      OBVIOUS
    <3>1. dto.days \in [D -> SUBSET Nat]
      BY <1>1
    <3>2. [d \in used |-> dto.days[d]] \in [used -> SUBSET Nat] /\ used \in SUBSET Weekdays
      BY <3>1
    <3>3. [d \in used |-> dto.days[d]] # Absent
      BY <3>2
    <3> QED
      BY <3>1, <3>3 DEF Normalized
  <2>4. Schedule(dto) # Absent
    <3>1. days \in [used -> SUBSET Nat] \cup {Absent} /\ used \in SUBSET Weekdays
      BY <1>1, <2>2, <2>3
    <3> HIDE DEF used, days
    <3>2. Schedule(dto) \in Dto(used)
      BY <1>1, <2>1, <3>1 DEF Dto
    <3> QED
      BY <3>1, <3>2
  <2> HIDE DEF days
  <2>5. ASSUME time # Absent
        PROVE  (\E range \in RangesForDay(Schedule(dto), day) : RangeContains(range, time))
                 <=> \E k \in DOMAIN dto.ranges :
                       /\ time \in dto.ranges[k].from .. dto.ranges[k].to
                       /\ \/ day = Absent \/ dto.days = Absent
                          \/ \A d \in DOMAIN dto.days : dto.days[d] = {}
                          \/ day \in DOMAIN dto.days /\ k - 1 \in dto.days[day]
    <3>1. CASE day = Absent \/ days = Absent
      <4>1. RangesForDay(Schedule(dto), day) = {dto.ranges[k] : k \in DOMAIN dto.ranges}
        BY <2>1, <3>1 DEF RangesForDay
      <4>2. day = Absent \/ dto.days = Absent \/ \A d \in DOMAIN dto.days : dto.days[d] = {}
        BY <2>3, <3>1
      <4> QED
        BY <1>2, <1>3, <2>5, <4>1, <4>2
    <3>2. CASE day # Absent /\ days # Absent
      <4>1. dto.days # Absent /\ used # {} /\ DOMAIN dto.days = D
            /\ days = [d \in used |-> dto.days[d]] /\ DOMAIN days = used
        BY <2>2, <2>3, <3>2
      <4>2. CASE day \notin used
        <5>1. RangesForDay(Schedule(dto), day) = {}
          BY <2>1, <3>2, <4>1, <4>2 DEF RangesForDay
        <5> QED
          BY <3>2, <4>1, <4>2, <5>1
      <4>3. CASE day \in used
        <5>1. RangesForDay(Schedule(dto), day)
                = {dto.ranges[k + 1] : k \in {n \in dto.days[day] : n < Len(dto.ranges)}}
          BY <2>1, <3>2, <4>1, <4>3 DEF RangesForDay
        <5>2. dto.days[day] \subseteq Nat /\ Len(dto.ranges) \in Nat /\ DOMAIN dto.ranges = 1 .. Len(dto.ranges)
          BY <1>1, <4>1, <4>3
        <5>3. \A n \in {n \in dto.days[day] : n < Len(dto.ranges)} :
                n + 1 \in DOMAIN dto.ranges /\ (n + 1) - 1 \in dto.days[day]
          BY <5>2
        <5>4. \A k \in DOMAIN dto.ranges : k - 1 \in dto.days[day] =>
                k - 1 \in {n \in dto.days[day] : n < Len(dto.ranges)} /\ (k - 1) + 1 = k
          BY <5>2
        <5>5. {dto.ranges[k + 1] : k \in {n \in dto.days[day] : n < Len(dto.ranges)}}
                = {dto.ranges[k] : k \in {j \in DOMAIN dto.ranges : j - 1 \in dto.days[day]}}
          BY <5>3, <5>4
        <5> QED
          BY <1>2, <1>3, <2>5, <3>2, <4>1, <4>3, <5>1, <5>5
      <4> QED
        BY <4>2, <4>3
    <3> QED
      BY <3>1, <3>2
  <2>6. Schedule(dto).available = dto.available /\ ~Schedule(dto).available24h
    BY <1>5, <2>1
  <2>7. CASE time = Absent
    BY <1>1, <2>4, <2>6, <2>7 DEF CoversHandoff, Open
  <2>8. CASE time # Absent
    <3>1. CoversHandoff(Schedule(dto), time, day)
            <=> dto.available /\ \E range \in RangesForDay(Schedule(dto), day) : RangeContains(range, time)
      BY <1>1, <2>4, <2>6, <2>8 DEF CoversHandoff
    <3> QED
      BY <1>1, <1>5, <2>5, <2>8, <3>1 DEF Open
  <2> QED
    BY <2>7, <2>8
<1> QED
  BY <1>4, <1>5

\* ... so that the schedules which a store must have cover a handoff when it serves it.
LEMMA CoversIsServes ==
  ASSUME TypeOK, NEW s \in Stores, asked[s] # Absent,
         NEW handoff \in Handoffs \cup {Absent}, NEW day \in Weekdays \cup {Absent}
  PROVE  (\A service \in Services : Covers(s, service, handoff, day)) <=> Serves(s, handoff, day)
<1> USE SearchAssumption
<1>1. CASE handoff = Absent
  BY <1>1 DEF Covers, Serves
<1>2. CASE handoff # Absent
  <2>1. handoff.type \in Services /\ handoff.time \in Nat \cup {Absent}
    BY <1>2 DEF Handoffs
  <2>2. (\A service \in Services : Covers(s, service, handoff, day))
          <=> CoversHandoff(ScheduleOf(s, handoff.type), handoff.time, day)
    BY <1>2, <2>1 DEF Covers
  <2>3. CASE asked[s][handoff.type] = Absent
    BY <1>2, <2>2, <2>3 DEF ScheduleOf, CoversHandoff, Serves, Open
  <2>4. CASE asked[s][handoff.type] # Absent
    <3>1. PICK D \in SUBSET Weekdays : asked[s][handoff.type] \in Dto(D)
      BY <2>1, <2>4 DEF TypeOK, AcceptedBodies
    <3>2. CoversHandoff(Schedule(asked[s][handoff.type]), handoff.time, day)
            <=> Open(asked[s][handoff.type], day, handoff.time)
      BY <2>1, <3>1, ScheduleIsFaithful
    <3> QED
      BY <1>2, <2>2, <2>4, <3>2 DEF ScheduleOf, Serves
  <2> QED
    BY <2>3, <2>4
<1> QED
  BY <1>1, <1>2

\* The weekday of a rental's first or last day, if there is a rental.
LEMMA DayIsWeekday ==
  ASSUME NEW q, q.period \in Periods \cup {Absent}, NEW date \in {"start", "end"}
  PROVE  /\ Day(q, date) \in Weekdays \cup {Absent}
         /\ Day(q, date) = IF q.period = Absent THEN Absent ELSE q.period[date] % 7
<1>1. CASE q.period = Absent
  BY <1>1 DEF Day
<1>2. CASE q.period # Absent
  <2>1. q.period[date] \in Nat
    BY <1>2 DEF Periods
  <2>2. q.period[date] % 7 \in 0 .. 6
    BY <2>1
  <2> QED
    BY <1>2, <2>2 DEF Day, DayKey, Weekdays
<1> QED
  BY <1>1, <1>2

\* Which stores a query restricts its answer to.
LEMMA ReachableStores ==
  ASSUME TypeOK, NEW q, NEW i \in Items, asked[StoreOf[i]] # Absent,
         q.period \in Periods \cup {Absent}, {q.acquisition, q.devolution} \subseteq Handoffs \cup {Absent}
  PROVE  i \in Reachable(q) <=>
           /\ q.country # Absent => Country[StoreOf[i]] = q.country
           /\ q.city # Absent => q.city \in Cities[StoreOf[i]]
           /\ Serves(StoreOf[i], q.acquisition, Day(q, "start"))
           /\ Serves(StoreOf[i], q.devolution, Day(q, "end"))
<1> DEFINE s == StoreOf[i]
<1>1. s \in Stores
  BY DEF Stores
<1>2. /\ (\A service \in Services : Covers(s, service, q.acquisition, Day(q, "start")))
            <=> Serves(s, q.acquisition, Day(q, "start"))
      /\ (\A service \in Services : Covers(s, service, q.devolution, Day(q, "end")))
            <=> Serves(s, q.devolution, Day(q, "end"))
  BY <1>1, CoversIsServes, DayIsWeekday
<1>3. s \in Resolved(q) <=>
        /\ q.country # Absent => Country[s] = q.country
        /\ q.city # Absent => q.city \in Cities[s]
        /\ Serves(s, q.acquisition, Day(q, "start"))
        /\ Serves(s, q.devolution, Day(q, "end"))
  BY <1>1, <1>2 DEF Resolved
<1>4. CASE HasStoreFilter(q)
  BY <1>3, <1>4 DEF Reachable
<1>5. CASE ~HasStoreFilter(q)
  <2>1. q.country = Absent /\ q.city = Absent /\ q.acquisition = Absent /\ q.devolution = Absent
    BY <1>5 DEF HasStoreFilter, Needs, Handoffs
  <2> QED
    BY <1>5, <2>1 DEF Reachable, Serves
<1> QED
  BY <1>4, <1>5

-----------------------------------------------------------------------------
\* A client sees the items of exactly the stores that are open for the handover and
\* for the return, by what their providers entered.
THEOREM ShownStoresAreOpenAlways == Spec => []ShownStoresAreOpen
<1>1. TypeOK => ShownStoresAreOpen
  <2> SUFFICES ASSUME TypeOK, query # Absent, NEW i \in Items,
                      status[i] = "available", Matches(i, query), asked[StoreOf[i]] # Absent,
                      query.country \in {Absent, Country[StoreOf[i]]},
                      query.city \in Cities[StoreOf[i]] \cup {Absent}
               PROVE  i \in Found(query) <=>
                        /\ Serves(StoreOf[i], query.acquisition, Weekday("start"))
                        /\ Serves(StoreOf[i], query.devolution, Weekday("end"))
    BY DEF ShownStoresAreOpen
  <2>1. query.period \in Periods \cup {Absent} /\ {query.acquisition, query.devolution} \subseteq Handoffs \cup {Absent}
    BY QueriesAssumption DEF TypeOK
  <2>2. Weekday("start") = Day(query, "start") /\ Weekday("end") = Day(query, "end")
    BY <2>1, DayIsWeekday DEF Weekday
  <2>3. i \in Found(query) <=> i \in Reachable(query)
    BY DEF Found, Reachable
  <2> QED
    BY <2>1, <2>2, <2>3, ReachableStores
<1> QED
  BY <1>1, TypeCorrect, PTL

-----------------------------------------------------------------------------
\* A handoff that asks for less: none, one at any time, or the same; on any day, or the same.
LooserHandoff(h, g) ==
  g = Absent \/ (h # Absent /\ g # Absent /\ g.type = h.type /\ g.time \in {h.time, Absent})

LEMMA LooserIsServed ==
  ASSUME NEW s, NEW h, NEW g, NEW day, NEW e \in {day, Absent}, LooserHandoff(h, g), Serves(s, h, day)
  PROVE  Serves(s, g, e)
BY DEF LooserHandoff, Serves, Open

\* Categories that ask for less.
LooserCategories(C, E) ==
  \/ E = C \/ E = {}
  \/ E = {[c EXCEPT !.types = {}] : c \in C}

LEMMA LooserMatches ==
  ASSUME NEW q, NEW b, NEW i \in Items, \A c \in q.categories : DOMAIN c = {"name", "types", "accessories"},
         LooserCategories(q.categories, b.categories), Matches(i, q)
  PROVE  Matches(i, b)
<1>1. CASE b.categories = q.categories \/ b.categories = {}
  BY <1>1 DEF Matches
<1>2. CASE b.categories = {[c EXCEPT !.types = {}] : c \in q.categories} /\ b.categories # {}
  <2>1. q.categories # {}
    BY <1>2
  <2>2. PICK c \in q.categories : IF i \in Products THEN ProductMatches(i, c) ELSE BundleMatches(i, c)
    BY <2>1 DEF Matches
  <2>3. PICK e : e = [c EXCEPT !.types = {}]
    OBVIOUS
  <2>4. e \in b.categories /\ e.name = c.name /\ e.types = {} /\ e.accessories = c.accessories
    BY <1>2, <2>2, <2>3
  <2>5. \A p : /\ ProductMatches(p, c) => ProductMatches(p, e)
               /\ MemberMatches(p, c) => MemberMatches(p, e)
    BY <2>4 DEF ProductMatches, MemberMatches, Meets
  <2>6. BundleMatches(i, c) => BundleMatches(i, e)
    BY <2>4, <2>5 DEF BundleMatches
  <2> QED
    BY <2>2, <2>4, <2>5, <2>6 DEF Matches
<1> QED
  BY <1>1, <1>2 DEF LooserCategories

\* A query that asks for less finds at least the same.
LEMMA LooserFindsMore ==
  ASSUME TypeOK, NEW q \in Queries, NEW b,
         b.country \in {q.country, Absent}, b.city \in {q.city, Absent},
         b.period \in {q.period, Absent}, LooserCategories(q.categories, b.categories),
         {b.acquisition, b.devolution} \subseteq Handoffs \cup {Absent},
         LooserHandoff(q.acquisition, b.acquisition), LooserHandoff(q.devolution, b.devolution)
  PROVE  Found(q) \subseteq Found(b)
<1> SUFFICES ASSUME NEW i \in Found(q) PROVE i \in Found(b)
  OBVIOUS
<1>1. /\ q.period \in Periods \cup {Absent} /\ {q.acquisition, q.devolution} \subseteq Handoffs \cup {Absent}
      /\ \A c \in q.categories : DOMAIN c = {"name", "types", "accessories"}
  BY QueriesAssumption
<1>2. b.period \in Periods \cup {Absent}
  BY <1>1
<1>3. /\ i \in Items /\ i \in Reachable(q) /\ status[i] = "available"
      /\ Matches(i, q) /\ asked[StoreOf[i]] # Absent
  BY DEF Found, Reachable
<1>4. Day(b, "start") \in {Day(q, "start"), Absent} /\ Day(b, "end") \in {Day(q, "end"), Absent}
  BY DEF Day
<1>5. /\ q.country # Absent => Country[StoreOf[i]] = q.country
      /\ q.city # Absent => q.city \in Cities[StoreOf[i]]
      /\ Serves(StoreOf[i], q.acquisition, Day(q, "start"))
      /\ Serves(StoreOf[i], q.devolution, Day(q, "end"))
  BY <1>1, <1>3, ReachableStores
<1>6. /\ Serves(StoreOf[i], b.acquisition, Day(b, "start"))
      /\ Serves(StoreOf[i], b.devolution, Day(b, "end"))
  BY <1>4, <1>5, LooserIsServed
<1>7. i \in Reachable(b)
  BY <1>2, <1>3, <1>5, <1>6, ReachableStores
<1>8. Matches(i, b)
  BY <1>1, <1>3, LooserMatches
<1> QED
  BY <1>3, <1>7, <1>8 DEF Found

\* One criterion less never hides an item that was shown.
THEOREM NarrowingShowsNoMoreAlways == Spec => []NarrowingShowsNoMore
<1>1. TypeOK => NarrowingShowsNoMore
  <2> SUFFICES ASSUME TypeOK, query # Absent, NEW b \in Broader(query) PROVE Found(query) \subseteq Found(b)
    BY DEF NarrowingShowsNoMore
  <2>1. PICK q \in Queries : q = query
    BY DEF TypeOK
  <2>2. /\ DOMAIN q = {"country", "city", "categories", "period", "acquisition", "devolution"}
        /\ q.period \in Periods \cup {Absent} /\ {q.acquisition, q.devolution} \subseteq Handoffs \cup {Absent}
    BY QueriesAssumption
  <2>3. \A h \in Handoffs \cup {Absent} : LooserHandoff(h, h) /\ LooserHandoff(h, Absent)
    BY DEF LooserHandoff
  <2>4. \A h \in Handoffs : [h EXCEPT !.time = Absent] \in Handoffs
    BY DEF Handoffs
  <2>5. \A h \in Handoffs : h # Absent => LooserHandoff(h, [h EXCEPT !.time = Absent])
    BY <2>4 DEF LooserHandoff, Handoffs
  <2> USE DEF LooserCategories
  <2>6. CASE b = [q EXCEPT !.country = Absent, !.city = Absent]
    <3>1. /\ b.country = Absent /\ b.city = Absent /\ b.categories = q.categories
          /\ b.period = q.period /\ b.acquisition = q.acquisition /\ b.devolution = q.devolution
      BY <2>2, <2>6
    <3> QED
      BY <2>1, <2>2, <2>3, <3>1, LooserFindsMore
  <2>7. CASE b = [q EXCEPT !.city = Absent]
    BY <2>1, <2>2, <2>3, <2>4, <2>5, <2>7, LooserFindsMore
  <2>8. CASE b = [q EXCEPT !.categories = {}]
    BY <2>1, <2>2, <2>3, <2>4, <2>5, <2>8, LooserFindsMore
  <2>9. CASE b = [q EXCEPT !.period = Absent]
    BY <2>1, <2>2, <2>3, <2>4, <2>5, <2>9, LooserFindsMore
  <2>10. CASE b = [q EXCEPT !.acquisition = Absent]
    BY <2>1, <2>2, <2>3, <2>4, <2>5, <2>10, LooserFindsMore
  <2>11. CASE b = [q EXCEPT !.devolution = Absent]
    BY <2>1, <2>2, <2>3, <2>4, <2>5, <2>11, LooserFindsMore
  <2>12. CASE b = [q EXCEPT !.categories = {[c EXCEPT !.types = {}] : c \in @}]
    <3>1. /\ b.country = q.country /\ b.city = q.city
          /\ b.categories = {[c EXCEPT !.types = {}] : c \in q.categories}
          /\ b.period = q.period /\ b.acquisition = q.acquisition /\ b.devolution = q.devolution
      BY <2>2, <2>12
    <3>2. LooserCategories(q.categories, b.categories)
      BY <3>1, Zenon
    <3> QED
      BY <2>1, <2>2, <2>3, <3>1, <3>2, LooserFindsMore
  <2>13. CASE b = [q EXCEPT !.acquisition = [q.acquisition EXCEPT !.time = Absent]] /\ q.acquisition # Absent
    BY <2>1, <2>2, <2>3, <2>4, <2>5, <2>13, LooserFindsMore
  <2>14. CASE b = [q EXCEPT !.devolution = [q.devolution EXCEPT !.time = Absent]] /\ q.devolution # Absent
    BY <2>1, <2>2, <2>3, <2>4, <2>5, <2>14, LooserFindsMore
  <2> QED
    BY <2>1, <2>6, <2>7, <2>8, <2>9, <2>10, <2>11, <2>12, <2>13, <2>14 DEF Broader
<1> QED
  BY <1>1, TypeCorrect, PTL

-----------------------------------------------------------------------------
\* Different items have different places, from 1 on, the newer the earlier.
LEMMA PlacesDiffer ==
  ASSUME NEW S \in SUBSET Items, NEW i \in S, NEW j \in S, i < j
  PROVE  Place(j, S) < Place(i, S)
<1> USE SearchAssumption
<1> DEFINE A == {k \in S : k >= i}
           B == {k \in S : k >= j}
<1>1. i \in Nat /\ j \in Nat /\ S \subseteq Nat
  OBVIOUS
<1>2. IsFiniteSet(S)
  BY FS_Subset
<1>3. IsFiniteSet(A) /\ Cardinality(A) \in Nat
  <2>1. A \in SUBSET S
    OBVIOUS
  <2> HIDE DEF A
  <2> QED
    BY <1>2, <2>1, FS_Subset, FS_CardinalityType
<1>4. B \in SUBSET A /\ i \in A /\ i \notin B
  <2>1. \A k \in S : k >= j => k >= i
    BY <1>1
  <2>2. i \in A /\ i \notin B
    BY <1>1
  <2> QED
    BY <2>1, <2>2
<1> HIDE DEF A, B
<1>5. Cardinality(B) <= Cardinality(A) /\ Cardinality(B) # Cardinality(A) /\ Cardinality(B) \in Nat
  BY <1>3, <1>4, FS_Subset, FS_CardinalityType
<1>6. Cardinality(B) < Cardinality(A)
  BY <1>3, <1>5
<1> QED
  BY <1>6 DEF Place, A, B

\* An item's place is between 1 and the number of items.
LEMMA PlacesAreCounted ==
  ASSUME NEW S \in SUBSET Items, NEW i \in S
  PROVE  Place(i, S) \in 1 .. Cardinality(S)
<1> USE SearchAssumption
<1> DEFINE A == {k \in S : k >= i}
<1>1. i \in Nat
  OBVIOUS
<1>2. IsFiniteSet(S)
  BY FS_Subset
<1>3. A \in SUBSET S /\ i \in A
  BY <1>1
<1> HIDE DEF A
<1>4. IsFiniteSet(A) /\ Cardinality(A) <= Cardinality(S) /\ Cardinality(A) \in Nat /\ Cardinality(S) \in Nat
  BY <1>2, <1>3, FS_Subset, FS_CardinalityType
<1>5. Cardinality(A) # 0
  BY <1>3, <1>4, FS_EmptySet
<1>6. Cardinality(A) \in 1 .. Cardinality(S)
  BY <1>4, <1>5
<1> QED
  BY <1>6 DEF Place, A

\* Every place up to the last is that of exactly one item.
LEMMA PlacesAreFilled ==
  ASSUME NEW S \in SUBSET Items, NEW n \in 1 .. Cardinality(S)
  PROVE  \E i \in S : Place(i, S) = n
<1> USE SearchAssumption
<1> DEFINE T == 1 .. Cardinality(S)
           f == [i \in S |-> Place(i, S)]
<1>1. IsFiniteSet(S)
  BY FS_Subset
<1>2. Cardinality(S) \in Nat
  BY <1>1, FS_CardinalityType
<1>3. IsFiniteSet(T) /\ Cardinality(T) = Cardinality(S)
  <2>1. IsFiniteSet(1 .. Cardinality(S))
        /\ Cardinality(1 .. Cardinality(S)) = IF 1 > Cardinality(S) THEN 0 ELSE Cardinality(S) - 1 + 1
    BY <1>2, FS_Interval
  <2> QED
    BY <1>2, <2>1
<1>4. f \in [S -> T]
  BY PlacesAreCounted
<1>5. \A i, j \in S : f[i] = f[j] => i = j
  <2> SUFFICES ASSUME NEW i \in S, NEW j \in S, i # j PROVE f[i] # f[j]
    OBVIOUS
  <2>1. i \in Nat /\ j \in Nat /\ Place(i, S) \in Nat /\ Place(j, S) \in Nat
    BY PlacesAreCounted
  <2>2. i < j \/ j < i
    BY <2>1
  <2>3. Place(i, S) # Place(j, S)
    BY <2>1, <2>2, PlacesDiffer
  <2> QED
    BY <2>3
<1> HIDE DEF f, T
<1>6. f \in Injection(S, T)
  BY <1>4, <1>5 DEF Injection, IsInjective
<1>7. f \in Surjection(S, T)
  BY <1>3, <1>6, FS_Injection
<1>8. \E i \in S : f[i] = n
  BY <1>7 DEF T, Surjection
<1> QED
  BY <1>8 DEF f

\* No two items have the same place.
LEMMA PlacesAreUnique ==
  ASSUME NEW S \in SUBSET Items, NEW i \in S, NEW j \in S, Place(i, S) = Place(j, S)
  PROVE  i = j
<1> USE SearchAssumption
<1>1. i \in Nat /\ j \in Nat
  OBVIOUS
<1>2. ~(i < j) /\ ~(j < i)
  <2>1. Place(i, S) \in 1 .. Cardinality(S)
    BY PlacesAreCounted
  <2>2. ~(Place(i, S) < Place(j, S)) /\ ~(Place(j, S) < Place(i, S))
    BY <2>1
  <2> QED
    BY <2>2, PlacesDiffer
<1> QED
  BY <1>1, <1>2

\* More items leave each later, or where it is.
LEMMA PlacesGrow ==
  ASSUME NEW T \in SUBSET Items, NEW S \in SUBSET T, NEW i \in S
  PROVE  Place(i, S) <= Place(i, T)
<1> USE SearchAssumption
<1> DEFINE A == {k \in S : k >= i}
           B == {k \in T : k >= i}
<1>1. A \in SUBSET B /\ B \in SUBSET Items
  OBVIOUS
<1> HIDE DEF A, B
<1>2. IsFiniteSet(B)
  BY <1>1, FS_Subset
<1>3. Cardinality(A) <= Cardinality(B)
  BY <1>1, <1>2, FS_Subset
<1> QED
  BY <1>3 DEF Place, A, B
\* What is found are items.
LEMMA FoundAreItems == ASSUME NEW q PROVE Found(q) \in SUBSET Items
  BY DEF Found, Reachable

\* What is found depends on the query and the catalog alone.
LEMMA FoundStays ==
  ASSUME UNCHANGED <<status, asked>>, query' = query
  PROVE  Found(query)' = Found(query)
  BY DEF Found, Reachable, Resolved, HasStoreFilter, Needs, Covers, Day, ScheduleOf, Matches, BundleMatches

\* ... of the query that the walk begins with
LEMMA FoundBegins ==
  ASSUME NEW q, UNCHANGED <<status, asked>>, query' = q
  PROVE  Found(query)' = Found(q)
  BY DEF Found, Reachable, Resolved, HasStoreFilter, Needs, Covers, Day, ScheduleOf, Matches, BundleMatches

-----------------------------------------------------------------------------
\* The smaller of two numbers.
LEMMA SmallerOfTwo ==
  ASSUME NEW a \in Int, NEW b \in Int
  PROVE  Min({a, b}) \in {a, b} /\ Min({a, b}) <= a /\ Min({a, b}) <= b
<1>1. \E x \in {a, b} : \A y \in {a, b} : x <= y
  <2>1. a <= b \/ b <= a
    OBVIOUS
  <2>2. CASE a <= b
    BY <2>2
  <2>3. CASE b <= a
    BY <2>3
  <2> QED
    BY <2>1, <2>2, <2>3
<1> QED
  BY <1>1 DEF Min

\* A page: the items at the next places.
LEMMA PageShows ==
  ASSUME NEW q, NEW from \in Nat
  PROVE  /\ Page(q, from) \in Seq(Items)
         /\ \A n \in DOMAIN Page(q, from) :
              /\ Page(q, from)[n] \in Found(q)
              /\ Place(Page(q, from)[n], Found(q)) = from + n
              /\ n \in 1 .. Limit
         /\ \A i \in Found(q) : Place(i, Found(q)) \in from + 1 .. from + Limit => i \in Range(Page(q, from))
<1> USE SearchAssumption
<1> DEFINE F == Found(q)
           At(n) == CHOOSE i \in F : Place(i, F) = from + n
           last == Min({Limit, Cardinality(F) - from})
<1>1. F \in SUBSET Items
  BY FoundAreItems
<1>2. IsFiniteSet(F) /\ Cardinality(F) \in Nat
  <2> HIDE DEF F
  <2> QED
    BY <1>1, FS_Subset, FS_CardinalityType
<1>3. Page(q, from) = [n \in 1 .. last |-> At(n)]
  BY DEF Page
<1> HIDE DEF F
<1>4. last \in Int /\ last <= Limit /\ from + last <= Cardinality(F) /\ last \in {Limit, Cardinality(F) - from}
  <2> DEFINE rest == Cardinality(F) - from
  <2>1. rest \in Int /\ Limit \in Int
    BY <1>2
  <2> HIDE DEF rest
  <2>2. Min({Limit, rest}) \in {Limit, rest} /\ Min({Limit, rest}) <= Limit /\ Min({Limit, rest}) <= rest
    BY <2>1, SmallerOfTwo
  <2>3. last \in {Limit, rest} /\ last <= Limit /\ last <= rest
    BY <2>2 DEF rest
  <2> HIDE DEF last
  <2> QED
    BY <1>2, <2>1, <2>3 DEF rest
<1> HIDE DEF last
<1>5. ASSUME NEW n \in 1 .. last PROVE At(n) \in F /\ Place(At(n), F) = from + n
  <2>1. from + n \in 1 .. Cardinality(F)
    BY <1>2, <1>4, <1>5
  <2> QED
    BY <1>1, <2>1, PlacesAreFilled
<1>6. ASSUME NEW i \in F, Place(i, F) \in from + 1 .. from + Limit
      PROVE  Place(i, F) - from \in 1 .. last /\ i = At(Place(i, F) - from)
  <2>1. Place(i, F) \in 1 .. Cardinality(F)
    BY <1>1, PlacesAreCounted
  <2>2. Place(i, F) - from \in 1 .. last
    BY <1>2, <1>4, <1>6, <2>1
  <2>3. Place(At(Place(i, F) - from), F) = Place(i, F) /\ At(Place(i, F) - from) \in F
    <3> DEFINE n == Place(i, F) - from
    <3>1. from + n = Place(i, F)
      BY <2>1
    <3> HIDE DEF n
    <3>2. Place(At(n), F) = from + n /\ At(n) \in F
      BY <1>5, <2>2 DEF n
    <3> QED
      BY <3>1, <3>2 DEF n
  <2> QED
    BY <1>1, <1>6, <2>2, <2>3, PlacesAreUnique
<1> HIDE DEF At
<1>7. Page(q, from) \in Seq(Items)
  <2>1. last \in Nat \/ 1 .. last = 1 .. 0
    BY <1>4
  <2>2. \E m \in Nat : 1 .. last = 1 .. m
    BY <2>1
  <2>3. \A n \in 1 .. last : At(n) \in Items
    BY <1>1, <1>5
  <2>4. PICK m \in Nat : 1 .. last = 1 .. m
    BY <2>2
  <2>5. Page(q, from) \in [1 .. m -> Items]
    <3>1. [n \in 1 .. last |-> At(n)] \in [1 .. last -> Items]
      BY <2>3
    <3> QED
      BY <1>3, <2>4, <3>1
  <2> QED
    BY <2>5
<1>8. \A n \in DOMAIN Page(q, from) : n \in 1 .. last /\ n \in 1 .. Limit /\ Page(q, from)[n] = At(n)
  BY <1>3, <1>4
<1>9. ASSUME NEW i \in F, Place(i, F) \in from + 1 .. from + Limit PROVE i \in Range(Page(q, from))
  BY <1>3, <1>6, <1>9 DEF Range
<1> QED
  BY <1>5, <1>7, <1>8, <1>9 DEF F
-----------------------------------------------------------------------------
\* The walk has seen items, none before it begins.
WalkTypes ==
  /\ seen \in Seq(Items)
  /\ offset \in Nat \cup {Absent}
  /\ query = Absent => seen = <<>> /\ offset = Absent

\* What was found all along is still found, and was seen or is on a page to come.
MissedNothing ==
  query # Absent =>
    /\ offset # Absent => stayed \subseteq Found(query)
    /\ ~left => \A i \in stayed : i \in Range(seen) \/ (offset # Absent /\ Place(i, Found(query)) > offset)

\* What was seen is on no page to come.
RepeatedNothing ==
  ~joined =>
    /\ IsInjective(seen)
    /\ offset # Absent => \A i \in Range(seen) \cap Found(query) : Place(i, Found(query)) <= offset

WalkInv == WalkTypes /\ MissedNothing /\ RepeatedNothing

-----------------------------------------------------------------------------
\* The end of a walk is no offset.
LEMMA AbsentIsNoNumber == Absent \notin Nat
  BY HoursAssumption

\* BeginWalk: everything is on a page to come.
LEMMA BeginStep == ASSUME WalkInv, NEW q \in Queries, BeginWalk(q) PROVE WalkInv'
<1> USE SearchAssumption, QueriesAssumption
<1>1. Found(query)' = Found(q)
  BY FoundBegins DEF BeginWalk
<1>2. /\ seen = <<>> /\ seen' = <<>> /\ offset' = 0 /\ stayed' = Found(q) /\ query' # Absent
      /\ Range(seen) = {} /\ IsInjective(seen)
  BY DEF BeginWalk, WalkInv, WalkTypes, Range, IsInjective
<1>3. \A i \in Found(q) : Place(i, Found(q)) > 0
  <2> DEFINE F == Found(q)
  <2>1. F \in SUBSET Items
    BY FoundAreItems
  <2> HIDE DEF F
  <2>2. \A i \in F : Place(i, F) \in 1 .. Cardinality(F)
    BY <2>1, PlacesAreCounted
  <2>3. \A i \in F : Place(i, F) > 0
    BY <2>2
  <2> QED
    BY <2>3 DEF F
<1>4. WalkTypes'
  BY <1>2 DEF WalkTypes
<1>5. MissedNothing'
  <2>1. offset' # Absent /\ \A i \in stayed' : Place(i, Found(q)) > offset'
    BY <1>2, <1>3, AbsentIsNoNumber
  <2> QED
    BY <1>1, <1>2, <2>1 DEF MissedNothing
<1>6. RepeatedNothing'
  <2>1. Range(seen') = {} /\ IsInjective(seen')
    BY <1>2
  <2> QED
    BY <2>1 DEF RepeatedNothing
<1> QED
  BY <1>4, <1>5, <1>6 DEF WalkInv
\* There are finitely many results.
LEMMA FoundAreCounted == ASSUME NEW q PROVE Cardinality(Found(q)) \in Nat
<1> DEFINE F == Found(q)
<1>1. F \in SUBSET Items
  BY FoundAreItems
<1> HIDE DEF F
<1>2. Cardinality(F) \in Nat
  BY <1>1, SearchAssumption, FS_Subset, FS_CardinalityType
<1> QED
  BY <1>2 DEF F

\* The next page.
LEMMA PageStep == ASSUME WalkInv, NextPage PROVE WalkInv'
<1> USE SearchAssumption, AbsentIsNoNumber
<1> DEFINE F == Found(query)
           page == Page(query, offset)
<1>1. /\ query # Absent /\ offset \in Nat /\ seen \in Seq(Items)
      /\ query' = query /\ seen' = seen \o page /\ offset' = NextOffset(query, offset)
      /\ UNCHANGED <<stayed, joined, left>>
  BY DEF NextPage, WalkInv, WalkTypes
<1>2. Found(query)' = F
  BY FoundStays DEF NextPage
<1>3. F \in SUBSET Items
  BY FoundAreItems
<1>4. /\ page \in Seq(Items)
      /\ \A n \in DOMAIN page : page[n] \in F /\ Place(page[n], F) = offset + n /\ n \in 1 .. Limit
      /\ \A i \in F : Place(i, F) \in offset + 1 .. offset + Limit => i \in Range(page)
  <2> QED
    BY <1>1, PageShows
<1>5. IF offset + Limit < Cardinality(F) THEN offset' = offset + Limit ELSE offset' = Absent
  BY <1>1 DEF NextOffset
<1> HIDE DEF F, page
<1>6. \A i \in F : Place(i, F) \in 1 .. Cardinality(F)
  BY <1>3, PlacesAreCounted
<1>0. Cardinality(F) \in Nat
  BY FoundAreCounted DEF F
<1>7. /\ \A n \in DOMAIN seen : seen'[n] = seen[n] /\ n \in DOMAIN seen'
      /\ \A n \in DOMAIN page : seen'[Len(seen) + n] = page[n] /\ Len(seen) + n \in DOMAIN seen'
      /\ \A n \in DOMAIN seen' : n \in DOMAIN seen \/ n - Len(seen) \in DOMAIN page
      /\ seen' \in Seq(Items) /\ Len(seen) \in Nat
  <2>1. seen' = seen \o page /\ seen \in Seq(Items) /\ page \in Seq(Items)
    BY <1>1, <1>4
  <2> QED
    BY <2>1
<1>8. Range(seen') = Range(seen) \cup Range(page)
  <2>1. \A x \in Range(seen') : x \in Range(seen) \cup Range(page)
    <3> SUFFICES ASSUME NEW n \in DOMAIN seen' PROVE seen'[n] \in Range(seen) \cup Range(page)
      BY DEF Range
    <3>1. CASE n \in DOMAIN seen
      BY <1>7, <3>1 DEF Range
    <3>2. CASE n - Len(seen) \in DOMAIN page
      <4>1. seen'[Len(seen) + (n - Len(seen))] = page[n - Len(seen)]
        BY <1>7, <3>2
      <4>2. Len(seen) + (n - Len(seen)) = n
        BY <1>7
      <4> QED
        BY <3>2, <4>1, <4>2 DEF Range
    <3> QED
      BY <1>7, <3>1, <3>2
  <2>2. \A x \in Range(seen) : x \in Range(seen')
    BY <1>7 DEF Range
  <2>3. \A x \in Range(page) : x \in Range(seen')
    BY <1>7 DEF Range
  <2> QED
    BY <2>1, <2>2, <2>3
<1>9. WalkTypes'
  BY <1>1, <1>5, <1>7 DEF WalkTypes
<1>10. MissedNothing'
  <2>1. stayed \subseteq F /\ (~left => \A i \in stayed : i \in Range(seen) \/ Place(i, F) > offset)
    BY <1>1 DEF WalkInv, MissedNothing, F
  <2>2. ASSUME ~left, NEW i \in stayed, i \notin Range(seen')
        PROVE  offset' # Absent /\ Place(i, F) > offset'
    <3>1. i \in F /\ Place(i, F) > offset /\ i \notin Range(page)
      BY <1>8, <2>1, <2>2
    <3>2. Place(i, F) \in 1 .. Cardinality(F) /\ Place(i, F) \notin offset + 1 .. offset + Limit
      BY <1>4, <1>6, <3>1
    <3>3. Place(i, F) > offset + Limit /\ offset + Limit < Cardinality(F)
      BY <1>1, <1>0, <3>1, <3>2
    <3>4. offset' = offset + Limit /\ offset' # Absent
      BY <1>1, <1>5, <3>3
    <3> QED
      BY <3>3, <3>4
  <2> QED
    BY <1>1, <1>2, <2>1, <2>2 DEF MissedNothing
<1>11. RepeatedNothing'
  <2> SUFFICES ASSUME ~joined
               PROVE  /\ IsInjective(seen')
                      /\ offset' # Absent => \A i \in Range(seen') \cap F : Place(i, F) <= offset'
    BY <1>1, <1>2 DEF RepeatedNothing
  <2>1. IsInjective(seen) /\ \A i \in Range(seen) \cap F : Place(i, F) <= offset
    BY <1>1 DEF WalkInv, RepeatedNothing, F
  <2>2. \A n \in DOMAIN page : page[n] \notin Range(seen)
    <3> SUFFICES ASSUME NEW n \in DOMAIN page, page[n] \in Range(seen) PROVE FALSE
      OBVIOUS
    <3>1. Place(page[n], F) <= offset /\ Place(page[n], F) = offset + n /\ n \in 1 .. Limit
      BY <1>4, <2>1
    <3> QED
      BY <1>1, <3>1
  <2>3. \A n, m \in DOMAIN page : page[n] = page[m] => n = m
    <3> SUFFICES ASSUME NEW n \in DOMAIN page, NEW m \in DOMAIN page, page[n] = page[m] PROVE n = m
      OBVIOUS
    <3>1. offset + n = offset + m /\ n \in 1 .. Limit /\ m \in 1 .. Limit
      BY <1>4
    <3> QED
      BY <1>1, <3>1
  <2>4. IsInjective(seen')
    <3> SUFFICES ASSUME NEW n \in DOMAIN seen', NEW m \in DOMAIN seen', seen'[n] = seen'[m] PROVE n = m
      BY DEF IsInjective
    <3> DEFINE N == n - Len(seen)
               M == m - Len(seen)
    <3>1. n \in DOMAIN seen \/ N \in DOMAIN page
      BY <1>7
    <3>2. m \in DOMAIN seen \/ M \in DOMAIN page
      BY <1>7
    <3>3. n = Len(seen) + N /\ m = Len(seen) + M
      BY <1>7
    <3> HIDE DEF N, M
    <3>4. CASE n \in DOMAIN seen /\ m \in DOMAIN seen
      BY <1>7, <2>1, <3>4 DEF IsInjective
    <3>5. CASE n \in DOMAIN seen /\ M \in DOMAIN page
      BY <1>7, <2>2, <3>3, <3>5 DEF Range
    <3>6. CASE N \in DOMAIN page /\ m \in DOMAIN seen
      BY <1>7, <2>2, <3>3, <3>6 DEF Range
    <3>7. CASE N \in DOMAIN page /\ M \in DOMAIN page
      BY <1>7, <2>3, <3>3, <3>7
    <3> QED
      BY <3>1, <3>2, <3>4, <3>5, <3>6, <3>7
  <2>5. ASSUME offset' # Absent, NEW i \in Range(seen') \cap F PROVE Place(i, F) <= offset'
    <3>1. offset' = offset + Limit
      BY <1>5, <2>5
    <3>2. Place(i, F) \in Nat
      BY <1>6
    <3>3. CASE i \in Range(seen)
      BY <1>1, <2>1, <3>1, <3>2, <3>3
    <3>4. CASE i \in Range(page)
      <4>1. PICK n \in DOMAIN page : i = page[n]
        BY <3>4 DEF Range
      <4> QED
        BY <1>1, <1>4, <3>1, <4>1
    <3> QED
      BY <1>8, <3>3, <3>4
  <2> QED
    BY <2>4, <2>5
<1> QED
  BY <1>9, <1>10, <1>11 DEF WalkInv

\* A change of the catalog.
LEMMA ObserveStep == ASSUME WalkInv, Observe PROVE WalkInv'
<1> USE SearchAssumption, AbsentIsNoNumber
<1> DEFINE F == Found(query)
           G == Found(query)'
<1>1. /\ query # Absent /\ offset \in Nat /\ offset # Absent /\ UNCHANGED <<query, offset, seen>>
      /\ stayed' = stayed \cap G
      /\ ~joined' => ~joined /\ G \subseteq F
      /\ ~left' => ~left /\ F \subseteq G
  BY DEF Observe, WalkInv, WalkTypes
<1>2. F \in SUBSET Items
  BY FoundAreItems
<1>3. G \in SUBSET Items
  BY DEF Found, Reachable
<1> HIDE DEF F
<1>4. WalkTypes'
  BY <1>1 DEF WalkInv, WalkTypes
<1>5. MissedNothing'
  <2>1. /\ stayed \subseteq F
        /\ ~left => \A i \in stayed : i \in Range(seen) \/ Place(i, F) > offset
    BY <1>1 DEF WalkInv, MissedNothing, F
  <2>2. ASSUME ~left', NEW i \in stayed', i \notin Range(seen') PROVE offset' # Absent /\ Place(i, G) > offset'
    <3> HIDE DEF G
    <3>1. i \in F /\ F \in SUBSET G /\ G \in SUBSET Items /\ Place(i, F) > offset
      BY <1>1, <1>3, <2>1, <2>2
    <3>2. Place(i, F) <= Place(i, G)
      BY <3>1, PlacesGrow
    <3>3. Place(i, F) \in 1 .. Cardinality(F) /\ Place(i, G) \in 1 .. Cardinality(G)
      BY <1>2, <3>1, PlacesAreCounted
    <3> QED
      BY <1>1, <3>1, <3>2, <3>3
  <2> QED
    BY <1>1, <2>2 DEF MissedNothing
<1>6. RepeatedNothing'
  <2>1. ~joined' => IsInjective(seen')
    BY <1>1 DEF WalkInv, RepeatedNothing
  <2>2. ASSUME ~joined', NEW i \in Range(seen') \cap G PROVE Place(i, G) <= offset'
    <3> HIDE DEF G
    <3>1. i \in G /\ G \in SUBSET F
      BY <1>1, <2>2
    <3>2. Place(i, F) <= offset
      BY <1>1, <2>2, <3>1 DEF WalkInv, RepeatedNothing, F
    <3>3. Place(i, G) <= Place(i, F)
      BY <1>2, <3>1, PlacesGrow
    <3>4. Place(i, F) \in 1 .. Cardinality(F) /\ Place(i, G) \in 1 .. Cardinality(G)
      BY <1>2, <1>3, <3>1, PlacesAreCounted
    <3> QED
      BY <1>1, <3>2, <3>3, <3>4
  <2> QED
    BY <2>1, <2>2 DEF RepeatedNothing
<1> QED
  BY <1>4, <1>5, <1>6 DEF WalkInv

\* WalkInv holds in every reachable state.
LEMMA WalkKept == Spec => []WalkInv
<1>1. Init => WalkInv
  BY DEF Init, WalkInv, WalkTypes, MissedNothing, RepeatedNothing, IsInjective
<1>2. WalkInv /\ [Next]_vars => WalkInv'
  <2> SUFFICES ASSUME WalkInv, [Next]_vars PROVE WalkInv'
    OBVIOUS
  <2>1. CASE UNCHANGED vars
    <3>1. Found(query)' = Found(query)
      BY <2>1, FoundStays DEF vars
    <3> QED
      BY <2>1, <3>1 DEF vars, WalkInv, WalkTypes, MissedNothing, RepeatedNothing
  <2>2. CASE Next
    BY <2>2, BeginStep, PageStep, ObserveStep DEF Next, ChangeStatus, ChangeHours, RemoveStore
  <2> QED
    BY <2>1, <2>2
<1> QED
  BY <1>1, <1>2, PTL DEF Spec

\* nextPage: for any catalog, page size and number of changes, a walk to the last page has shown
\* everything that was found all along, unless something disappeared.
THEOREM WalkMissesNothingAlways == Spec => []WalkMissesNothing
<1>1. WalkInv => WalkMissesNothing
  BY DEF WalkInv, MissedNothing, WalkMissesNothing
<1> QED
  BY <1>1, WalkKept, PTL

\* ... and nothing twice, unless something new was found.
THEOREM WalkRepeatsNothingAlways == Spec => []WalkRepeatsNothing
<1>1. WalkInv => WalkRepeatsNothing
  BY DEF WalkInv, RepeatedNothing, WalkRepeatsNothing
<1> QED
  BY <1>1, WalkKept, PTL
===============================================================================
