-------------------------------- MODULE Search --------------------------------
(***************************************************************************)
(* POST /v1/search: client/search/search.service.ts over the catalog and   *)
(* the opening hours of Hours.                                             *)
(*                                                                         *)
(* A search stores nothing: every page is computed from the catalog of the *)
(* moment, and the client walks the pages by offset while providers open,  *)
(* close and delete items, change hours and remove stores.  The reads of   *)
(* one page are one step, and what categorizes an item does not change.    *)
(* Items are numbered in the order of their creation, at different times.  *)
(* X_Y is a mutation of X.                                                 *)
(***************************************************************************)
EXTENDS Hours, Functions, SequencesExt

CONSTANTS Products,    \* numbers of products
          Bundles,     \* numbers of bundles
          Members,     \* the products of each bundle
          Category,    \* the category of each product
          BundleCategory,  \* BUNDLE_CATEGORY
          Types,       \* what MongoDB's $in finds in the attributes of TYPE_ATTRIBUTE_KEYS
          Accessories, \* ... and in attributes.accessories
          ReadTypes,   \* what matchesTypes reads in them: the values that are strings
          ReadAccessories, \* what matchesAccessories reads: the members of an array
          StoreOf,     \* the store of each item
          Country,     \* the country of each store
          Cities,      \* the texts in each store's address
          Bodies,      \* schedules that providers send
          Openings,    \* hours that the stores begin with
          Queries,     \* what clients search for
          Limit,       \* items on a page
          MaxChanges,  \* how often providers change something during a walk
          MaxPickupIntervals, MaxDeliveryIntervals

Items == Products \cup Bundles
Stores == {StoreOf[i] : i \in Items}
Services == {"delivery", "customer_pickup"}
MaxIntervals(service) == IF service = "delivery" THEN MaxDeliveryIntervals ELSE MaxPickupIntervals

\* What the stores' schedules were built from.
AcceptedBodies(service) == {dto \in Bodies : Accepted(dto, MaxIntervals(service))} \cup {Absent}

ASSUME SearchAssumption ==
  /\ IsFiniteSet(Items) /\ Items \subseteq Nat /\ Products \cap Bundles = {}
  /\ Members \in [Bundles -> SUBSET Products]
  /\ \A f \in {Category, Types, Accessories, ReadTypes, ReadAccessories} : DOMAIN f = Products
  /\ DOMAIN Country = Stores /\ DOMAIN Cities = Stores
  /\ \A dto \in Bodies : \E D \in SUBSET Weekdays : dto \in Dto(D)
  /\ \A hours \in Openings :
       /\ hours \in [Stores -> [Services -> Bodies \cup {Absent}]]
       /\ \A s \in Stores, service \in Services : hours[s][service] \in AcceptedBodies(service)
  /\ Limit \in Nat \ {0} /\ MaxChanges \in Nat
  /\ Absent \notin Stores \cup Items

\* SearchBodyDto
Handoffs == [type: Services, time: Nat \cup {Absent}]
Periods == [start: Nat, end: Nat]

ASSUME QueriesAssumption ==
  /\ Absent \notin Queries
  /\ \A q \in Queries :
       /\ DOMAIN q = {"country", "city", "categories", "period", "acquisition", "devolution"}
       /\ \A c \in q.categories : DOMAIN c = {"name", "types", "accessories"}
       /\ q.period \in Periods \cup {Absent}
       /\ {q.acquisition, q.devolution} \subseteq Handoffs \cup {Absent}

VARIABLES status,  \* MongoDB: "available", "closed" for any other status, Absent when deleted
          asked,   \* MongoDB: what each schedule was built from; Absent for a removed store
          query,   \* the search the client walks, Absent before
          offset,  \* where the next page begins, Absent after the last
          seen,    \* the items of the pages so far
          stayed,  \* history: what the search has found at every moment of the walk
          joined,  \* history: whether something was found anew during the walk
          left,    \* history: whether something was found no more
          changes  \* how often the catalog has changed during the walk

vars == <<status, asked, query, offset, seen, stayed, joined, left, changes>>

-----------------------------------------------------------------------------
ScheduleOf(s, service) == IF asked[s][service] = Absent THEN Absent ELSE Schedule(asked[s][service])

\* handoffNeeds
Needs(q, service) == \E h \in {q.acquisition, q.devolution} : h # Absent /\ h.type = service

Day(q, date) == IF q.period = Absent THEN Absent ELSE DayKey(q.period[date])

\* storeCoversHandoff; a handoff of the other type, or none, does not matter.
Covers(s, service, handoff, day) ==
  handoff # Absent /\ handoff.type = service => CoversHandoff(ScheduleOf(s, service), handoff.time, day)

HasStoreFilter(q) == q.country # Absent \/ q.city # Absent \/ \E service \in Services : Needs(q, service)

\* resolveStoreIds
Resolved(q) ==
  {s \in Stores :
    /\ asked[s] # Absent
    /\ q.country # Absent => Country[s] = q.country
    /\ q.city # Absent => q.city \in Cities[s]
    /\ \A service \in Services :
         /\ Covers(s, service, q.acquisition, Day(q, "start"))
         /\ Covers(s, service, q.devolution, Day(q, "end"))}

Reachable_EmptyIsAny(q) == {i \in Items : Resolved(q) # {} => StoreOf[i] \in Resolved(q)}

\* storeIds: the items of these stores, or of any when nothing restricts them
Reachable(q) == {i \in Items : HasStoreFilter(q) => StoreOf[i] \in Resolved(q)}

Meets(types, accessories, c) ==
  /\ c.types # {} => types \cap c.types # {}
  /\ c.accessories # {} => accessories \cap c.accessories # {}

\* productCategoryClause, which MongoDB evaluates
ProductMatches(p, c) == Category[p] = c.name /\ Meets(Types[p], Accessories[p], c)

\* matchesTypes and matchesAccessories, which the service evaluates for the members of
\* a bundle; attributes are free-form, and other shapes than these match nothing.
MemberMatches(p, c) == Category[p] = c.name /\ Meets(ReadTypes[p], ReadAccessories[p], c)

\* buildBundleCategories, when the bundle was saved
BundleCategories(b) == {BundleCategory} \cup {Category[p] : p \in Members[b]}

\* bundleMatches: by name alone, or with a member that exists and matches
BundleMatches(b, c) ==
  /\ c.name \in BundleCategories(b)
  /\ \/ c.types = {} /\ c.accessories = {}
     \/ \E p \in Members[b] : status[p] # Absent /\ MemberMatches(p, c)

Matches(i, q) ==
  q.categories # {} => \E c \in q.categories : IF i \in Products THEN ProductMatches(i, c) ELSE BundleMatches(i, c)

\* productFilter and bundleFilter; an item whose store is gone is not shown.
Found(q) ==
  {i \in Reachable(q) : status[i] = "available" /\ Matches(i, q) /\ asked[StoreOf[i]] # Absent}

\* The newest first: an item's place among the found ones.
Place(i, found) == Cardinality({j \in found : j >= i})

Page(q, from) ==
  LET found == Found(q) IN
  [n \in 1 .. Min({Limit, Cardinality(found) - from}) |-> CHOOSE i \in found : Place(i, found) = from + n]

NextOffset_SkipsOne(q, from) == IF from + Limit + 1 < Cardinality(Found(q)) THEN from + Limit + 1 ELSE Absent
NextOffset_Overlaps(q, from) == IF from + Limit < Cardinality(Found(q)) THEN from + Limit - 1 ELSE Absent
NextOffset(q, from) == IF from + Limit < Cardinality(Found(q)) THEN from + Limit ELSE Absent

-----------------------------------------------------------------------------
\* assertRentalPeriod refuses a period that ends before it starts.
BeginWalk(q) ==
  /\ query = Absent
  /\ q.period # Absent => q.period.start <= q.period.end
  /\ query' = q
  /\ offset' = 0
  /\ stayed' = Found(q)
  /\ UNCHANGED <<status, asked, seen, joined, left, changes>>

\* search: one page
NextPage ==
  /\ query # Absent /\ offset # Absent
  /\ seen' = seen \o Page(query, offset)
  /\ offset' = NextOffset(query, offset)
  /\ UNCHANGED <<status, asked, query, stayed, joined, left, changes>>

\* What a change of the catalog does to the results of the walk.
Observe ==
  /\ query # Absent /\ offset # Absent
  /\ changes < MaxChanges
  /\ UNCHANGED <<query, offset, seen>>
  /\ changes' = changes + 1
  /\ stayed' = stayed \cap Found(query)'
  /\ joined' = (joined \/ ~(Found(query)' \subseteq Found(query)))
  /\ left' = (left \/ ~(Found(query) \subseteq Found(query)'))

\* Providers and admins; an item that is new is one that opens, the newest of all.
ChangeStatus(i, s) ==
  /\ status[i] # Absent /\ status[i] # s
  /\ status' = [status EXCEPT ![i] = s]
  /\ UNCHANGED asked
  /\ Observe

\* updateDelivery and updateCustomerPickup.  (That a change of the delivery prices may
\* write back the hours it loaded is in Stores.)
ChangeHours(s, service, dto) ==
  /\ asked[s] # Absent
  /\ Accepted(dto, MaxIntervals(service))
  /\ asked' = [asked EXCEPT ![s][service] = dto]
  /\ UNCHANGED status
  /\ Observe

\* StoreService.remove leaves the store's items.
RemoveStore(s) ==
  /\ asked[s] # Absent
  /\ asked' = [asked EXCEPT ![s] = Absent]
  /\ UNCHANGED status
  /\ Observe

-----------------------------------------------------------------------------
\* Any catalog.
Init ==
  /\ status \in [Items -> {"available", "closed", Absent}]
  /\ asked \in Openings
  /\ query = Absent
  /\ offset = Absent
  /\ seen = <<>>
  /\ stayed = {}
  /\ joined = FALSE
  /\ left = FALSE
  /\ changes = 0

Next ==
  \/ \E q \in Queries : BeginWalk(q)
  \/ NextPage
  \/ \E i \in Items, s \in {"available", "closed", Absent} : ChangeStatus(i, s)
  \/ \E s \in Stores, service \in Services, dto \in Bodies : ChangeHours(s, service, dto)
  \/ \E s \in Stores : RemoveStore(s)

Spec == Init /\ [][Next]_vars

-----------------------------------------------------------------------------
\* "nextPage": a walk to the last page has shown everything that the search found
\* all along, although items opened, changed hours or moved in between, as long as
\* nothing that was found disappeared.
WalkMissesNothing == query # Absent /\ offset = Absent /\ ~left => stayed \subseteq Range(seen)

\* ... and nothing twice, although items disappeared in between, as long as nothing
\* new was found.
WalkRepeatsNothing == ~joined => IsInjective(seen)

\* What the provider entered: whether the service is open at a time of a weekday.
\* Days matter only if one of them names an interval.
Open(dto, day, time) ==
  /\ dto # Absent /\ dto.available
  /\ time = Absent \/ dto.available24h
     \/ \E k \in DOMAIN dto.ranges :
          /\ time \in dto.ranges[k].from .. dto.ranges[k].to
          /\ \/ day = Absent \/ dto.days = Absent
             \/ \A d \in DOMAIN dto.days : dto.days[d] = {}
             \/ day \in DOMAIN dto.days /\ k - 1 \in dto.days[day]

Serves(s, handoff, day) == handoff # Absent => Open(asked[s][handoff.type], day, handoff.time)

Weekday(date) == IF query.period = Absent THEN Absent ELSE query.period[date] % 7

\* Through the validation and the storing of a schedule and its reading: a client
\* sees the items of exactly those stores that, by what the provider entered, are
\* open for the handover on the weekday of the first day of the rental and for the
\* return on that of the last.
ShownStoresAreOpen ==
  query # Absent => \A i \in Items :
    LET s == StoreOf[i] IN
    status[i] = "available" /\ Matches(i, query) /\ asked[s] # Absent
      /\ query.country \in {Absent, Country[s]} /\ query.city \in Cities[s] \cup {Absent}
    => (i \in Found(query)
          <=> Serves(s, query.acquisition, Weekday("start")) /\ Serves(s, query.devolution, Weekday("end")))

\* The same search without one of its criteria
Broader(q) ==
  {[q EXCEPT !.country = Absent, !.city = Absent], [q EXCEPT !.city = Absent],
   [q EXCEPT !.categories = {}], [q EXCEPT !.period = Absent],
   [q EXCEPT !.acquisition = Absent], [q EXCEPT !.devolution = Absent]}
  \cup {[q EXCEPT !.categories = {[c EXCEPT !.types = {}] : c \in @}]}
  \cup (IF q.acquisition = Absent THEN {} ELSE {[q EXCEPT !.acquisition.time = Absent]})
  \cup (IF q.devolution = Absent THEN {} ELSE {[q EXCEPT !.devolution.time = Absent]})

\* "null = no restringir por store, [] = el filtro no matchea ninguna": a criterion
\* more never shows an item more, neither of a place, a category nor a handover.
NarrowingShowsNoMore ==
  query # Absent => \A broader \in Broader(query) : Found(query) \subseteq Found(broader)
===============================================================================
