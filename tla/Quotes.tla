--------------------------------- MODULE Quotes ---------------------------------
(***************************************************************************)
(* What a client is asked to pay: the answer of GET /v1/cart               *)
(* (client/cart/cart.service.ts) over the prices that providers set        *)
(* (provider/product/product-price.ts).                                    *)
(*                                                                         *)
(* The cart holds one line per item and one handoff per store.  Nothing of *)
(* the answer is stored: the cart, the bundles and the products are loaded *)
(* one after the other, at an await each, and the answer is computed from  *)
(* what was found, while the catalog and the cart go on changing.          *)
(* Prices are thousandths of a euro, so that a price with more than two    *)
(* decimals exists; the amounts of an answer are cents.  A date is the     *)
(* number of its day: ISO strings compare as dates do, and days of UTC     *)
(* have the same length.  Invalid dates, which are refused, are left out.  *)
(***************************************************************************)
EXTENDS Integers, FiniteSets, FiniteSetsExt

CONSTANTS Products,   \* products in the cart
          Bundles,    \* bundles in the cart
          Members,    \* the products of each bundle
          StoreOf,    \* the store of each item
          Priced,     \* the items whose prices change
          Prices,     \* prices a provider sets
          BasePrice,  \* delivery prices of the stores, in cents
          Dates,      \* days
          Editors,    \* requests that patch a price
          MaxChanges, \* bound on the changes of the catalog and the cart
          Absent,     \* an optional value that is missing
          Null        \* JSON null

Items == Products \cup Bundles
QuotedStores == {StoreOf[i] : i \in Items}
Statuses == {"available", "rented"}
Optional(S) == S \cup {Absent}

ASSUME QuotesAssumption ==
  /\ Products \cap Bundles = {}
  /\ IsFiniteSet(Items)
  /\ DOMAIN StoreOf = Items /\ BasePrice \in [QuotedStores -> Nat]
  /\ Priced \subseteq Items
  /\ Members \in [Bundles -> SUBSET Products]
  /\ Prices \subseteq Nat /\ Dates \subseteq Nat
  \* a double next to half a cent may round either way
  /\ \A a \in Prices, from, until \in Dates : from <= until => (a * (until - from + 1)) % 10 # 5
  /\ Absent \notin Prices \cup Dates /\ Null \notin Prices \cup Dates
  /\ MaxChanges \in Nat
  /\ Absent \notin Statuses

\* An offer and its dates come and go together.
Offer == [offer: Prices, from: Dates, until: Dates] \cup [offer: {Absent}, from: {Absent}, until: {Absent}]
Price == {[list |-> a, offer |-> o.offer, from |-> o.from, until |-> o.until] : a \in Prices, o \in Offer}
Patch == [list: Optional(Prices), offer: Optional(Prices) \cup {Null},
          from: Optional(Dates), until: Optional(Dates)]
Document == [price: Price, status: Optional(Statuses)]
Periods == {p \in [start: Dates, end: Dates] : p.start <= p.end}

VARIABLES price,     \* MongoDB: the price of each item
          status,    \* MongoDB: the status of each item, Absent when it was deleted
          period,    \* MongoDB: the cart's first and last day, Absent when there is none
          delivery,  \* MongoDB: stores whose acquisition is a delivery
          edit,      \* the price each editor loaded and its patch, Absent when there is none
          changes    \* number of changes so far

\* What the request for the cart has loaded, Absent before that: toResponse's `cart`,
\* `bundles` and `products`.  The answer is given once it has all three.
VARIABLES cart, bundles, products

loaded == <<cart, bundles, products>>
quoteVars == <<price, status, period, delivery, edit, changes, loaded>>

Answered == products # Absent

\* An answer that was given is over when something is written.
Over ==
  /\ cart' = IF Answered THEN Absent ELSE cart
  /\ bundles' = IF Answered THEN Absent ELSE bundles
  /\ products' = Absent

Counted == changes < MaxChanges /\ changes' = changes + 1

-----------------------------------------------------------------------------
Or(value, default) == IF value = Absent THEN default ELSE value

Merged(p, patch) ==
  LET offer == Or(patch.offer, p.offer) IN
  [list |-> Or(patch.list, p.list), offer |-> offer,
   from |-> IF offer = Absent THEN Absent ELSE Or(patch.from, p.from),
   until |-> IF offer = Absent THEN Absent ELSE Or(patch.until, p.until)]

\* normalizePrice: an offer is below the list price and has dates in order; a
\* missing date throws.
Valid(p) ==
  p.offer # Absent =>
    /\ p.offer <= p.list
    /\ p.from # Absent /\ p.until # Absent
    /\ p.from <= p.until

WithoutOffer(p, patch) == [list |-> Or(patch.list, p.list), offer |-> Absent, from |-> Absent, until |-> Absent]

\* mergePrice
Patched(p, patch) == IF patch.offer = Null THEN WithoutOffer(p, patch) ELSE Merged(p, patch)

\* update, of a product or a bundle: load it and merge the patch; an invalid price is
\* refused.  What else the update checks and changes is Catalog's.
BeginPatch(e, i, patch) ==
  LET new == Patched(price[i], patch) IN
  /\ edit[e] = Absent
  /\ status[i] # Absent
  /\ Valid(new)
  /\ edit' = [edit EXCEPT ![e] = [item |-> i, old |-> price[i], new |-> new]]
  /\ Counted
  /\ UNCHANGED <<price, status, period, delivery, loaded>>

\* What the save makes of the price there is: markModified writes it whole, not only
\* the fields that differ from the loaded one's.
Written_Changed(current, old, new) == [f \in DOMAIN new |-> IF new[f] = old[f] THEN current[f] ELSE new[f]]
Written(current, old, new) == new

\* ... save, over whatever another update wrote since; that of a deleted item throws.
SavePatch(e) ==
  LET i == edit[e].item IN
  /\ edit[e] # Absent
  /\ price' = IF status[i] = Absent THEN price
              ELSE [price EXCEPT ![i] = Written(price[i], edit[e].old, edit[e].new)]
  /\ edit' = [edit EXCEPT ![e] = Absent]
  /\ Over
  /\ UNCHANGED <<status, period, delivery, changes>>

\* Providers and admins change statuses and delete items; deleted ones stay so.
ChangeStatus(i, s) ==
  /\ status[i] \notin {s, Absent}
  /\ status' = [status EXCEPT ![i] = s]
  /\ Counted /\ Over
  /\ UNCHANGED <<price, period, delivery, edit>>

\* CartService.add and update: parsePeriod refuses an end before the start.
ChangePeriod(start, end) ==
  /\ start <= end
  /\ period' = [start |-> start, end |-> end]
  /\ Counted /\ Over
  /\ UNCHANGED <<price, status, delivery, edit>>

ChangeHandoff(s) ==
  /\ delivery' = IF s \in delivery THEN delivery \ {s} ELSE delivery \cup {s}
  /\ Counted /\ Over
  /\ UNCHANGED <<price, status, period, edit>>

-----------------------------------------------------------------------------
\* money: Math.round to cents
Money(mills) == (mills + 5) \div 10

RentalDays(p) == IF p = Absent THEN 0 ELSE p.end - p.start + 1

\* effectiveDailyPrice: the offer holds for a rental that starts in its dates.
DailyPrice(p, rental) ==
  IF p.offer # Absent /\ (rental = Absent \/ rental.start \in p.from .. p.until) THEN p.offer ELSE p.list

\* The document of an item that toResponse loaded.
Found(i) == IF i \in Bundles THEN bundles[i] ELSE products[i]

Available_Found(i) ==
  /\ Found(i).status = "available"
  /\ i \in Bundles => \A p \in Members[i] : Found(p).status \in {"available", Absent}

\* toProductLine and toBundleLine: whether the line can be rented
Available(i) ==
  /\ Found(i).status = "available"
  /\ i \in Bundles => \A p \in Members[i] : Found(p).status = "available"

\* ... and what it says; a deleted item has no price.
Line(i) ==
  LET daily == DailyPrice(Found(i).price, cart.period) IN
  [price |-> IF Found(i).status = Absent THEN 0 ELSE Money(daily),
   lineTotal |-> IF Available(i) THEN Money(daily * RentalDays(cart.period)) ELSE 0,
   isAvailable |-> Available(i)]

\* deliveryEuros, in cents
DeliveryCost_Returns(s) == IF s \in cart.delivery THEN 2 * BasePrice[s] ELSE 0
DeliveryCost(s) == IF s \in cart.delivery THEN BasePrice[s] ELSE 0

\* toStoreGroup
StoreGroup(s, lines) ==
  LET items == MapThenSumSet(LAMBDA i : lines[i].lineTotal, {i \in Items : StoreOf[i] = s}) IN
  [itemsTotal |-> items, deliveryCost |-> DeliveryCost(s), total |-> items + DeliveryCost(s)]

\* cartTotals: sums of cents, which rounding leaves alone; the tax is 0.
Totals(groups) ==
  LET items == MapThenSumSet(LAMBDA s : groups[s].itemsTotal, QuotedStores)
      deliveries == MapThenSumSet(LAMBDA s : groups[s].deliveryCost, QuotedStores)
  IN [days |-> RentalDays(cart.period), itemsAmount |-> items, deliveryAmount |-> deliveries,
      amount |-> items + deliveries]

\* The answer: what toResponse computes once it has loaded everything.
Lines == [i \in Items |-> Line(i)]
Groups == [s \in QuotedStores |-> StoreGroup(s, Lines)]
Answer == Totals(Groups)

\* CartController.get: load the cart, ...
FindCart ==
  /\ cart = Absent \/ Answered
  /\ cart' = [period |-> period, delivery |-> delivery]
  /\ bundles' = Absent
  /\ products' = Absent
  /\ UNCHANGED <<price, status, period, delivery, edit, changes>>

Documents(S) == [i \in S |-> [price |-> price[i], status |-> status[i]]]

\* ... toResponse: then its bundles, ...
FindBundles ==
  /\ cart # Absent
  /\ bundles = Absent
  /\ bundles' = Documents(Bundles)
  /\ UNCHANGED <<price, status, period, delivery, edit, changes, cart, products>>

\* ... then its products and those of the bundles; the answer follows at once.
FindProducts ==
  /\ bundles # Absent
  /\ ~Answered
  /\ products' = Documents(Products)
  /\ UNCHANGED <<price, status, period, delivery, edit, changes, cart, bundles>>

-----------------------------------------------------------------------------
QuoteInit ==
  /\ \E a \in Prices :
       price = [i \in Items |-> [list |-> a, offer |-> Absent, from |-> Absent, until |-> Absent]]
  /\ status = [i \in Items |-> "available"]
  /\ period \in Optional(Periods)
  /\ delivery = {}
  /\ edit = [e \in Editors |-> Absent]
  /\ changes = 0
  /\ cart = Absent /\ bundles = Absent /\ products = Absent

QuoteNext ==
  \/ \E e \in Editors, i \in Priced, patch \in Patch : BeginPatch(e, i, patch)
  \/ \E e \in Editors : SavePatch(e)
  \/ \E i \in Items, s \in Optional(Statuses) : ChangeStatus(i, s)
  \/ \E start, end \in Dates : ChangePeriod(start, end)
  \/ \E s \in QuotedStores : ChangeHandoff(s)
  \/ FindCart \/ FindBundles \/ FindProducts

QuoteSpec == QuoteInit /\ [][QuoteNext]_quoteVars

-----------------------------------------------------------------------------
\* The variables have the types of the schemas.
QuoteTypeOK ==
  /\ price \in [Items -> Price]
  /\ status \in [Items -> Optional(Statuses)]
  /\ period \in Optional(Periods)
  /\ delivery \subseteq QuotedStores
  /\ edit \in [Editors -> [item: Items, old: Price, new: Price] \cup {Absent}]
  /\ changes \in Nat
  /\ cart \in Optional([period: Optional(Periods), delivery: SUBSET QuotedStores])
  /\ bundles \in Optional([Bundles -> Document])
  /\ products \in Optional([Products -> Document])

Charged == {i \in Items : Lines[i].isAvailable}

\* buildProductLine and buildBundleLine: what POST /v1/cart would accept now.
AllMembers(b) == {p \in Members[b] : status[p] # Absent}
Addable(i) ==
  /\ status[i] = "available"
  /\ i \in Bundles =>
       /\ Cardinality(AllMembers(i)) = Cardinality(Members[i])
       /\ \A p \in AllMembers(i) : status[p] = "available"

\* "Lineas no disponibles no suman", and the two rules of what is available agree,
\* whatever changes while the cart is answered: it charges exactly for what a client
\* could still put into it, but for a bundle whose own status changed after it was
\* loaded; and even such a bundle is not charged over a product that is not available.
ChargedIffAddable ==
  Answered => \A i \in Items :
    /\ (i \in Bundles => bundles[i].status = status[i]) => (i \in Charged <=> Addable(i))
    /\ i \in Charged \cap Bundles => \A p \in Members[i] : Addable(p)
    /\ i \notin Charged => Lines[i].lineTotal = 0

\* The levels of the answer agree, of whatever moments its parts are: the total is that
\* of the stores, and also that of the lines and of one delivery for each store that
\* delivers; and a line is its price times the days, both inclusive.  (A price with a
\* fraction of a cent is rounded after it is multiplied.)
TotalsAddUp ==
  Answered =>
    /\ Answer.amount = MapThenSumSet(LAMBDA s : Groups[s].total, QuotedStores)
    /\ Answer.amount = MapThenSumSet(LAMBDA i : Lines[i].lineTotal, Charged)
                              + MapThenSumSet(LAMBDA s : BasePrice[s], cart.delivery)
    /\ cart.period # Absent => \A i \in Charged : DailyPrice(Found(i).price, cart.period) % 10 = 0 =>
         Lines[i].lineTotal = Lines[i].price * Cardinality(cart.period.start .. cart.period.end)

\* An offer never makes a client pay more than the list prices, whatever patches led to
\* it, also those that two updates of one item merged into the same loaded price.
OffersAreBargains ==
  Answered => Answer.itemsAmount
                <= MapThenSumSet(LAMBDA i : Money(Found(i).price.list * Answer.days), Charged)
=============================================================================
