# Verification of the Baby Go services

Baby Go is a marketplace where providers rent baby equipment to families: a NestJS
server (`src/src`), MongoDB through mongoose, Stripe for charges and payouts, Cloudinary
for photos, Twilio and mail for codes. This directory holds TLA+ modules that model its
core, TLC configurations that check them on small instances, and theorems that TLAPS proves for
instances of every size: about every property that a run checks but one, which is a liveness property.

Two facts about the code shape every module:

* A handler runs without interruption between two `await`s. At each `await` any other
  handler, webhook or scheduled deletion may run.
* The code uses no transaction, lock, queue or idempotency key. What holds across several
  awaited calls holds because of the order of the calls, a conditional update, a unique
  index, or mongoose's version check.

So every module models requests as processes: `pc[r]` is the `await` where request `r`
stands, and `doc[r]` what it loaded and still has in memory. One action is the code from
one `await` to the next with the awaited call it ends with. Anything can overlap there, and
a request can fail or die there, keeping what was already written. A request of `Quotes` or `Search` only
reads: the catalog changes between the three reads of a cart's answer, and between the pages of a search.

## Inventory

| Component | Source | State | Operations | What is hard |
|---|---|---|---|---|
| Payments and payouts | `contexts/payments/payment.service.ts`, `stripe-webhook.*` | `payments` collection; PaymentIntents, transfers and events at Stripe | createPaymentIntent, transferToProvider, confirmPaymentForDev, getProviderMovements, webhooks | two systems without a transaction; webhooks late, twice or out of order; a lost answer after money moved |
| Accounts and login sessions | `auth/auth.service.ts`, `jwt.strategy.ts` | `users` with codes and `tokenVersion`, `refresh_tokens`; tokens held by clients | register, verify, resend, login, social login, refresh with rotation, logout, recovery, reset, deletion of an account | two registrations of one address; a request in flight for an account that is deleted and registered anew; a refresh in flight during a reset; a deletion of three writes |
| Products, bundles, review | `provider/product`, `provider/bundle`, `admin` | statuses, members of bundles | create, edit, toggle, delete, patch, approve, set status | a derived status that is stored; two collections written one after the other |
| Stores and Stripe Connect | `provider/store`, `stripe-connect.service.ts` | store funnel, phone code, delivery, copy of the Connect account | create, phone codes, delivery hours and prices, confirm, onboarding link, sync, webhooks | a copy of an external state; whole sub-documents rewritten from a loaded copy |
| Cart contents | `client/cart/cart.service.ts` | one document per client | add, change handoff or accessories, remove | three ways of writing one array, only some with a version check |
| Photos and avatars | `product.service.ts`, `store.service.ts`, `shared/storage` | entries in documents, files in a bucket | add, replace, delete, reorder, delete all; upload and delete an avatar | two systems without a transaction |
| Prices and quotes | `product-price.ts`, `cart.service.ts` | price of each item; nothing of the answer is stored | patch a price, GET /v1/cart | partial patches that overlap; an answer computed from three reads; availability decided at two places; rounding per line, store and total |
| Opening hours | `store.service.ts` 695-806, `search.service.ts` 440-529 | the schedules in a store | build a schedule, read it | weekdays in UTC, empty schedules, intervals by position |
| Search | `client/search` | none of its own | POST /v1/search, page by page | pages by offset over a catalog that changes; no filter against one that matches nothing |
| Settings | `contexts/settings` | documents by code, the old singleton | create, update, seed and migrate | every instance seeds when it starts, beside others that serve, and may die anywhere |
| Clients, configuration | `shared/*`, `config/*`, `common/*`, `main.ts` | none | | pure input and output |

Interactions: payments read the store's Connect copy; the Connect copy is written by the
provider's requests and by the webhook that also writes payments; a product's edits write
bundles; admins write both; the cart and the search read products, bundles and stores; the
deletion of an account deletes its tokens and stores, but no products, bundles or carts. Each
module keeps what it only reads from another component as a variable that its environment may change (`onboarded` in `Payments`, `status` in `Quotes`,
`status` and `asked` in `Search`, `owners` in `Accounts`).

What makes each component correct:

* payments: nothing is paid out that was not collected; the provider gets exactly the share,
  once; every charge is on record and eventually reported; the provider's summary balances;
* accounts and sessions: one account per address; nobody is in who did not receive a code;
  what is meant for a deleted account never reaches its successor; a token with a successor is spent;
  a reset ends the sessions of the old password; a deletion leaves nothing;
* catalog: clients only see reviewed content; bundles exist only over existing products;
  rented products stay; closed bundles are left alone;
* stores: owners and phones are unique; money is only sent to an account that was ready;
  a validated phone was validated;
* cart: no granted line is lost or revived; one group per store;
* photos: what is listed exists and what was deleted is not listed again;
* quotes: the cart charges exactly what could be added now, its totals add up, and no offer is above
  the list price;
* search: a walk misses nothing and repeats nothing that stayed where it was; a store is shown
  exactly when it is open by what its provider entered; more criteria never show more;
* settings: no start, restart or crash loses the countries of the old singleton or a value that
  somebody has written.

## Modules

| Module | Models | Actions and the code |
|---|---|---|
| `Escrow` | what payments promise | `Charge` once, then `PayOut` of the share once |
| `Payments` | payment.service, stripe-webhook.service; Stripe as environment | `Begin*` is a handler up to its first await; `StripeCreatesIntent`, `StripeTransfers`, `StripeConfirms` are calls to Stripe; `InsertPayment`, `RecordTransfer`, `SaveStatus` the writes; `DeliverEvent` the webhook |
| `MoneyProofs` | theorems about `Payments`, its refinement of `Escrow`, and `Quotes` | |
| `Sessions` | auth.service from loginLocal on, jwt.strategy | `Rotate` and `Issue` are the two halves of a refresh; `ChangePassword` and `RevokeSessions` those of a reset |
| `Accounts` | registration, verification, resend and deletion, over `Sessions` (EXTENDS) | `BeginRegister`/`InsertUser`; `StoreEmailCode`/`MailCode`; `WriteVerified`; `DeleteTokens`, `DeleteStores`, `DeleteUser` |
| `AccountsProofs` | theorems about `Accounts` and the sessions in it | |
| `Catalog` | product, bundle and admin services | `SaveProduct`, `MarkBundles`: an edit; `DeleteProduct`, `Pull`, `DeleteSmall`: a deletion; `FindMembers`, `ReadMembers`, `SaveBundle`: a patch of a bundle; `FindBundles`, `FindProducts`, `WriteBundles`: syncOpenBundles |
| `CatalogProofs` | theorems about `Catalog` | |
| `Stores` | store and stripe-connect services; Stripe accounts and events as environment | one action per awaited write or call of the funnel |
| `StoresProofs` | theorems about `Stores` | |
| `Cart` | cart.service, the writes | `SaveAdd`, `SaveHandoff` and `SaveAccessories` are mongoose's save(), `WriteRemoval` the plain updateOne |
| `CartProofs` | theorems about `Cart` | |
| `Gallery` | photos of a product, the avatar of a store | `Upload`/`Push`, `Destroy`/`UploadReplacement`/`Save`, `DestroyAll`, `DestroyAvatar`/`UploadAvatar`/`WriteAvatar` |
| `GalleryProofs` | theorems about `Gallery` | |
| `Quotes` | product-price, the answer of the cart | `BeginPatch`/`SavePatch`: an update of a price; the changes of status, period and handoff; `FindCart`, `FindBundles`, `FindProducts`: GET /v1/cart, whose answer `Answer` follows the last |
| `Hours` | how a schedule is validated and built, and how the search reads it | operators only: `Accepted`, `Schedule`, `CoversHandoff`, `DayKey` |
| `Search` | search.service over `Hours` (EXTENDS) | `BeginWalk` and `NextPage` are the client's requests; `ChangeStatus`, `ChangeHours`, `RemoveStore` the providers' |
| `SearchProofs` | theorems about `Search` and `Hours` | |
| `Settings` | settings.service, settings.seeder | one action per awaited call of seed(); `Crash` an instance that dies; `BeginCreate`/`Insert`, `Update` the API |
| `SettingsProofs` | theorems about `Settings` | |
| `MC*` | small instances: constants, symmetry, views | |

A refused request changes nothing and is therefore not an action: the guard of a `Begin*`
action is the conjunction of the code's checks. A check that comes after an `await` is a
branch of the action that follows it (`ReadStore`, `Rotate`, `FindMembers`, `DeleteProduct`).

Data is abstracted to what the properties tell apart. A document, token, file or transfer
is named by the request that made it; names, texts, addresses, coordinates and currencies
are left out; amounts are integers because rounding and balance are properties. Codes,
access tokens and recovery codes that expire are ones nobody uses any more, so no clock is
needed. Products and stores do not come back under the same id (ids are MongoDB ObjectIds), and
an account that is registered anew at an address is another user. A few variables and fields are
histories that the code does not keep; each is marked as such where it is declared
(`Sessions.session`, `Catalog`'s `reviewed`, `Stores.reached` and `proof`, `Cart.wanted`,
`Gallery.unlisted`, `Search`'s `stayed`, `joined` and `left`, `Settings`' `inherited` and `written`).

Where mongoose decides what a save writes, the modules say what it does: only paths assigned
a value other than the loaded one (`Saved` in `Catalog`, `NewConnect` in `Stores`), a whole
array only if `__v` is the loaded one (`Current` in `Cart` and `Gallery`), a push whatever
`__v` is (`OnlyAppends`, `Pushed`).

A definition named `X_Y` beside `X` is `X` with a plausible bug (a dropped guard, a missing
reset). `PROJECT.json` lists which property must fail when it replaces `X`: it shows that
each property depends on the code it is about.

### Faults

`Payments` has a constant for each hazard (`Overlap`, `MayFail`, `Ordered`, `Redelivers`,
`IsProduction`). `Accounts`, `Catalog`, `Stores`, `Cart` and `Gallery` choose once, in `Init`, a set `faults` of what may go
wrong (`"overlap"`, `"failure"`, `"reordering"`), and `Budget` says which sets are possible
and how many requests are served under each. One run thus covers the fault-free system with
many requests and the hostile one with fewer, and a property states under which faults the
code keeps it: nothing before `=>` means any interleaving and any failure. In `Settings`
instances and requests always overlap, and instances die up to `MaxCrashes` times; in `Search` the
catalog changes up to `MaxChanges` times during a walk.

## Runs

All state counts are distinct states of a complete search.

| Run | Bounds | States | Shows |
|---|---|---|---|
| `payments_hazards` | 2 payments, 4 requests, 2 stores, amount 105 at 10 %, one failed attempt; everything overlaps, fails, is reordered and redelivered | 661 k | TypeOK, PayoutsAreCollected, TransferOnRecord, ChargesHaveRecord, SummaryIsSound |
| `payments_calm` | 2 payments, 4 requests, amounts 54 and 105; one request at a time, no failure, events once and in order, production | 442 k | FlagFollowsMoney, ImplementsEscrow (refinement), ChargeIsReported (liveness) |
| `accounts` | a local and a social user at first, one address, accounts registered by requests; 5 requests without faults, 4 with failures, 4 with overlap and failures | 567 k | ExchangedTokensAreDead, ResetEndsAccess, CalmResetEndsSessions, OneAccountPerAddress, SessionsNeedAReachedAddress, AccountsKeepApart, PurgeIsComplete |
| `catalog` | 3 products; 4 requests without faults, 3 with failures, 3 with overlap | 408 k | OpenBundlesAreReviewed, BundlesAreWhole, OnlyReviewedContentIsLive, RentedProductsStay, LoneAdminSparesClosedBundles |
| `stores` | 2 providers, 2 phones, 2 events in flight; 5 requests without faults, 4 with failures and reordering, 4 with overlap as well (two at a time) | 996 k | OwnersAndPhonesAreUnique, PayoutAccountWasReady, OneAccountPerStore, CopyIsCurrent, DeliveryHalvesAreIndependent |
| `cart` | 2 stores, 3 items of which one is a bundle; 6 requests one at a time, 4 with overlap and failures, 4 with overlapping removals as well (three at a time) | 594 k | OneLinePerItem, CartIsWhatWasAsked, HandoffsStand |
| `gallery` | at most 2 photos (8 in the code); 6, 6 and 5 requests, two at a time | 881 k | DeletedPhotosStayDeleted, PhotosAreTheFiles |
| `quotes` | 3 products and a bundle in 2 stores, 3 amounts, 2 days; 2 updates of the bundle's price at a time, 2 changes of the catalog, the cart or a price | 127 k | ChargedIffAddable, TotalsAddUp, OffersAreBargains |
| `search` | 3 products and a bundle in 2 stores, one item on a page, 2 changes during a walk, 8 schedules that providers send, 7 queries | 251 k | WalkMissesNothing, WalkRepeatsNothing, ShownStoresAreOpen, NarrowingShowsNoMore |
| `settings` | 2 instances, 3 requests, 3 codes, 3 crashes; with an old singleton, with one whose countries are null, and without | 27 k | LegacyCountriesSurvive, SeedingSparesWrittenValues, ServedSettingsExist |
| `payments_overlap`, `stores_old_code` | as above, smaller | | one counterexample each, see Findings |

Why the bounds are enough. Each hazard of this code involves one or two documents and two
requests in flight, after at most two or three that set the scene: the smallest double payout takes a
creation and two transfers, a lost reset a login, a recovery, a reset and a refresh. The
instances have room for those and for one request more. Two payments, stores or providers
exist so that one can be confused with another; a third product exists so that a bundle of
three can lose a member and stay, and lose another and go. The amounts 54 and 105 lie below
and on the half cent of a fee of 10 %. In `quotes`, 0.334 is a price with more than two decimals
(the DTO accepts it, and MongoDB stores it), 1.99 one of whole cents, and only the bundle
changes its price, in every way a patch allows. Two changes are two overlapping updates of a price,
or a status that changes on either side of a read. In `accounts` one address is enough, as the
hazard is that several accounts have it one after the other. In `search` two changes during a
walk of up to four pages let an item move in behind the walk and another leave ahead of it; the
schedules include each shape that is special in the code: always open, never open, no day named, a
day without intervals, a range that ends before it begins, too many intervals, and intervals that
do not exist. In `settings` three crashes let both instances die at any write and one of them again.

In `Stores` and `Gallery` at most two requests are in flight, in `Cart` three. Requests are interchangeable:
`Payments`, `Accounts`, `Catalog`, `Settings` and `Quotes` (of the updates) use symmetry; `Stores`, `Cart` and `Gallery` number requests as
they arrive, which is the same reduction, and drop from the state (VIEW) what a finished request
had loaded, which nothing reads.

Every run but `quotes` sets `CHECK_DEADLOCK FALSE`: the number of requests is bounded,
so a behaviour may end when all have been served, and a walk of `search` ends with its last
page. `quotes` checks deadlock: a cart can
always be asked for.

Fairness (`FairSpec` of `Payments` only): a request that can go on does (Node runs handlers
to their end, and `payments_calm` is without failures), and a payment's events are eventually
delivered (Stripe retries a webhook until the endpoint answers 2xx, and the controller only
does so after the handler returned). Nothing is assumed of customers, providers or admins.

## Where the code keeps a property, and where it does not

The conditions below are those of the properties; each was found by checking the property
without it.

* **Payouts.** PayoutsAreCollected, TransferOnRecord and ChargesHaveRecord need no condition. That
  the platform keeps its fee, and that the flag follows the money, hold for one request at a
  time, no failure, events once and in order, and in production (where confirmPaymentForDev is refused). A redelivered or late `payment_intent`
  event resets a transferred payment to `succeeded` (payment.service.ts 288-296), after which it can be
  transferred again. If the answer of Stripe's transfer or the save after it is lost
  (142-144), the flag stays false although the funds were sent. With events out of order a charge
  may never be reported.
* **Accounts and sessions.** OneAccountPerAddress, SessionsNeedAReachedAddress,
  AccountsKeepApart, ExchangedTokensAreDead and ResetEndsAccess need no condition: the index
  refuses the second registration, every write after a load is by the id that was loaded,
  spending comes before issuing, and an access token carries the version of the very document
  that was loaded. A token is thus spent once its successor exists, and refused from then on; but two
  overlapping refreshes of one token both pass the check and both get a successor
  (auth.service.ts 414 and 455), so that there is only one is stated without overlap. A login or refresh that overlaps a reset leaves a session of the
  old password, and so does a reset that dies between its two writes (391, 394). A login or a
  new store that overlaps a deletion remains (527, 577), which refreshAccess then refuses
  for want of a user.
* **Catalog.** RentedProductsStay needs no condition (deleteOne
  is filtered by status); deleting the whole catalog does delete rented products. A failed edit may leave
  a bundle available over content that waits (product.service.ts 122-124); a bundle created while
  a member is edited or deleted is open or dangling (bundle.service.ts 46-51); an edit that
  overlaps an approval writes back a status equal to the one it loaded, that is, does not write it, and
  unreviewed content goes live. An admin's sync that was slow overwrites a bundle that its
  provider closed after the sync read it (admin.service.ts 164).
  An admin's `inactive` does not last: the provider may set `available` again, and `reviewed`
  counts any status an admin gave but `in_review`.
* **Stores.** The unique indexes carry OwnersAndPhonesAreUnique; PayoutAccountWasReady needs
  no condition because account and level are always written together, and so does CopyIsCurrent
  without faults. Overlapping or failed
  onboarding makes a second account (stripe-connect.service.ts 35-48); overlapping updates
  of hours and prices lose one (store.service.ts 531 and 567); a phone changed during a
  confirmation leaves a store in review with an unvalidated phone (673).
* **Cart.** The version check keeps CartIsWhatWasAsked and HandoffsStand for overlapping
  additions and changes of handoffs and accessories; a removal bypasses it (cart.service.ts 222),
  and an overlapping one loses or revives lines and handoffs. Two overlapping first additions to a
  store make two groups (266).
* **Photos.** DeletedPhotosStayDeleted needs no condition. A slow deletion whose save is
  refused has already destroyed the file (product.service.ts 351-354); two additions that overlap at
  the limit exceed it (231, 258); an upload that overlaps the deletion of an avatar leaves one
  of file and entry without the other.
* **Quotes.** For a price with more than two decimals a line's total is rounded after the
  multiplication and need not be the displayed price times the days (cart.service.ts 503-504).
  Otherwise TotalsAddUp and OffersAreBargains need no condition. Two updates that overlap lose the
  first one's patch, but never mix the two: markModified has the price written whole, and each was
  validated (product.service.ts 107). The answer is computed from bundles and products read one after
  the other (cart.service.ts 382 and 401): a bundle that its provider closes or opens in between is
  charged by the status that was loaded, although its products are those of a later moment, and
  ChargedIffAddable leaves such bundles out.
  The ASSUME of the module excludes amounts whose product is exactly half a cent, where a
  double rounds either way.
* **Search.** Pages are offsets into a list that is sorted by creation, newest first, so an item
  that joins ahead of the walk shifts the rest and may show one twice, and one that leaves may
  hide another (search.service.ts 141). WalkMissesNothing and WalkRepeatsNothing say that nothing
  else does. The weekday of a rental is that of its dates in UTC; a schedule whose days are all
  empty counts as one without days, that is, open every day (store.service.ts, normalizeScheduleDays),
  and ShownStoresAreOpen takes this for what the provider meant.
* **Settings.** No property has a condition: each write of seed() is an upsert that leaves a
  document alone, and the singleton is deleted after its countries have been copied. A start that
  loaded the singleton before another instance deleted it copies nothing, as the code exists by then.

## Findings

Two places where the code does other than its own comments say; each has a run that fails.

1. `payments_overlap`: two overlapping `transferToProvider` calls pay the provider twice
   ("La comisión de plataforma permanece en la cuenta empresa", payment.service.ts:96).
2. `stores_old_code`: a code sent to the old phone validates the new one, with one request
   at a time ("Envía código de verificación al celular", store.service.ts:214).

Two more were found by checking a property without its condition: a session of the old password
outlives a reset through a login or refresh that was in flight ("Invalidar sesiones existentes",
auth.service.ts:393), and the admin's sync overwrites a bundle that its provider closed after the
sync read it ("los dejó el provider y no se tocan", admin.service.ts:118).

## Proofs

Every component with state has theorems, from the `ASSUME`s of its module and, where the last column says so,
`Calm`: for every set of requests, users, stores, phones, payments, instances and codes, every finite set
of products and items, every non-negative integer fee, every price, schedule and query, every page size,
every budget and every setting of the faults.

| Module | Theorems (each `Spec => []property`, of `Quotes` `QuoteSpec`) | Only if `Calm` |
|---|---|---|
| `MoneyProofs` | TypeCorrect, PayoutsAreCollectedAlways, TransferOnRecordAlways, ChargesHaveRecordAlways, SummaryIsSoundAlways; ChargedIffAddableAlways, TotalsAddUpAlways, OffersAreBargainsAlways | FlagFollowsMoneyAlways, ImplementsEscrowAlways, PlatformKeepsFeeWhenCalm |
| `AccountsProofs` | TypeCorrect, ExchangedTokensAreDeadAlways, ResetEndsAccessAlways, OneAccountPerAddressAlways, SessionsNeedAReachedAddressAlways, AccountsKeepApartAlways, CalmResetEndsSessionsAlways, PurgeIsCompleteAlways | |
| `CatalogProofs` | TypeCorrect, RentedProductsStayAlways, OnlyReviewedContentIsLiveAlways, LoneAdminSparesClosedBundlesAlways, OpenBundlesAreReviewedAlways, BundlesAreWholeAlways | |
| `StoresProofs` | TypeCorrect, OwnersAndPhonesAreUniqueAlways, PayoutAccountWasReadyAlways, OneAccountPerStoreAlways, CopyIsCurrentAlways, DeliveryHalvesAreIndependentAlways | |
| `CartProofs` | OneLinePerItemAlways, CartIsWhatWasAskedAlways, HandoffsStandAlways (an action property) | |
| `GalleryProofs` | TypeCorrect, DeletedPhotosStayDeletedAlways, PhotosAreTheFilesAlways | |
| `SearchProofs` | TypeCorrect, ShownStoresAreOpenAlways, NarrowingShowsNoMoreAlways, WalkMissesNothingAlways, WalkRepeatsNothingAlways | |
| `SettingsProofs` | LegacyCountriesSurviveAlways, SeedingSparesWrittenValuesAlways, ServedSettingsExistAlways | |

`Calm` is what `payments_calm` is run with: no overlap, no failure, events once and in order, production.
`Payments` takes its hazards as constants, so the condition of a property is one on constants there; in
the other modules, which choose their faults in `Init`, it is part of the property.

In most modules `IInv` is the inductive invariant, `InitIInv` and `NextIInv` show that it holds at
first and is kept by every step, and `SpecIInv` joins them. `CatalogProofs` has three, each resting
on the ones before (`SpecData`, `SpecSerial`, `SpecTidy`), and so has `MoneyProofs` for payments
(`IInv`, `MoneyInv`, `CalmInv`). None of the properties is inductive,
because a request that loaded a document some time ago will still write: the invariants
say what such copies may be.

**Payments.** `EventsAreCollected`: a snapshot that says succeeded is of an intent that is
collected, and collected is final (Stripe lets no succeeded intent be confirmed, fail or be
canceled). `RecordsPrecedeSecrets`: a customer can only pay an intent whose document was inserted.
`CreateInv`, `TransferInv`, `ConfirmInv`: what a request holds at each of its awaits; a transfer in
flight concerns a collected payment, and its copy of store and share is the document's,
because no operation changes these two. `InsertsAreApart`: no two requests insert a document
for one intent. `DataFrame` serves the actions that leave Stripe, payments and secrets alone.

**Sums.** The provider's summary, the share that was paid out and the totals of a cart are folds over
sets, whose value the community modules define by recursion. `FiniteInduction` derives an induction
over the subsets of a finite set from their well-foundedness, with the claim given as a set, since a
lemma cannot take it as an operator; from it `SumTakes` says that an element's part may be taken out
of a sum first, whichever element the definition happens to choose, and with that sums are compared, split
and grouped (`SumMonotone`, `SumSplits`, `SumGrouped`). `MoneyInv`: every document, stored or in memory, splits its amount exactly into share and
fee, and documents and transfers are finitely many at any time, although `Payments` and `Requests`
need not be finite; so every sum is one of natural numbers over a finite set.

**Escrow.** `CalmInv`: one request is under way (`OneRequest`); the snapshots of an intent are
numbered and its success is the last (`EventsNumbered`), so none is left to reset a document that
says collected (`Reported`); while a request transfers, the document still says what it loaded
(`TransferPending`); and a transfer is recorded or about to be (`TransferRecorded`, from which
FlagFollowsMoney follows). So when Stripe transfers, no transfer of that payment exists: `EscrowStep` maps the
success of an intent to `Charge`, the transfer to `PayOut` and every other step to a stutter.
`PaidOutOnce`, an invariant of `Escrow` itself, then gives PlatformKeepsFee, the property that two
overlapping transfers violate in `payments_overlap`.

**Quotes.** `QuoteInv`: every price is valid wherever it is, stored, loaded or about to be saved, as an update
that overlaps another writes a price that was validated whole (`WriteKeepsQuotes`); the cart, the bundles and
the products are loaded in this order, and the products of an answer still have the statuses that were loaded,
since nothing runs between the last read and the answer. What is left is arithmetic:
TotalsAddUp exchanges the sum over stores with that over the lines that are charged, each belonging to
the store of its item, and a price of whole cents times the days is rounded to itself (`MoneyOfCents`); the
bargain is that a valid offer is not above the list price and rounding is monotonic (`MoneyIsMonotone`). Lines are
rounded, stores and totals add whole cents.

**Accounts and sessions.** A token, a code or a password bears the name of the request that
made it, and `Names` says that a name is only mentioned after its request got that far; so what is
new is not yet mentioned anywhere. `Spending`: a token is spent before its successor exists.
`Versions`: what was signed or is about to be was signed with an older version than the user
has, or with its password. `Evidence`: whoever is verified or has a session has received a
code. `Alone`, `Purges` and `Resets` hold where requests do not overlap, or neither overlap
nor fail: what is still to be deleted or revoked while a deletion or reset is on its way.

**Catalog.** `Data`, under any faults: types, and what a request holds at each await; the products of
a bundle exist or existed, so no product that is created later is in an old bundle.
`NoSmallBundles`, without failures: a bundle that is too small waits for the second write of a
deletion, which deletes all such bundles, whoever made them small; a patch that overlaps writes
at least two members or none. `Serial`, without overlap: one request is under way, what it loaded is what is
stored, and what is not in review left it by an admin. `Tidy`, without faults: a bundle that is
available over content in review, or lists a product that is gone, is one that the request under way
will still attend to; and what that request is about to insert, save or write in bulk needs no
attention.

**Stores.** `Evidence` pairs account and level wherever a pair is (in a store, an event, a
request), so no order of events makes a pair that never was. `Belongs`: an account is only ever
written to the store it was made for. `Forms`: an account stays as created until the provider
is given its form. `Halves` and `Accounts`, where requests do not overlap: a loaded delivery is the
present one, and a store with an account gets no other. `Words`, without faults: the last word on
an account is in its newest event in flight, else in the request that is about to write the
copy, else in the copy.

**Cart.** `Edits` collects what each way of writing the array does to it, for any array whose stores
or items may even be repeated: which lines, choices and handoffs the new one has (`PushEdits`,
`UpsertEdits`, `HandoffEdits`, `AccessoriesEdits`, `WithoutIs`). `Versioned`: unless a removal
overlaps, versions only grow, and a loaded cart of the present version is the present cart, so
whatever is written as a whole was computed from what is stored; what is pushed keeps what is
stored. `Alone` says the same without versions where requests do not overlap, removals included,
which do not change the version. `Targets`: what a request is about was in the cart it loaded.

**Photos.** `Names`: a photo that is or was listed bears the name of a request that has ended,
so one that is pushed or saved is new. `Versions`: a copy of the gallery with the present version is
the present gallery, so what a save drops is exactly what its request took out. `Files`, without
faults: what is in the bucket at each await. First come lemmas about removal, appending,
replacement and reordering in sequences.

**Search.** ShownStoresAreOpen and NarrowingShowsNoMore are about one state, so their invariant is that every schedule was built
from a body that was accepted. `ScheduleIsFaithful` follows such a body through validation, the
stored form with its intervals by position, and the reading of a weekday and a time, and finds it
open exactly when the provider said so. `ReachableStores`: no filter at all and a filter that every
store meets agree. `LooserFindsMore`: a query that asks for less of the place, the categories, the
period and each handoff finds at least the same items; each query of `Broader` is such a one.

**Walks.** `Place`, the number of found items that are at least as new, is what sorting amounts to: places are
the numbers from 1 to that of the found items, one each. `WalkInv`: what stayed found all along was
seen or has a place behind the offset, as long as nothing left; and what was seen and is still found has
a place up to the offset, as long as nothing joined. An item that leaves only lowers the places of others
and one that joins only raises them, which is why each half survives the other kind of change.

**Settings.** `Inheritance`: what an instance loaded is what the earlier version left. `Progress`:
how far an instance has come shows in the database, and what is there stays. `Migrated`: the
singleton goes only after its countries have a code, and under that code they stay until
somebody writes others.

Only model-checked: ChargeIsReported, as liveness under fairness is beyond the prover. The type
invariants of `Cart` and `Quotes` are parts of the inductive invariants (`CartTypes`, `QuoteTypeOK`)
without a theorem of their own. `ValidatedPhoneGotTheCode` is false, see Findings.

## Not modelled

* The dev user and the deletion of an account by email for tests (auth.service.ts), which refuse
  to run in production.
* Titles and names with their uniqueness checks, addresses, attributes of items beyond what the
  search filters by. A provider may change the category of a product, which leaves the category that
  its bundles have stored; in `Search` categories are fixed.
* The limit of photos is checked before the upload (product.service.ts 231), so overlapping
  additions exceed it; `Gallery` shows the same and states no property about it. The deletion of a
  store destroys its avatar first: `Stores` has the deletion, without the file.
* The rental period of a cart in `Cart` (it is written with the rest of the document; `Quotes` has
  it), and within a search page the order of the reads of products, bundles and stores.
* The moments between two reads before a write that a unique index decides: creating a store looks for
  the owner, then for the phone, and a new phone is looked up after the store was loaded (store.service.ts 79-90,
  146). `BeginCreate` and `BeginUpdatePhone` of `Stores` are one step each; the action that writes refuses
  what the index does, whatever was found before.
* A fee that is not an integer percentage: `STRIPE_PLATFORM_FEE_PERCENT` is read by
  parseFloat, default 10 (configuration.ts:67).
* The statuses `failed` and `refunded` of a payment are declared; nothing writes `refunded`,
  and `failed` only stands for Stripe statuses that automatic capture does not produce.
  No code sets a store to `active`.
* Configuration, validation pipes, formatting, logging, and the clients of external services.

## Plan

Done, by what is lost when the component is wrong: money (`Escrow`, `Payments`), access (`Sessions`,
`Accounts`), what clients see (`Catalog`, `Quotes`, `Search`, `Hours`), the provider's data (`Stores`,
`Gallery`), the client's data (`Cart`), and the start of an instance (`Settings`); with proofs of
every safety property of each.

Next, theorems: which of the conditions in "Where the code keeps a property" can be weakened, first
whether FlagFollowsMoney needs webhooks in order once no request fails; what the cart keeps for lines
that an overlapping removal does not touch.

Next, modules: titles in `Catalog`, which only a check keeps unique, and names in `Stores`, whose
check and index disagree about case; a catalog whose categories change under `Search`.
