# A formal model of the shop

This directory holds TLA+ specifications of the protocols in this repository
that are hard to get right: who may take which unit of stock, what becomes of
an order while the customer, Stripe, the webhook receiver and the reaper all
move it, how often an event is handled, how often an email is sent, who gets a
campaign, what a cart, a refund, a subscription and the mirror of the catalogue
at Stripe look like when requests overlap or fail half way, what the application
promises a user about sign-ins, erasure and automated messages, what the browser
shows of all that, and what an administrator is told of visits, audiences and
pages. The specifications are translated from the Python and TypeScript source
and from the migrations. TLC model-checks them on small instances; TLAPS proves
the most important results for every value of the constants.

Read in this order: `StockLedger` (one page, what the inventory promises),
`StockReservation` (how it does it), `EventInbox` and `WebhookInbox` (the same
pair for Stripe's events), `OrderLifecycle` (the order as a whole), `Refunds`,
`CheckoutSessions`, `EmailDelivery`, `CampaignDelivery`, `AccountErasure`; then the smaller modules
in any order.

| Module | Models | Instance | Proofs |
| --- | --- | --- | --- |
| `StockLedger` | the inventory as its callers see it | | |
| `StockReservation` | stock transactions, statement by statement, with row locks | `MCStockReservation` | `StockReservation_proofs` |
| `EventInbox` | an inbox that takes in every event once | | |
| `WebhookInbox` | concurrent deliveries to the Stripe webhook | `MCReception` | at its end |
| `OrderLifecycle` | checkout, customer, Stripe, webhook handlers, reaper | `MCOrderLifecycle` | `OrderLifecycle_proofs` |
| `EmailDelivery` | send, retry queue, delivery reports, suppression | `MCEmailDelivery`, `MCReception` | `EmailDelivery_proofs` |
| `CampaignDelivery` | deliveries of one campaign, guardrails, reports on its recipients | `MCCampaignDelivery` | `CampaignDelivery_proofs` |
| `Refunds` | refund route, dashboard, `charge.refunded` | `MCShop` | at its end |
| `ShoppingCart` | guest and user carts, merge, coupon, order, abandonment sweep | `MCShop` | `ShoppingCart_proofs` |
| `CartView` | the cart as a tab of the storefront shows it | `MCShop` | |
| `CheckoutSessions` | a cart with a subscription, paid at Stripe while it is edited | `MCShop` | `ShoppingCart_proofs` |
| `Subscriptions` | subscriptions at Stripe and the rows that follow them | `MCShop` | |
| `MerchantAccounts` | onboarding of a merchant at Stripe Connect | `MCShop` | |
| `StripeCatalog` | a product with its variants and its mirror at Stripe | `MCShop` | |
| `StripeCoupons` | a discount code and its coupon at Stripe | `MCShop` | |
| `CatalogContent` | categories, images, reviews, fee tiers | `MCShop` | |
| `TrackingIntake` | page views, events, heartbeats and consent of one visitor, and what administrators are shown of them | `MCShop` | `Accounts_proofs` |
| `PageTimer` | the browser's measurement of attention | `MCShop` | |
| `SearchPages` | meta tags, their trail, page registry, sitemap | `MCShop` | |
| `SiteAudit` | crawl, verification and audit of pages | `MCShop` | |
| `PageScores` | the rules of the SEO and GEO scores | `MCShop` | |
| `SchemaMigrations` | migrations applied, rolled back, baselined, and `ensure_tables` | `MCShop` | `ShoppingCart_proofs` |
| `AccountErasure` | erasure with its grace period, exports, consents | `MCAccounts` | `Accounts_proofs` |
| `UserSessions` | session hashes, index, refresh-token rotation | `MCAccounts` | |
| `BrowserTab` | tokens, refreshes and calls of one tab | `MCAccounts` | |
| `AccountRoles` | accounts, roles and the sessions that carry them | `MCAccounts` | |
| `AutomationFlow` | a marketing flow, its enrolments and workers | `MCAccounts` | `Accounts_proofs` |
| `FlowBuilder` | editing a flow while users are in it | `MCAccounts` | |
| `EventRegistry` | which events are on, and each process's copy of that | `MCAccounts` | |
| `Segments` | audiences, metrics, counts and recounts | `MCAccounts` | |
| `AudienceGroups` | groups of audience presets and their order | `MCAccounts` | |
| `CampaignContent` | templates, campaigns made of them, variants | `MCAccounts` | |
| `TextMessages` | SMS and WhatsApp with the providers' reports | `MCAccounts` | |

`MCReception` likewise holds `EmailDelivery` and `WebhookInbox`: a behaviour is of
one of the two (the variable `receiver`).

To check a configuration: `tlc -config StockSorted.cfg MCStockReservation`.
To check the proofs: `tlapm StockReservation_proofs.tla`.

`MCShop` and `MCAccounts` each hold one instance of many components that have no
step in common. A behaviour picks one of them at the start (the variable
`component`) and stays with it, so that their state spaces add up instead of
multiplying. `MCShop` extends five of its components (`Refunds`, `ShoppingCart`,
`CheckoutSessions`, `TrackingIntake`, `SchemaMigrations`), `MCAccounts` two (`AccountErasure`,
`AutomationFlow`): their variables are their own, and rest while another component
is at work. The others take turns in fifteen *slots* `x1` to `x15`, and the
substitution of each instance says which variable is in which slot. Slots a component does not use stay 0. A property of such a run is the
conjunction of what the components' modules define under their own names:
`AgreesWithStripe`, for example, is `Catalog!SyncedMeansPriced`,
`Coupon!MirroredWhenAlone` and others, each under the condition that the
behaviour is that component's.


## 1. Inventory of the system

The program is a FastAPI application (`src/backend/main.py`) over PostgreSQL
(SQLAlchemy async sessions, READ COMMITTED) and Redis, with a Next.js storefront.
In production it runs two worker processes per replica and more than one replica
(`docker-compose` files), so *every* handler below may run concurrently with
itself, and so may the background loops that each worker starts: the
stale-order reaper, the email retry loop and the SEO rescorer.

A request has one database session (`backend/core/database.py`, `get_db`),
closed and thereby rolled back when the request ends. Services commit
explicitly, and most commit several times per request: the unit of atomicity is
the service call, not the request. That is where most of the difficulty is.

### Commerce and payments (modelled)

**Inventory** (`ecommerce/services/inventory_service.py`). State:
`product_variants.stock_quantity`, the append-only log `inventory_records`.
Operations: `reserve_stock` (SELECT FOR UPDATE, check, UPDATE, log),
`release_stock`, `adjust_stock` (UPDATE, log). None commits: the caller does.
`variant_service.update_variant` writes the stock as well, without a log
record. *Correct* means: stock is never promised twice; stock equals opening
stock plus log; a failed order leaves nothing behind; nobody waits for ever.

**Orders** (`ecommerce/services/order_service.py`). State: `orders`,
`order_items`, cart status. `create_order_from_cart` reads the active cart,
reserves every line in the order of the variant ids, inserts the order,
converts the cart, counts the coupon and commits. `update_order_status` writes
any status, unconditionally.

**Checkout** (`payments/services/checkout_service.py`). One HTTP request:
create the order (commit), find or make the Stripe customer, create the
PaymentIntent, record the payment (commit), set the order to `processing`
(commit). If creating the intent raises, the stock is released (commit) and the
order rejected (commit).

**Webhook receiver** (`payments/services/webhook_service.py`,
`payments/routes/webhook_routes.py`). State: `webhook_events`, with a UNIQUE
event id. An event is looked up, inserted and committed *before* its handler
runs; handlers commit in several steps; their exceptions are logged and the
answer is 200. `payment_intent.succeeded` completes the order,
`payment_intent.payment_failed` releases its stock and rejects it,
`checkout.session.completed` makes an order of a paid session.

**Reaper** (`payments/services/order_reaper.py`). Every worker: selects orders
that have been `processing` for too long, releases each one's stock, expires
it and its payment in one transaction, and cancels the intent.

*Correct*, for these four together: nobody gets an order completed without
paying; a paid order is completed at some time; a rejected or expired order
holds no stock; no order gives back stock it does not have; an order nobody
pays for does not hold its stock for ever.

### Email (modelled)

**Email delivery** (`gdpr/services/email_send_service.py`,
`retry_service.py`, `webhook_processing_service.py`, `gdpr/adapters`). State:
`email_preferences` (suppression, switches), the log `email_events`, the Redis
list `email_retry_queue` with a counter per item, and `email_webhook_events`.
`send_email` checks suppression and consent, calls the provider, then logs the
outcome and queues a refusal; the retry loop pops, counts, sends again, marks or
requeues; the provider reports what became of each message. *Correct*: no email
goes out twice without a failure to blame; refused email does not circulate for
ever; a bounce suppresses; suppression silences.

### Campaigns (modelled)

**Campaign delivery** (`marketing/services/campaign_delivery_service.py`,
`guardrails_service.py`, `webhook_event_service.py`). State: `campaigns` (status,
recipient count), `campaign_recipients` (one row per campaign and user, by a
unique index), the pressure log. `deliver_campaign` runs inside the request of
`POST /campaigns/{id}/send`: it selects the campaign if it is a draft or
scheduled, writes `sending`, resolves the audience, and for every recipient
inserts a row, asks the guardrails, calls the provider and stores the message
id; then it writes `sent` with the count. The providers' reports find a row by
its message id. *Correct*: nobody gets a campaign twice, even when two requests
send it; nobody is forgotten; a row says what became of its message; no message
to who has withdrawn in time; the campaign does not stay in `sending`.

### Carts and coupons (modelled)

**Carts** (`ecommerce/services/cart_service.py`). State: the guest cart, one
Redis value per session; `cart` and `cart_items` of a user, of which the newest
active cart counts. Every operation on a guest cart reads the value, edits it
and writes it back; `merge_cart` carries it over after login; an order converts
the cart; a sweep in every worker marks carts as abandoned. *Correct*: a cart
never holds more than was asked for; a user has one active cart; a cart is
reported as abandoned once.

**Coupons** (`ecommerce/services/discount_service.py`). State: `discount_codes`
with `uses_count`, the uses per customer, and for each code a coupon and a
promotion code at Stripe. The limits are checked when a code is applied, the
uses are counted when an order is placed. *Correct*: counted uses are orders;
a code that is used up spreads no further; an active code is worth at Stripe
what it is worth here, an inactive one nothing.

### Payments beyond the order (modelled)

**Refunds** (`payments/routes/checkout_routes.py`, `webhook_service.py`). State:
`payment_records` of type refund. The route refunds at Stripe, books, and marks
the order; `charge.refunded` books and marks too. *Correct*: what has gone back
is in the books; the route gives money back once.

**Checkout sessions** (`payments/services/subscription_checkout_service.py`,
`webhook_service.py`). A cart with a subscription in it is paid at Stripe; the
webhook makes an order of the goods. *Correct*: the goods paid are ordered, once.

**Subscriptions** (`ecommerce/services/subscription_service.py`). State: a row
per subscription that follows Stripe's status by events. *Correct*: the row ends
at Stripe's last status; who has cancelled is not charged on; a user has one
Stripe customer.

**Catalogue sync** (`ecommerce/services/catalog_sync_service.py`,
`product_service.py`, `variant_service.py`). State: products and variants with
the ids of their Stripe Product and Prices and a sync status. Every edit is
committed and then pushed; Stripe reports every change back. *Correct*: what is
marked as synced is sold at Stripe for the price the shop shows, and is on sale
there exactly when it is here.

### Accounts and privacy (modelled)

**Sessions and tokens** (`auth/services/session_service.py`,
`token_service.py`). State: a Redis hash per session, a set of the user's
sessions, refresh tokens with a time of grace after rotation. *Correct*: no more
sessions than the limit; a reset ends them all; two tabs do not sign each other
out.

**Erasure, export, consent** (`gdpr/services/deletion_service.py`,
`export_service.py`, `consent_service.py`). State: deletion requests, exports,
consent records, email preferences. *Correct*: what has been called off is not
carried out; what is carried out leaves no copy; the last answer counts.

### Marketing flows (modelled)

**Flows** (`marketing/services/flow_builder_service.py`,
`flow_execution_service.py`, `workers/flow_worker.py`). State: steps,
connections, enrolments, executions with their waits. An event enrols a user and
carries the enrolment on to its first wait; workers take up expired waits.
*Correct*: every step once and in order; nobody is left behind; silence after
the goal.

### Content, tracking and search (modelled)

**Merchant accounts** (`payments/services/merchant_service.py`). State:
`merchant_accounts`, one row per merchant with Stripe's account id and status.
Onboarding creates the account at Stripe, makes a link and stores the row;
`account.updated` follows. *Correct*: a merchant has one account; the row says
what Stripe says.

**Catalogue content** (`ecommerce/services/category_service.py`, `product_service.py`,
`image_service.py`, `review_service.py`, `fee_tier_service.py`). State: the tree
of categories, a product's categories, a merchant's fee tiers, images as rows,
files and Stripe's list, reviews. *Correct*: what was saved is there; there is one
primary image and one review per customer; every row has its file.

**Tracking** (`tracking/routes/tracking_routes.py`, `tracking/services`; in the
browser `page-duration-tracker.tsx`). State: a key in Redis per visit, `analytics_sessions`, page
views, user agents, a presence hash; consent as the banner's record and the
header a request carries. *Correct*: a visit is one row that counts what came in;
nothing is counted without consent; time spent is time attended.

**Search engines** (`seo/services`, `seo/adapters`). State: overrides of meta tags with a trail of
snapshots, the registry of pages, the sitemap in Redis, crawl results, scores.
*Correct*: what an editor sets is shown; the sitemap follows; what the audit says
is so; following a recommendation helps.

**Schema** (`scripts/migrate.py`, `scripts/ensure_tables.py`, the deployment
in `.github/workflows/ci.yml`). State: tables and indexes, `schema_migrations`. *Correct*: the
record says what the schema is; `up` and `down` go through; the default fee tiers are
seeded once.

### Accounts, audiences and flows, beside the above (modelled)

**The browser tab** (`frontend/lib/api.ts`, `auth-context.tsx`,
`cart-context.tsx`, the checkout page). State: the user shown, two tokens in memory, a timer, the
cart shown with its optimistic changes, the checkout page's summary. *Correct*: a
tab shows the user it speaks for and the cart there is; it writes once.

**Accounts and roles** (`auth/services/auth_service.py`,
`admin_user_service.py`, `oauth_service.py`, `core/dependencies.py`). State: `users`, the role in every
token issued. *Correct*: an administrator remains; nobody acts with more than
their role once it is taken; an address belongs to one account.

**Flow builder and event registry** (`marketing/services/flow_builder_service.py`,
`tracking/services/event_service.py`). State: steps, connections, status, trigger;
`event_definitions` and each process's cache of them. *Correct*: what is active
has been validated; an edit loses no enrolment; an active flow hears of its
trigger.

**Segments and groups** (`marketing/services/segment_service.py`,
`group_service.py`, `tracking/routes/custom_metrics_routes.py`,
`tracking/services/audience_seed_service.py`). State: filters, SQL
of metrics, counts, presets, positions. *Correct*: a segment reaches whom its count
says, while its metric is an audience; what was put in order is in order.

**Campaign content** (`marketing/services/campaign_service.py`,
`template_crud_service.py`, `campaign_delivery_service.py`). State:
templates by name, variants with weights. *Correct*: a campaign says the same to
everybody; no edit is lost; variants are split by weight.

**Text messages** (`notifications/services`, `notifications/adapters`). State:
`message_log`, the recipients' rows, the providers' reports. *Correct*: a message
accepted is recorded; delivered means delivered.

### Parts that are not modelled

Digital assets (an HMAC and one INCR per download), the fixed-window rate limiter,
attribution and statistics, API keys, notification automation, SEO advisors and
keywords, price and fee arithmetic, everything that only reads, seeding and
simulation scripts, the markup of the storefront: see section 5 for the reasons.
The directories for recommendations, chatbot and SaaS are empty placeholders.
`PROJECT.json` lists every part with its files and status.

### How the parts interact

    cart ──checkout──▶ order ──reserve──▶ inventory ◀──release── webhook, reaper, checkout
                         ▲                     ▲
        processing ──────┤                     └── adjust, product editor
        completed, rejected ── webhook ◀── Stripe events (any order, repeated)
        expired ── reaper                         ▲
                                 PaymentIntent ◀──┴── customer
    webhook, auth, automation ──send_email──▶ provider ──reports──▶ email webhook ──▶ suppression
                                   └─▶ retry queue ─▶ retry loops ─▶┘         └──▶ recipients
    administrator ──send──▶ campaign delivery ──▶ provider                          ▲
                                   └──── insert row, then message id ───────────────┘

    guest cart ──merge──▶ cart ──▶ order, checkout session ──▶ Stripe ──events──▶ webhook
                           │ ▲ coupon (checked here, counted with the order)
                           └─▶ abandonment sweep ──event──▶ flow: enrol, send, wait ◀── flow worker
    product, variant, code ──push──▶ Product, Price, coupon at Stripe ──events──▶ product, variant
    refund route, dashboard ──▶ Stripe ──charge.refunded──▶ books, order
    user ──▶ erasure ──▶ every table with personal data, exports, consents, sessions

Orders, webhook handlers and reaper share the rows of `product_variants`
(row locks) and of `orders` (no lock, last writer wins). Checkout and webhook
share the PaymentIntent: the webhook may be through with a payment before the
request that made the intent has finished.


## 2. The modules

### StockReservation, implementing StockLedger

Each identifier is one transaction, of one of five kinds (`Orders`, `Sessions`,
`Releases`, `Adjustments`, `Overwrites`), and goes through its lines statement
by statement. `stock` and `ledger` are what is committed; `change` and `noted`
are what a transaction has written and not committed, as MVCC keeps them;
`holder` is the row lock; `seen` is the value `SELECT ... FOR UPDATE` returned,
which the Python code compares in the next statement.

| Action | Code |
| --- | --- |
| `AskRow` | the loop over the lines; orders in ascending id (`ORDER BY`), the rest in any order |
| `SelectForUpdate`, `Reserve`, `RefuseOrder` / `SkipLine` | `reserve_stock`, and the two ways its callers treat the `ValueError` |
| `AddStock` | `release_stock`, `adjust_stock` |
| `OverwriteStock` | `update_variant` |
| `Commit`, `Rollback` | commit of the caller; end of the session |
| `Crash` | worker, connection or statement fails at any point |
| `DeadlockVictim` | PostgreSQL aborts one transaction of a waiting cycle |

`StockLedger` is the inventory without locks and statements: an order takes all
its lines, if all are in stock, in one step (`Place`) or nothing (`Refuse`); a
paid session takes what there is (`Fulfil`). The refinement maps `stock` to the
committed stock and the outcome of a transaction to its phase.

### OrderLifecycle

An order is identified with the checkout request that makes it, and every
action is one committed transaction or one call to Stripe. `pc` is the place of
the request, `order`, `payment` and `cart` are the three status columns,
`taken` counts the units an order has taken and not given back, `intent` and
`tries` are Stripe's side, `sent` the events Stripe has to deliver. A handler
runs in two transactions (`MarkPayment`, then `SettleSucceeded` or
`SettleFailed`), and `LoseEvent` cuts it off between recording and end. The
reaper selects first (`Select`) and then deals with the selected rows without
looking at their status again (`Reap`), as the code does.

`OrderStatuses` is the CHECK constraint. Migration 002 (`MigratedStatuses`) does
not contain `expired`, the status the reaper writes, so that `ReapFails` is what
happens in the shipped schema. `OrdersReaped.cfg` adds `expired` in order to
check the reaper's logic too.

The stock of one variant is a counter here: `StockReservation` justifies that,
since its refinement shows that a reservation of all lines is one step.
Likewise `Receive` is atomic because `WebhookInbox` implements `EventInbox`.

### WebhookInbox, implementing EventInbox

`verify_and_process_webhook` statement by statement, for several deliveries of
the same event in several workers: look up, INSERT (which waits for an
uncommitted INSERT of the same id and fails after its commit), COMMIT, dispatch.
The losing INSERT raises, and the answer is 500. Stripe delivers until it gets
a 200.

### EmailDelivery

`pc` is the place of a `send_email` call, `row` and `msgid` its row in
`email_events`, `copies` the messages the provider has accepted for it, whoever
knows of it. A retry loop `holds` an item between its LPOP and its end. Reports
carry the message (email and copy) and a kind and come in any order. What becomes
of them is the `provider`'s matter: its adapter chooses the idempotency key (`Key`:
the message id for Brevo and SES, a key per report for SendGrid) and the name
(`Understood`: `process_webhook` knows Brevo's; a complaint that SES or SendGrid
report is called `complained`, for which it has no handler, and SendGrid's
unsubscribe is called the same). SendGrid posts reports in batches, of which the
adapter reads the first and the route acknowledges all: `ProcessWebhook` has the one
that is read and remembers in `unread` whose bounces were not. Reports of a
provider that no handler is for stand together as its complaint (`Reportable`).
Three simplifications: all mail goes through one provider, while the code has a
setting for each type of mail and parses every report with the default one's adapter;
the message id of a report is the one its send returned; and no webhook secret is set
(the route takes the signature from Brevo's header whatever the provider, so that
with SendGrid's secret set every report is turned away). The console provider, which
sends nothing, is left out.
`EventStatuses` is the CHECK constraint of migration 041.
Failures are one budget, `faults`: a task or worker that dies, a database or
Redis call that raises, an HTTP timeout after the provider accepted, a COMMIT
whose answer is lost.

### CampaignDelivery

One campaign and several deliveries of it. `pc` is the place of a delivery,
`todo` the recipients it has before it, `who` the one it is at; `row` is
`campaign_recipients.status`, `msgid` says whose row carries its message id,
`copies` counts what the provider has accepted for each user.

| Action | Code |
| --- | --- |
| `Accept` / `Refuse`, `Mark` | the SELECT of a draft or scheduled campaign; the UPDATE to `sending`, without a condition |
| `Resolve`, `Empty` | `resolve_audience` and `filter_recipients`; the two early returns |
| `Insert`, `SkipDuplicate`, `InsertFails` | INSERT ... ON CONFLICT DO NOTHING and its COMMIT |
| `GuardPasses`, `GuardRefuses`, `GuardFails` | `check_guardrails`; an exception lets the recipient pass |
| `Send`, `SendRefused`, `SendTimesOut`, `RenderFails` | the call to the provider |
| `Store`, `Drop`, `StoreFails`, `DropFails`, `MarkException`, `MarkExceptionFails` | the transaction after it, and its exception handler |
| `Finish`, `FinishFails`, `CutOff` | the last UPDATE with its one retry; the end of the worker |
| `Cancel`, `Withdraw`, `Report` | administrator, user, provider |

`Queries` says which guardrail queries the schema can answer. With the
migrations (`MigratedQueries`) it is only the consent query for telephone
numbers: the one for email asks for a column that does not exist, and the
suppression query for a table that does not exist. So an email always passes,
and a number passes if its user consents, since the suppression query that
follows raises. (The consent query for numbers finds nobody until an
administrator has created communication types named `sms` and `whatsapp`: the
seeded ones have other names.) A campaign is an email to all who consent, an
email to a segment made of a metric, which asks for no consent, or a text or
WhatsApp message. Order and batches of the recipients do not matter and are
left out.


### ShoppingCart

A request carries out one of sixteen operations; `Program` gives each as the
sequence of its Redis commands and SQL statements, and an action is one of those.
`req` holds what the request has read: `brought`, the guest cart, and `mine` and
`copy`, the cart row. Users stand for guest sessions too. `asked` adds up what a
user has asked for, `crowded` notes who had two requests in progress.

| Action | Code |
| --- | --- |
| `Peek`, `Keep`, `NotInGuestCart`, `Empty` | `_get_guest_cart`, `_save_guest_cart`, `clear_cart` |
| `Find`, `Create` | `_get_or_create_auth_cart` |
| `Look`, `Put`, `Set`, `Merge` | the statements of `add_item`, `update_item`, `remove_item`, `clear_cart`, `merge_cart` |
| `Validate`, `Spread` | `validate_discount`, `_apply_discount_to_cart` |
| `Open`, `Place` | `create_order_from_cart`, with `increment_uses` |
| `Select`, `MarkAbandoned` | `detect_abandoned_carts` |
| `Deactivate`, `Fail` | `deactivate_discount`; any exception or the end of the worker |

### CheckoutSessions

`sessions` are Stripe's, with the items they were made of; the cart goes on
being edited (`Add`, `Remove`), ordered (`PlaceOrder`) or paid in another session
(`OpenSession`). `Pay` delivers the event; `Look`, `Order` and `Convert` are the
handler's three transactions, `OrderFails` the exception it logs and passes over.
`disturbed` are the sessions whose cart was touched by anything else since.

### Refunds

The route is `CheckOrder`, `CheckPayment`, `Refund`, `Book`, `Mark`; the handlers
are `Pay` and `Complete` of the payment, `BookEvent` and `MarkEvent` of
`charge.refunded`. `Latest` is what `get_payment_by_order` finds: the newest
record of the order, a refund's too, which is what keeps the route from refunding
again. `RefundAtDashboard` and `SetStatus` are staff.

### Subscriptions

`subs` are Stripe's, `rows` the shop's. A request finds or makes the Stripe
customer (`Find`, `MakeCustomer`, `MapCustomer`), and subscribes (`Subscribe`,
`Insert`) or opens a session (`MakeSession`, `PaySession`), cancels (`Modify`,
`NoteEnding`), or deletes the product (`CountActive`, `DeleteProduct`). Stripe's
side is `Paid`, `Expired`, `PaymentFails`, `Ends`; `Handle` is
`update_subscription_from_webhook`, in any order. `muddled` are the subscriptions
one of whose reports came out of order, before the row, or was misleading.

### StripeCatalog

Each request is a list of steps, which the steps themselves extend:
`SyncProduct`, `SyncVariant`, `CopyDefault` and `Archive` are the four functions
of `catalog_sync_service` as lists. A call of Stripe is answered (`Answer`),
refused (`Refuse`) or carried out with its answer lost (`Lose`). `ReadForEvent`,
`ArchiveLocally`, `ForgetItem` and `ClearPrice` are the handlers of Stripe's
events; `ArchiveItem`, `DeleteItem` and `ArchivePrice` somebody at the dashboard.
`upset` counts what may set the two sides apart: requests that overlap, answers
lost, workers cut off, and events that undo a later edit.

### StripeCoupons

In the same way, for codes: `Insert`, `Fetch`, `Write`, `SwitchOff` in
PostgreSQL, `CreateCoupon`, `CreatePromotion`, `Delete` at Stripe with their
failures. `Resync` is what `update_discount` decides to do there. `DeleteFails`
looks like `Delete`: the adapter swallows the exception.

### CartView

`cart` is the server's, `shown` the tab's. An operation (`op`) first shows what it
expects (`Begin`), then waits: `Serve`, `Refuse` or `NetworkError`, then `Show` or
`Fail`, which takes it back, in whatever order the answers come. `page` is the checkout page with its
`summary`; `Pay`, `Redirected`, `Visited`, `BackToShop` are the way to the
confirmation page, which clears the cart. `disorder`, `unheard`, `crossed` count
answers that overtook another one, answers that were lost though the server had
acted, and what met a checkout.

### MerchantAccounts

`Onboard` (the SELECT), `CreateLink`, `CreateMerchant`, `StoreMerchant` are
`onboard_merchant`; `Changes` is Stripe's review, `AccountUpdated` its report, in
any order and perhaps before the row. `told` is what `GetStatus` has answered.

### CatalogContent

A request reads (`Create`, `Move`, `Replace`, `Upload`, `Prime`, `Discard`,
`Review`) and writes in one COMMIT (the actions named `...Write`); images then go
on to the file (`Unlink`) and to Stripe (`ListImages`, `SyncImages`). `lost`,
`uneven`, `unsynced` note what an overlap or a fault has cost.

### TrackingIntake

The Redis commands and statements of a page view, a batch of them, a page the
middleware records, an event, a signal of the account and a heartbeat, one action
each: `pc` says which comes next. `visit` is the row of `analytics_sessions`, whose
`session_id` is UNIQUE: of two requests that found no row (`Lookup`) the second one's
INSERT fails, and the request records nothing (`InsertSession`, counted by `lost`).
`agents`, `source` and `utms` are the rows for browsers, referrals and campaign
parameters. `clock` moves on, so that keys lapse; `answers` are what the visitor has
said about consent, by the banner or the recorded answer. `touches` counts the
requests that have counted for the session, `crossings` those that began, and lapses
of the presence, while another request was in progress, `cuts` those cut off.

The reports are operators of the state, each with the SELECT's range of time:
`kpi_for_range`, `total_sessions`, `total_agents`, `SessionsFrom`,
`SessionsOfCampaign`, `get_session_detail` and so on. They do not all count by the
same column (views by `created_at`, sessions by `started_at`, devices by the time a
session was going on), which is why `ReportsAgree` is not a matter of course.

### PageTimer

One tab: `Interact`, `Hide`, `Show`, `Navigate`, `Unmount` are the visitor,
`IdleFires`, `Pulse` and `Tick` time. `attended` is the time the visitor did attend
to each page, against which what is `reported` is measured.

### SearchPages, SiteAudit, PageScores

`SearchPages` has the overrides (`SetMeta`, `SetWrite`, `DropMeta`) and the trail of
snapshots the requests and the rescorer add to (`Open`, `ReadMeta`, `Compare`,
`Store`), the registry (`Sync`, `Upsert`, `List`, `Unlist`, `Visit`) and the
sitemap in Redis (`Build`, `Cache`, `Regenerate`, `Expire`). `SiteAudit` fetches a
page that may be a minute old (`Fetch`, `Revalidate`), compares (`Compare`) and
counts (`Audit`, `ReadMeta`, `Report`). `PageScores` is an algorithm: the rules
of both scores as functions of a page's facts (`SeoPasses`, `GeoPasses`), and an
editor who follows one recommendation after the other.

### SchemaMigrations

A run of `migrate.py` or `ensure_tables.py` reads what is to be done (`ReadPlan`) and
does it, a file with its record per step (`Apply`, `RollBack`, `Baseline`,
`Ensure`), until one fails (`RefuseFile`, `RefuseRollback`, `Break`); a deployment is the
three after each other. Migration 014 is the exception: its UP section has a BEGIN and a
COMMIT of its own, so that it is two steps, its statements (`ApplyApart`) and the INSERT of
its version (`Record`). A run between the two is in `apart`, and `seedings` counts how
often the default tiers have been inserted into their table, which has no key that would keep
a second set out. The plan is the set of files left; which of them is due (`IsDue`) is up to
the command: the first one going up, the last one going down. `Switch` changes the settings the files
depend on. A file is represented by the objects it makes, those it needs, and those its
DOWN section alters without asking whether they exist (`Alters`). Statements that fail
because of the rows they find (the DOWN sections of 012 and 041 bring back narrower CHECK
constraints) are a case of `Break`.

### UserSessions

One Redis command per action: `Login` reads the members and picks the `Victims`;
`Drop`, `Unlist`, `Scan` delete one session, its entry and its tokens; `Hash`,
`Index`, `Token` make the new one. `Validate`, `CheckSession`, `Rotate`, `Token`
are `refresh`; `Members`, `DropAll`, `UnlistAll`, `ScanAll` the reset. `Expire`
and `Lapse` are time.

### BrowserTab

`shown` is the user in the header, `access` and `csrf` the tokens in memory,
`cookie` the browser's refresh cookie, which another tab may change
(`SignInElsewhere`). A call of `apiFetch` is a `call` with its place between the
awaits; the shared refresh, the timer's, a 403's and the tracker's are `refresh`
by owner. `crossed` counts what went on while the cookie changed hands.

### AccountRoles

An access token is a member of `sessions` with the role it was issued with.
Requests read (`SetRole`, `SetActive`, `SoftDelete`, `Register`, `FromProvider`),
write (`Write`), and only then end the sessions concerned (`Revoke`). `identity` is
the provider's account, `links` the verification links, `respelled` counts
addresses that differ in capitals.

### AccountErasure

A call of the API is two or more steps, the first of which reads: `Ask`,
`Insert`; `Look`, `Process`, `Erase`, `Commit`; `Cancel`, `WriteCancelled`;
`AskCopy`, `Open`, `Collect`; `Answer`, `Write`. `Erase` fixes what the DELETEs
see, `Commit` makes it visible; what is written in between survives. `EraseFails`
has both ends the code may come to: the request put back, or stuck in
`processing`. `overlaps` counts calls that come in over another one.

### AutomationFlow and FlowBuilder

In `AutomationFlow`, `links` are the connections, `enrolled` the user's enrolments
with `at` = `current_step_id`, `run` what a request or a worker has in hand.
`Validate` and `Activate` are two steps of `activate_flow`; `Edit` the connection
routes, which ask for no status. `Fire` is an event, which may trigger the flow or
be the one it aims at (`ReachGoal`). `Send`, `Webhook`, `Update`, `Wait`, `Branch`,
`Split`, `StepFails` are `execute_step`; `Advance`, `Move`, `Complete`
`advance_enrollment`; `Scan` and `Mark` `advance_expired_waits`. `Answers` is what a
branch may be told: for anything but `email_opened`, `has_purchased` and
`score_above`, "no". Starting flow workers is left to whoever deploys them
(`backend/main.py` starts none). `Verdicts` is what `execute_step` may come to,
`Proceed` what a worker goes on to with it, `InsertEnrollment` the INSERT that the
unique constraint may refuse. `failures` counts the steps that failed and the
threads that were cut off (`CutShort`), `retakes` the waits that a worker took up
while another one had them in hand; with `edits` and `pauses` they are bounded by
`MaxMishaps`.

`FlowBuilder` is the other half: steps are added, reordered and deleted, the
trigger changed, the flow activated (`Activate`, `ReadSteps`, `Validate`,
`ActivateWrite`: four reads and a write), paused, archived, removed, with one
enrolment that rests at a step and is carried on.

### EventRegistry

`cache` is each process's copy of what is enabled, reloaded after `TTL`; `Step` goes
through a toggle, an event, a batch, an activation, a change of trigger, each from
one await to the next. `changed` is when the switch was last moved.

### Segments, AudienceGroups

`metrics` and `segments` are the tables, `cached` the results of SQL the editor has
run; `Resolved` is whom a campaign to a segment reaches: nobody, if its metric is no
audience any more (`SwitchedOff`), since `_get_metric_sql` then raises. `Seed` is the
preset's metric and segment, made at start; `Recount` goes through the segments. In
`AudienceGroups` a list of rows is put in order with one UPDATE per row (`WriteRow`,
`Commit`), each of which locks its row until the end (`lock`); what is in the way
of another one waits, and PostgreSQL ends a circle of waits (`Abort`).

### CampaignContent

A text is the set of the edits that are in it. `Load` and `Save` are an editor's
browser, `Compose`, `ComposeVariants` and `Draft` make a campaign of a template or
of variants, `Send`, `Mark`, `SendNext` render and send it, one recipient at a
time; `got` is what each has got.

### TextMessages

`sending` is the place of a message: handed over, accepted, recorded or forgotten.
`Webhook` is any report of the provider's, at any time, known or not. `heard` is
what has been reported of a message and `row` what the database says of it.

## 3. What the runs show

Passing runs:

| Run | Instance | Properties |
| --- | --- | --- |
| `stock_sorted` | two orders of two variants (2 and 1 units), a third of the scarce one, one correction; 1,131 states | `NoOversell`, `LedgerExplainsStock`, `NoLockCycle`, `EveryTransactionEnds` |
| `stock_mixed` | two orders, a paid session, a release, a product-editor write, with deadlocks happening; 17,348 states | `ImplementsLedger` |
| `orders_shipped` | the schema as migrated; two requests for one cart and a free order; two units, one attempt, a reaper, one cut-off; 14,579 states | `SoldWithinStock`, `NothingTwice` (returns are earned, a converted cart is not checked out again), `SettlesUnlessCutOff` |
| `orders_reaped` | `expired` admitted; two requests, one unit, two attempts, a reaper, one cut-off; 252,366 states | `CompletedWasPaid`, `RejectedReturnedStock`, `StaleOrderExpires` (and gives its stock back) |
| `reception` | emails: a transactional and a marketing email of one user, two retry loops, one retry allowed, one fault, two reports by Brevo or SendGrid; Stripe: three deliveries of one event, one of another, two cut-offs; 402,388 states together | `DuplicatesNeedAFault`, `BouncesSuppress`, `SettledStaysSettled` (final statuses and suppression), `EmailsSettle`; `HandledAtMostOnce`, `EventsAreHandled`, `ImplementsInbox` |
| `campaign` | two deliveries, one user who consents and may withdraw and one who does not, four kinds of campaign, the schema as migrated, one fault; 85,009 states | `AtMostOneMessage`, `NobodyForgotten`, `NumbersConsentEnforced`, `RowsTell` (engagement is not taken back, a lone delivery's count is right), `CampaignEnds` |
| `shop` | fifteen components, see the bounds; 1,433,276 states together | see the next table |
| `accounts` | eleven components, see the bounds; 1,300,202 states together | see the next table |

| Property | Component: what it says there |
| --- | --- |
| `CartsAreAsAsked` | carts: nothing is in a cart or an order beyond what was asked for, uses of a coupon are orders |
| `PaidIsOrdered` | sessions: the goods paid are ordered, once |
| `SecondRefundIsCounted`, `BooksCoverRefunds` | refunds: the route gives money back once, but for overlaps and faults; the records come to no less than what has gone back |
| `AgreesWithStripe` | subscriptions, merchants, catalogue, images, coupons: what the shop shows is what is at Stripe |
| `DuplicatesAreCounted` | all: types; and whatever there should be one of, there are no more of than overlaps and faults |
| `VisitsAddUp` | visits: counts and rows add up, or an overlap or a cut-off is to blame; what administrators are shown of one visitor agrees, and so does the presence |
| `ContentIsAsSaved` | content, search, audit: what was saved is there, trails add up, what was told is so; cart view: a tab shows the cart, and its order after a checkout; timer: time reported is time attended, once |
| `SchemaIsAsRecorded` | migrations: the record is the schema, but for what 014 commits by itself; `up` and `down` go through; the fee tiers are seeded once unless runs overlap or are cut off |
| `NoStepOversteps` (action) | a coupon used up spreads no further; hand-made pages stay listed; advice helps; files are rolled back from the top |
| `UsersAreThemselves` | types; sessions within the limit, reachable by the reset, a second tab signed in; a tab shows and writes for its user; an administrator remains, nobody outranks their role, an address is one account's |
| `RightsAreKept` | erasure: a request cancelled or carried out stays so, no copy outlives it, preferences follow consents |
| `WalksTheFlow`, `NobodyIsLeftBehind` | flows: steps in order and once; everybody arrives |
| `FlowsAreFed` | flows: no loop is activated, silence after the end; builder: what is active was validated, edits lose nobody; registry: switches reach everybody, active flows hear of their trigger |
| `AudiencesAreAsAsked` | segments: reach is what the count says, but for a metric switched off as an audience; groups: order is as asked |
| `MessagesAreAsWritten` | content: one text for all, edits kept, split by weight; texts: the records say what became of a message |

Several properties say "but for" something: an overlap of requests, a fault, a
cut-off, each of which a history variable counts. That is what the code can keep:
it locks nothing between its statements, so that two requests that overlap may
leave two carts, two customers or two coupons; and the properties say that it is
no more than that, and never without an overlap or a fault to blame.

Runs that find a disagreement between the code and what the repository says of
it (details and quotations in `PROJECT.json`, `findings`):

| Run | Property | What happens |
| --- | --- | --- |
| `orders_retry` | `SoldWithinStock` | declined, unit sold to somebody else, then paid on the second attempt: completed without a unit |
| `email_bounces` | `EveryBounceSuppresses` | Brevo: with the message id as key, a bounce after any other report of the message is a duplicate |
| `email_complaints` | `EveryComplaintSuppresses` | SES and SendGrid: a complaint is called `complained`, which `process_webhook` does not know; nobody is suppressed |
| `campaign_consent` | `ConsentEnforced` | the guardrails cannot ask for consent to email and let everybody pass, also who has withdrawn since the audience was resolved |

The models also show, without a run of their own:

Of stock and orders:

- releases, reaps and checkout sessions lock the rows of an order in whatever
  order the query returns them and deadlock with orders, which sort theirs "to
  prevent deadlocks" (`order_service.py:29`); `NoLockCycle` fails as soon as the
  stock instance has a release of two variants. A webhook handler that is the
  victim loses its event;
- the checkout request may write `processing` over the `completed` of a webhook
  that was faster (`MarkProcessing`, `checkout_service.py:188`);
- two checkout requests that both read the cart before either converts it make
  two orders (`ReadCart`, `PlaceOrder` of two requests with one cart);
  `LateCheckoutRefused` is what does hold;
- a handler cut off after its event was recorded leaves a paid order in
  `processing` for good, which is why `SettlesUnlessCutOff` says *unless*;
- when resolving the Stripe customer raises (`CustomerFails`), the order stays
  `pending` with its stock, and the reaper looks at `processing` only; so does an
  order made by `POST /orders` that nobody checks out;
- `update_variant` breaks `LedgerExplainsStock`, and a paid session `NoOversell`,
  as soon as `Overwrites` or `Sessions` is not empty;
- a delivery that loses the race for the event id is answered 500 although the
  route promises 200; Stripe's redelivery then finds the event recorded;
- in the schema as migrated no stale order ever expires: the CHECK constraint of
  orders refuses the status the reaper writes (`ReapFails`), the exception is
  caught and the order stays `processing`. `tests/unit/test_order_reaper.py:24`
  marks that as a known failure, so the run checks the reaper's logic with the
  constraint repaired;
- every declined attempt on one PaymentIntent returns the order's stock again:
  two declines return a unit twice, which `ReturnsAreEarned` allows (each return
  has its decline) and `SoldWithinStock` does not survive;

Of email and campaigns:

- of two deliveries of one campaign the last to finish writes its own count as
  the recipient count, and one that comes when all rows are inserted writes
  `sent` with 0 while the first is still sending (`Empty`);
- a campaign cancelled between a delivery's SELECT and its UPDATE is sent all
  the same (`Mark`);
- a provider's report that comes before the message id is stored matches no row
  and is lost: the row stays `sending`. docs/features/campaign-implementation-plan.md
  has the row inserted first "to prevent webhook race", but reports do not look
  for the row by its own id;
- an exhausted email stays `queued`, since the CHECK constraint has no `failed`;
- a retry does not look at the suppression list, and a late `delivered` report
  overwrites `bounced`.

Of carts and coupons:

- a guest's code is validated without the limit per customer; `max_uses` can be
  exceeded by carts that held the code before it was used up
  (`UsedUpSpreadsNoFurther` is what does hold), and expiry is not looked at again
  when the order is placed;
- the abandonment sweep writes `abandoned` over `converted` and reports a cart
  that has been bought (`MarkAbandoned`); two workers report it twice; items do
  not touch the cart's `updated_at`, by which the sweep goes;
- two edits of a guest cart overwrite each other (`Peek`, `Keep`); what is added
  between an order's SELECT of the items and its conversion of the cart is lost
  (`Place`); looking at a cart creates one (`Find`, `Create`).

Of Stripe's mirror:

- a price override of 0 is shown as 0 and asked of Stripe as the base price
  (`catalog_sync_service.py:212`, `AmountAsked`);
- a late `product.updated` of the shop's own archiving archives a product that
  has been activated again (`ArchiveLocally`); a `price.updated` that is faster
  than the request it comes from leaves the status `error` (`ClearPrice`);
- a rotation archives the old price before it makes the new one, so that a
  failure leaves none; an archiving that failed leaves `synced` and the product
  on sale; a deleted variant's Price stays live (`Drop`);
- editing an inactive code makes a live coupon (`Write`, `Resync`); the adapter
  swallows a failed delete (`stripe_provider.py:463`), so that the coupon lives on
  although `discount_service.py:902` deletes it first in order to "block
  deactivation if Stripe fails"; a code restricted to products that are not at
  Stripe applies to everything there (`ReadProducts`); a code switched on again
  keeps the id of its dead coupon.

Of refunds, sessions and subscriptions:

- a refund of the route is booked twice, by the route and by the event it causes
  (`Book`, `BookEvent`), and a second partial refund at the dashboard books the
  running total; a refund of the rest books the whole amount;
- a late `payment_intent.succeeded` or an administrator writes over `refunded`;
  a refund returns no stock; after a partial refund the route refunds no more,
  since the newest record is no longer `succeeded`;
- what is added to the cart after its session was opened is ordered unpaid, and
  the second paid session of a cart gets no order; an ordinary checkout takes
  plans for goods (`PlaceOrder`);
- `incomplete_expired` is refused by the CHECK constraint; events out of order
  leave the older status; an event before the row matches nothing; the failure of
  a first invoice shows `past_due` (`Follow`, `PaymentFails`);
- a subscription paid in a session has no row at all (only
  `subscription_service.py:161` inserts one), so that its owner cannot cancel it
  here, and the product can be deleted although `product_service.py:358` "blocks
  deletion if the product has active/trialing subscriptions".

Of accounts and flows:

- refreshing does not lengthen the life of the session's hash (`Expire`), so that
  the session ends with its first token's time; a login that overlaps a reset
  survives it, unlisted;
- a cancellation that races the processing is confirmed and the data erased
  (`WriteCancelled`); an erasure that fails after a statement stays `processing`
  for ever, since the UPDATE that would put it back runs in the aborted
  transaction; nothing but the user's own look at the status starts an erasure;
- a consent or an export written between the DELETEs and the COMMIT survives;
  preferences edited directly leave the consent records as they are;
- validation looks for cycles among connections only, execution falls through in
  step order where there is none: `{2 -> 1}` of two steps passes and circles for
  ever (`LinkedNeverLoops` has `Linked` for that); a branch, split or ambiguous
  step without a way on leaves its enrolment where it is;
- with `allow_reentry` nobody is enrolled again (`InsertRefused`); pausing a flow
  stops nobody who is in it; two workers run a step twice or skip one; a step that
  fails leaves its enrolment `active` and at rest; activating writes over
  `archived`.
- a branch on `segment_member`, which the docstring lists, is always answered "no"
  (`Answers`); a WhatsApp step raises a TypeError (`flow_execution_service.py:446`),
  so that the step fails.

Of merchants, content and the cart shown:

- nothing but the SELECT of `onboard_merchant` keeps a merchant from two accounts:
  `user_id` is not UNIQUE, and which row `LIMIT 1` without ORDER BY then finds is
  open;
- two uploads at a time leave two primary images, two reviews of one customer pass
  the check, and two edits of the tiers leave the union of both; `delete_variant`
  neither deletes files nor tells Stripe, and `update_image` does not push;
- going back to the confirmation page clears a cart filled since (`Visited`);
  clearing a cart keeps its coupon.

Of tracking and the schema:

- the earlier answer about consent wins over the banner (`AnswerRecord`); an event
  cache never loaded counts as fresh in a process's first minute, since
  `_cache_loaded_at` is 0 and the clock monotonic;
- a table made by `ensure_tables.py` lacks the unique indexes of its migration
  (`idx_cr_campaign_user_unique`, `idx_fe_active_unique`), on which
  `CampaignDelivery` and `AutomationFlow` rest; a baseline of an empty database
  records migrations that never ran, and rolling it back stops at the first DOWN section
  that alters a missing table (`RefuseRollback`, `migrate.py:204`); two files share version
  002; `ensure` swallows errors (`Break`);
- `migrate.py:13` has "Each migration is wrapped in a transaction", but
  `014_merchant_fee_tiers.sql:47` commits, and its version is recorded after that, in no
  transaction (`migrate.py:161`): a run killed between leaves the fee tiers made and not
  recorded (`RecordMatchesSchema` says so), and the next run seeds them a second time, as do
  two runs at once, since `ON CONFLICT DO NOTHING` has no key to conflict with.
  `TiersSeededOnce` says what does hold.

Of search engines:

- products switched off stay in registry and sitemap; adding or removing a page by
  hand does not invalidate the sitemap; two first overrides of a page at once end
  in a 500, and one that races a DELETE is answered "set"; paths are not normalised;
- a product's page takes its OG tags from the product under an override; a title of
  None becomes "Product Not Found";
- the audit's best score is 33 of 45, a page removed goes on counting by its last
  crawl, one crawled page is enough for a check of all, and titles compare by
  containment;
- `_truncate` adds "..." and passes as a complete sentence; 28 of 100 GEO points
  cannot be reached, since the crawl stores no text; what is not known passes the
  one score and fails the other.

Of tabs, accounts and audiences:

- a login never schedules the timer that renews tokens, and a logout does not
  cancel it; a mistyped password with a token in memory refreshes and tries again;
- authorisation goes by the role in the token, so that a role taken lasts until the
  token ends if the session is not revoked (`Revoke` after `Write`); the last
  administrator may be erased; an address is UNIQUE as spelled and looked up in lower
  case; `find_or_create_user` and refresh do not ask for `is_active`;
- a metric may be switched off as an audience while segments are made of it
  (`custom_metrics_routes.py:451` looks for none): they go on showing their count and
  reach nobody (`SwitchedOff`). A campaign to one is marked 'sending' before
  `resolve_audience` raises; the route answers 404 (`admin_routes.py:106-109`), nothing
  is sent, and the campaign stays 'sending' (in `CampaignDelivery` an exception there
  is a cut-off). A flow whose trigger is such a segment hears of nobody;
- deleting a metric leaves its segments to their filters; editing a segment backed by
  a metric counts the filters and reaches the metric's users; a join counts a user
  several times; a discarded preset leaves a system segment nobody can delete; one
  count that fails ends the whole recount.

Of campaigns' texts and messages:

- the last save of a template wins; `variant_label` is ignored; cloning under a name
  in use is a 500; nothing starts a campaign at its `scheduled_at`; a resend renders
  with no data;
- a text message is sent first and recorded afterwards: one whose answer is lost is
  recorded as failed, one whose process ends not at all (`AnswerLost`, `Forget`); a
  late "delivered" undoes "opened" in the status of a WhatsApp recipient, though not
  in `opened_at`; Twilio's "sent" counts as delivered; the WhatsApp
  log never says failed; campaigns do not ask for `ENABLE_SMS`.

### Bounds, and why they are enough

- Transactions: a deadlock needs two transactions and two rows; overselling
  needs two orders and a scarce variant; a third order lets one fail and
  another profit. The rows of one order are never more than two because the
  properties are about pairs of rows.
- Attempts (`MaxAttempts` of `OrderLifecycle`): two are one decline and one
  retry, the shortest history in which an order both fails and succeeds. The
  shipped run has one attempt per intent, since with two `SoldWithinStock` fails.
- Cut-offs and faults: one places a failure between any two steps; the inbox has
  two, so that the delivery that takes over may die as well.
- Deliveries: two race, the third comes after.
- Campaigns: two deliveries race and two recipients can be shared out between
  them; one fault places a failure at any step of either. Reports need no bound:
  they change a status and are not counted.
- Email: one retry (`MaxAttempts` = 1) lets an item be refused, retried and
  exhausted; two reports of one message are a first and an overtaken one. Of the
  providers, Brevo and SendGrid differ in everything; SES has the keys of the one and
  the names of the other, and is in the run `email_complaints` and in the theorems.
- `MCShop` and `MCAccounts`: each component has as many requests as it takes for one
  to come between two steps of another one and for a third to meet what they leave
  (two to five), each with a choice of kinds (`Kinds`), and one fault. `Carting`,
  `Editing`, `Building` and so on, above each instance, say which: a request that
  creates comes first, one that edits second, one that ends things last. Operations
  that only commute with everything are in one request's choice together. Refunds:
  two requests, a payment of two units (a part and the rest), one act of staff, one
  fault. Erasure: three calls, two requests, two faults. Visits: two requests, of
  which one records pages of the site, a change of consent, one cut-off, two units
  of time.
- Things counted: two of a kind show what happens between them (images, Prices,
  sessions, templates, links); a third (`MaxMade`, `MaxRows`) what is left of a
  clone or a duplicate. Clocks run as far as the longest history that differs:
  seven beats of the timer are idle, back and idle again.
- Text messages: an SMS of a flow or of a campaign and a WhatsApp message of either or
  of an administrator's test, so that both logs and both kinds of recipients occur,
  WhatsApp recipients being the ones that can be read.
- `PageScores`: three pages that fall short of most rules between them, followed for
  two recommendations.

### Fairness

Only the program and Stripe's redelivery are fair, never the customer.
`StockReservation`: a request that is not cut off executes its next statement,
and PostgreSQL resolves a deadlock (`WF` of `Work`); `Crash` is not fair.
`OrderLifecycle`: requests and handlers run on, Stripe redelivers until
acknowledged, and the reaper loop (`while True`) sweeps again. `WebhookInbox`:
deliveries that nobody has acknowledged are repeated. `EmailDelivery`: senders
run on and the retry loops run for ever; providers owe no report.
`CampaignDelivery`: a request that was accepted runs on; nobody has to send a
campaign, and failures are not fair. `MCAccounts`: a request or worker of the flow
engine that is not cut off gets to its next COMMIT (`FlowCarriesOn`); nothing else
there is fair, and nothing in `MCShop`, whose properties are safety.
Weak fairness is enough throughout: no step that is required is disabled and
enabled again for ever.


## 4. What is proved

All theorems are for every value of the constants: any number of requests,
deliveries, calls, rows, attempts, cut-offs and faults. Assumptions on the
constants are the named `ASSUME`s of the modules; where a theorem needs more (a
CHECK constraint as migrated, nobody editing stock in the product editor), it is
a hypothesis of the theorem, and the text below says what becomes of the
property without it.

**StockReservation_proofs.** `IInv` says where every lock is and what every
uncommitted write amounts to. The invariant that matters (`LedgerExplainsStock`,
the refinement) is not inductive alone: that a COMMIT keeps it depends on the
writes being the lines' quantities (`WritesAreLines`), that depends on nobody
having changed a row under a transaction's lock (`LocksOwned`,
`StatementsInPlace`), and that an order never drives a row negative depends on
its reservations being still covered (`ReservationsCovered`).
`Invariance` and `TypeCorrect` follow by one lemma per action.
`LedgerIsExplained`: without product-editor writes the log explains the stock.
`SortedNeverDeadlock`: if every multi-row transaction sorts, no waiting cycle
exists for any number of transactions; in a cycle take the waiter whose row is
the largest: the holder of that row is itself waiting for a larger one.
`Refinement`: the transactions implement `StockLedger`; a COMMIT is `Place`,
`Fulfil`, `Add` or `Overwrite`, every rollback is `Refuse`, all else stutters.
`NothingOversold` adds up what the orders have reserved. It needs to know what a
sum over a finite set becomes when one more element counts, or one element
counts for more. The library's induction theorems take a predicate as a
parameter, which the provers cannot instantiate; so the lemmas on sums argue by
the smallest counterexample: among the finite sets for which the claim fails
there is one none of whose strict subsets fails (`WFMin` with the strict-subset
ordering, which is well-founded on finite sets), and one element less gives the
contradiction. `TakenFromShelf` then says that a COMMIT takes from the shelf what
it adds to the units sold, `TakenWithinShelf` that what the standing orders and
paid sessions have reserved never exceeds the opening stock and what was added
(without product-editor writes), and `NothingOversold` is the case without paid
sessions, which take stock that is not there.

**WebhookInbox** (at the end of the module). `InboxInv`: the claim on an event id is held by exactly the
delivery between INSERT and COMMIT, and one delivery at most owns the run of
the handler. `AtMostOnce`, `NoEmptyAcknowledgement`, `Refinement`.

**OrderLifecycle_proofs.** `IInv`: events tell the truth, a request leaves no
trace before its order, events and reapers are only about placed orders.
`PaidBeforeCompleted` and `RejectedReleases`, for any number of orders,
attempts, reapers and cut-offs and under either CHECK constraint.
`CartsAreOrderedOnce`: a checkout goes on with the cart it read only if no order
has been made of it. `ReturnsAreEarnedOnce`, in the schema as migrated: each
unit returned has a decline or a refused intent of its own; the invariant behind
it pairs declines with the events that report them and says which of these have
been settled, so that neither a redelivery nor a cut-off settles one again.
`NothingIsDoneTwice` is the two together, `NothingTwice` of the runs.
`NoMoreSoldThanStocked`, in the same schema and with one attempt at each
payment: the units off the shelf are in the hands of as many orders
(`Holders`), and completed orders are among these. With a second attempt it is
false, as `orders_retry` shows; and where `expired` is admitted, a payment that
comes after the reaper sells a unit that is back on the shelf.

**EmailDelivery_proofs.** `IInv`: the retry item of an email has one owner, the
queue or one retry loop, and whoever gives it back has had it refused or paid
with a fault. `NoDuplicateWithoutFault`: every copy after the first costs a
fault. `BouncesAreNotMissed`, for every provider: a bounce or complaint that was
read has suppressed its user, unless its name has no handler, another report came
under its key, or something failed; the invariant behind it is that a key in the
table is that of a report that was answered (`SeenWasAnswered`). The two violation
runs show that the first two exceptions happen. `WhatIsSettledStays` is `SettledStaysSettled`
of the run. The retry marks an email 'sent' whatever its status is; that takes
nothing back because, without a fault, an email with a retry item carries no
message id yet, so that no report has found its row (`Unreported`). And an email
asked for after its user was suppressed has nothing under way that could be sent
(`Silent`), and no step gives it anything.

**CampaignDelivery_proofs.** `IInv`: the delivery whose INSERT put the row there
owns it until it leaves it, and only the owner sends (`RowsOwned`); everybody a
delivery does not have before it has a row, its own or another's
(`EveryoneReached`); without a fault, a row without an owner has been settled
(`RowsSettled`). `AtMostOne`, for any number of deliveries and faults;
`NoneForgotten`; `FailedUnsent`. `ConsentOfNumbers` and `ConsentWhereAnswered` are
about behaviours, not states: who has withdrawn before their row is inserted is
`Barred`, and being barred is stable, because only `GuardPasses` leads to a send.
The second assumes what the schema does not provide, an answer to both consent
queries, and shows that this alone is what `campaign_consent` lacks.
`RowsTellTheTruth` is `RowsTell` of the run. A row that a report has written has
its message id (`ReportedHaveId`), so its message has gone out, and a delivery
that marks an exception without a fault marks one that has not. For the count,
the set of those who were sent a message grows by one at a time, and a delivery
that has been alone is at most one behind it (`LoneCounted`); with a second
delivery begun, or a fault, there is nothing to keep.

**Accounts_proofs.** For **AccountErasure**: calls read, decide and write without a lock, so what
is promised can only be promised but for calls that overlap, and the invariant
has to say what an overlap buys. `IInv`: a call holds what it read after its last
COMMIT (`CallsOK`), the calls that overlap are counted (`OverlapsCounted`), and
without an overlap whoever is at work on a request for erasure or an export is
alone with it (`Alone`). On that rest `PendingIsPaidFor` (`PendingCounted`: no
more pending requests, beside one, than calls have overlapped) and `RightsKept`,
which is `RightsAreKept` of the run: a request that was cancelled or carried out
stays so (`KeepsItsWord`), no copy of an erased user's data outlives the erasure
in an export (`NoCopyOutlives`), no preference the consent it was derived from
(`PreferencesFollow`).

In the same module, for **AutomationFlow**: any drafts, users' events
and workers, the threads finitely many (`WorkersAreFinite`), the mishaps bounded.
Nothing locks an enrolment and nothing but `current_step_id` says where it is, so
`StepsInOrder` (`WalksTheFlow` of the run: steps in order, none skipped, completed
only where the flow leads no further) has to say who may move it. What is left of
an enrolment passes from the event that made it to the thread that carries it, to
the row of the wait, to the worker that marks the row, and is in one of these
places only (`OneAtATime`); and each of them stands where the enrolment is
(`OnItsWay`), since a step that has been run is the last of `ran` and the step to
run next is one of those it leads to. Both hold while the flow is not edited and
no wait is taken up twice (`Calm`), which is the condition under which the code
can promise it. `FlowsFallSilent` is about the rest: however often flows are edited
and waits taken up again, an enrolment that is over sends at most one message
more, and one for each retake. The invariant counts what could still send (`Few`):
the threads that have the enrolment in hand and the rows that wait for it are no
more than one and the retakes, and neither are those about to send together with
the messages sent too late. Edits cannot add to it, for they move no enrolment;
only `Scan` can, and it counts itself when it does.

**Refunds** (at the end of the module). `SecondRefundIsPaidFor`: a second refund
by the route costs an overlap or a cut-off. Money is counted against excuses in
three steps: requests in progress against overlaps (`ActiveCounted`), refunds
without a record against requests about to book them and faults
(`UnbookedCounted`), and once there is a record, nobody whose check is still to
come gets as far as Stripe (`BookedCounted`), because the newest record is then
no longer `succeeded`.
`BooksCover`: with nothing under way and nothing cut off, the shop's records come
to no less than what has gone back. That is so although the amounts are booked
twice by some paths, because Stripe reports running totals: the last report
carries all that has gone back so far, and it has been booked or is about to be
(`LastIsReported`); one of several records is no more than their sum. What a
recursive sum does on appending is again proved from the smallest
counterexample (`InductiveSet`, on intervals of the natural numbers).

**ShoppingCart_proofs.** Any number of users, requests and quantities; the
requests and the workers that sweep are finitely many, and the coupon has a limit
(`Parameters`). No request locks a cart, two of them may write the same row, and a merge adds two carts up; that nothing comes of it
which nobody asked for is not inductive, because a request is counted as asking
when it begins and writes later. So `IInv` sets what is
held anywhere, in the guest's cart, a cart, or the copy a request works on,
against what has been asked for less what requests are still to write
(`AllIsBacked`, with `Owed` for what is outstanding, counted as a set of units so
that it needs no sum). A request that has begun owes its quantity; the step that
writes it pays; a request that fails owes nothing any more and has written
nothing. `NothingUnasked` follows; with `CouponUsesAreOrders` it is
`CartsAreAsAsked` of the run (`AsAsked`). `CouponUsesAreOrders` needs that a request that
has ordered is done (`OrdersEnd`), so that each use counted is another order; it
says nothing of the coupon's limits, which are validated when the code is applied
and not again when an order is placed. `OneReportPerSweeper` counts a cart's reports and the
workers that have picked it (`ReportsAreBounded`); nobody picks one that is
reported. `AloneMeansOneCart`: while a user's requests do not overlap, one of them
is at work, and if it has found no cart there is none (`AloneAtWork`); a second
active cart takes two.

`NoFurtherOnceUsedUp` is `UsedUpSpreadsNoFurther`, that is `SpreadsNoFurther` of the
run: wherever the coupon is after a step, it was before, or a request has put it there
that has passed the validation (`FromBefore`, `Brings`). A coupon without a limit is
`max_uses` NULL in the code and is not modelled. That whoever is about to write the
coupon has passed it is a fact about the programs (`ValidatedBefore`).

At the end of the same module, for **CheckoutSessions**: any number of sessions,
carts, edits and handlers. A session is left alone until its cart is edited, ordered,
opened again or taken by another session's handler (`disturbed`).
`PaidGoodsAreOrdered` (`PaidIsOrdered` of the run) follows such a session through the handler
(`LeftAlone`): until the handler looks, the cart is active and holds what was
paid, and nobody is at work on it; then the handler holds the cart and has read
it; then the order is there. That the next handler finds no cart of a session
left alone already ordered is what `Taking(active) = {}` is for: without it the
invariant is not inductive. `CartsAreOrderedOnce` counts: a cart's orders and the
handlers about to make one are no more than the overlaps and faults and one
besides, and not even that one while the cart is active and nobody is at work on
it (`Covered`), which is how a handler that comes to it pays for its order.

At the end of **ShoppingCart_proofs**, for **SchemaMigrations**: any runs of the
scripts, targets and cut-offs, any moment at which they are started. The files are
those of the repository, so that facts about them (no two create the same, one of a
version applies, what a file needs comes with an earlier one) are lemmas about a list,
proved by looking. `RecordIsTheSchema` is `SchemaIsAsRecorded` of the run. That record
and schema agree holds however many runs there are at once, as long as the settings
stay: it needs only that a plan holds files that apply (`PlansApply`). That no file is
refused without something to blame needs one run at a time, and then two facts about
it: the record has no gaps (`NoGaps`), and the plan the run has read once is still what
there is to do (`PlansAreCurrent`). So what the file that is due needs has been created
by files that are recorded, and of its own tables there is none. Migration 014, which
commits itself, is the exception that the statement names, its table while a run is about
to record it or after one was cut off there, and it needs an invariant of its own
(`ApartInv`): only a run that goes up and has found 014 unrecorded is ever between its
COMMIT and its record (`ApartOK`); with one run at a time what it has found still is so
(`PlansAreNew`), so that its seeding is the first and, unless it is cut off, the last
before a rollback (`SeededOnce`). `FromTheTop` is
`DownFromTheTop`: nothing recorded is above the file rolled back, because it would be
in the plan and due before it.

At the end of **Accounts_proofs**, for **TrackingIntake**: any visitor with finitely
many requests (`HitsAreFinite`), any paths, intervals and cut-offs. `VisitsAreCounted`
is `VisitsAddUp` of the run. Nothing is locked, so what is recorded twice, turned away
or missing has to be set against the overlaps, and the invariant counts the requests
by where they are. No more of them are in progress than have crossed, and one
(`Crowd`). A request on its way to a second browser's row or to an INSERT that will
fail is paid for already, like the rows and refusals that are there (`Browsers`,
`TurnedAway`). As long as the session has no row, whatever has counted for it or is
about to was let through by a key in Redis that somebody has set, and who set it is
still on the way to the row (`Missed`, `Setters`), unless they were cut off; from then
on `Counted` carries the difference. Every view and event stands behind a request that
has counted, two at most for one (`Backed`), and every row of a campaign behind a view
(`Tagged`). For the reports, the session starts no later than its first view
(`StartsFirst`); for the presence, what a heartbeat has read is so when it writes
(`ReadIsSo`), both only as long as nothing crosses.

### Only model-checked

- Everything temporal beyond safety (`EveryTransactionEnds`,
  `SettlesUnlessCutOff`, `EventsAreHandled`, `StaleOrderExpires`,
  `EmailsSettle`, `CampaignEnds`, `NobodyIsLeftBehind`): it needs fairness and
  ENABLED, which the prover does not handle.
- The properties of the components of `MCShop` and `MCAccounts` other than
  `ShoppingCart`, `CheckoutSessions`, `Refunds`, `TrackingIntake`,
  `SchemaMigrations`, `AccountErasure` and `AutomationFlow`, and the action
  properties in `NoStepOversteps` other than `SpreadsNoFurther` and `DownFromTheTop`.
- `LinkedNeverLoops` of `AutomationFlow`: what the check for cycles is worth needs
  an induction over the length of a path through an arbitrary graph.
- What a recursive definition computes for every input, except for sums, where
  an argument by the smallest counterexample replaces the induction.


## 5. Abstractions

Left out everywhere: prices, addresses, texts, logging, metrics. Time: a
timeout may strike at any time (`Select`, `SendTimesOut`). One order of
`OrderLifecycle` is one unit of one variant. Events are delivered as sets:
reordering and repetition are inherent. Emails sent by handlers and analytics
events are not part of the order model: both are fire-and-forget and change
none of its state. `record_event`, which commits its caller's session, is
harmless today: the one event recorded inside an order's transaction
(`coupon.exhausted`) is in no migrated event definition, so it returns early.
The boundary of an iteration of the retry loop (ten items) is not modelled; nor
is the 24-hour lifetime of its counter. Of a campaign, the links and their
clicks, the pressure log and the progress shown in Redis are left out;
so are frequency caps, quiet hours and the sunset policy, which the migrated
schema never gets to ask for. The idempotency of email reports is in
`EmailDelivery`; `CampaignDelivery` lets a report come any number of times, under
Brevo's names.

### What is not modelled, and why

- *Code that does not take effect as deployed.* `AttributionMiddleware` compares
  paths without the prefix the modules are mounted under (`module_loader.py:101`),
  and `merge_anonymous_attribution` has no caller; the statistics refresh worker
  selects a column the migrations do not have (`stats_refresh_worker.py:147`);
  short links and the progress of a campaign import `backend.core.redis_client`,
  which does not exist, and go on without; the guardrails on frequency, quiet
  hours and sunset are never reached; `fire_notification_event`,
  `refresh_segment_counts`, `check_segment_membership` and `send_campaign` have no
  caller.
- *Functions of their arguments with no state:* pricing and fee arithmetic, HTML
  extraction, keyword and content advice, rendering, markup, the HMAC of a
  download link.
- *Reads:* admin lists, exports to CSV, search, and statistics but for those in
  `TrackingIntake`. They change nothing.
- *Single statements on a row of their own,* where calls that overlap lose nothing
  but the earlier of two edits: API keys, wishlists, a download's counter,
  `charge.succeeded`, switching notification rules on and off.
- *The administrator's status change of an order* in `OrderLifecycle` (it is in
  `Refunds`), and two reapers with the constraint repaired.
- *Infrastructure:* the rate limiter, health checks, the startup seeder, seed and
  simulation scripts, components of the frontend that only display.


## 6. What would come next

1. Theorems for the components of `MCShop` and `MCAccounts` that have none, in
   this order: the onboarding overlaps (`MerchantAccounts`), a visit's time adds
   up (`PageTimer`), an administrator remains (`AccountRoles`).
2. An abstract specification of the settlement of an order (reserved, then sold or
   returned), which `OrderLifecycle` implements in the schema as migrated.
3. A campaign as one step, which `CampaignDelivery` implements up to faults.
4. In `OrderLifecycle`: the administrator's status change, and two reapers with
   the CHECK constraint repaired.
