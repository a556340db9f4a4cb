# Passimo in TLA+

Passimo is a loyalty platform: a Next.js/TypeScript server (`app/api`, `lib`) over PostgreSQL
(`db/migrations`), with a browser client for the counter (`lib/client`). Merchants give customers
points, rewards, gift cards and memberships; a job queue in the database does the slow work; Stripe
bills the merchants.

This directory holds specifications of its core logic, the TLC instances that check them and the
proofs that go beyond those instances. Source paths below are relative to the repository.

## What runs concurrently

Everything the specifications are about happens between transactions of one PostgreSQL database:

- An SQL function called with `admin.rpc(...)` is **one transaction at READ COMMITTED**. What it
  reads before it holds a row lock can be stale when it writes. (The functions are created as
  `fidelio_*` and renamed `passimo_*` by `000017`; the specifications drop the prefix.)
- A `select`, `insert` or `update` made from TypeScript is **a transaction of its own**. Between two
  of them other requests run, and the process can die.
- `lib/db/query.ts` **returns** what a statement fails with (`:33`). Where the caller does not look at
  `error`, a failed read is an empty result and a failed update is one that was made: those handlers go
  on, and their jobs succeed. The specifications give such statements that outcome, and a history
  variable names what it has touched (`unread`, `unmarked`, `guessed`, `uncounted`, ...).
- The server runs many instances; the queue's workers and the nightly jobs can overlap.
- Outside the database are Stripe (at-least-once webhooks in any order), the mail, push and wallet
  providers, and browsers that queue scans while offline and send them again.

So an action of a specification is the part of a handler between two points where another
transaction can commit: a locked section up to its commit, a single statement, or an unlocked read.

## Inventory

| Component | State | Operations | Hard behaviour | What makes it correct | Specification |
|---|---|---|---|---|---|
| Points ledger | `loyalty_ledger` (entries; credits are lots with `remaining`), `loyalty_accounts` (cached balance, next expiry) | `credit_account`, `debit_account`, `merge_customers`, `expire_balances` | key lookup before the lock; sweep charging a cursor's stale amounts; caches | a request moves points once; balance backed by lots; earliest expiry spent first | `LoyaltyLedger`, `PointsAccount` |
| Rewards | `reward_redemptions`, `rewards.stock` | `redeem_reward`, `createAdminGrantReward`, `fulfillGrantedReward` | overlapping replays, limit and stock races, grants in three statements | debit and redemption agree; limit and stock hold; a code is handed over once | `RewardRedemption` |
| Billing webhook, dunning | `subscription_events`, `businesses.plan/subscription_status`, `billing_dunning`, referral credit | claim, apply, dunning decision, write, notify, lapse | duplicates, reordering, throws and crashes between statements | effects at most once; merchant warned before paused; Stripe's retries end | `BillingWebhook` |
| Job queue | `jobs` | enqueue, claim, complete, fail, budget release, stall recovery | overlapping workers, crashes, writes by id after a takeover | one holder per job; attempts bounded; every job settles | `JobQueue`, `JobLease` |
| Earning (`record_earn`, `lib/loyalty/engine.ts`) | `activity_events`, credits by key | evaluate, record an event with its awards, follow-ups | caps evaluated before the transaction; replays; two awards to one program | an event earns once, within its caps; follow-ups run once | `EarnEvent` |
| Counter scan, offline queue | IndexedDB store, attempts, abandoned list | check in, enqueue, flush, abandon | concurrent flushes, lost answers, closed tabs | a saved scan is kept, sent in order, and leaves the queue | `CounterScan` over `EarnEvent` |
| Gift cards | `gift_cards`, `gift_card_transactions`, `delivered_at` | issue, redeem, void, fulfil and deliver jobs, daily sweep | repeated fulfilment, copies of a redemption, expiry inside a rolled-back transaction, mail before its record | transactions add up to what is left; a payment makes one card; mailed once | `GiftCardBalance`, `GiftCards` |
| Memberships | `customer_memberships`, `member_count`, period grants | enrol, renewal sweep, cancel, recount | a sweep over stale cursor rows, overlapping sweeps, a count in two statements | a period is granted once; seats; nobody billed after leaving | `Memberships` |
| Messages | `messages` by key | `dispatchMessage` | retry after a crash, provider time-outs, cap read before the insert | nobody is written to twice, nor more than the cap | `MessageDispatch` |
| Campaigns | `campaigns.status`, batch jobs | send, schedule, cancel, delete, cron, fan-out, batches, completion | lost enqueues, a fan-out that runs again over another audience, completion counted from within a batch | a campaign goes on after a crash; complete means all had their turn | `CampaignSend` over `MessageDispatch` |
| Automations | `automation_runs` | enrol, run its actions | cooldown without a lock; a run marked before it acts | a run acts once; cooldown; runs end | `AutomationRun` over `MessageDispatch` |
| Wallet sync | `wallet_sync_state` per vendor, the card on the phone | schedule, sync, record, retry | keys per minute and per attempt that outlive their job; failures that are answered as successes | a stale vendor is tried again; synced means current | `WalletSync` |
| Proximity notifications | deliveries | claim, deliver, release | release of dedupe keys | one notification per crossing | not modelled |
| Customers, referrals, GDPR | customers | enrol, merge, qualify, erase | merging under concurrent earning | totals survive a merge | merge only (`LoyaltyLedger`) |
| Outbound webhooks, integrations | endpoint counters | deliver, disable | lost increments | — | not modelled |
| Rate limits, sessions, roles, segments, analytics, pass rendering, UI | — | — | single statements, read-only queries, or formatting | — | not modelled |

How they interact: rewards, earning, referrals, memberships and merges all move points only through
`credit_account` and `debit_account`; every handler that must not block enqueues a job; the billing
webhook enqueues gift-card fulfilment; campaigns, automations, gift card delivery and wallet updates
run as jobs, so each of them is modelled over `JobLease`, the view of the queue that `JobQueue` is
shown to implement; campaigns and automations both write to customers through `dispatchMessage`.

## Modules

| Module | Role |
|---|---|
| `PointsAccount` | Abstract specification: a balance per account; requests applied in one step, at most once, only if they can be paid |
| `LoyaltyLedger` | The ledger with lots, locks, keys, merges and sweeps; implements `PointsAccount` |
| `UnitSums`, `UnitSumsProofs` | The sum of a column over a set of rows, defined as the number of its units so that it can be proved about without recursion, and its lemmas |
| `LoyaltyLedgerProofs` | The theorems about the ledger |
| `RewardRedemption` | Rewards bought and given away; its points are an instance of `PointsAccount` |
| `BillingWebhook` | Webhook handlers, statement by statement, with Stripe as environment |
| `JobLease`, `JobLeaseProofs` | Abstract specification of the queue: what a handler can rely on when it runs as a job; the lemmas about it that the handlers' proofs share |
| `JobQueue`, `JobQueueProofs` | The jobs table and its workers; implements `JobLease` |
| `MessageDispatch` | `dispatchMessage`, for the callers below |
| `CampaignSend` | A campaign from its request to its completion, over `JobLease` and `MessageDispatch` |
| `AutomationRun` | Enrolment and runs of an automation, over the same two |
| `MessagingProofs` | The theorems about campaigns and automations, and the invariants `dispatchMessage` has under any caller |
| `GiftCardBalance` | The database's gift card functions |
| `GiftCards` | Stripe, the webhook and the jobs around them, over `JobLease`; implements `GiftCardBalance` |
| `Memberships` | One plan: enrolment, the renewal sweep and cancellations |
| `CommerceProofs` | The theorems about gift cards, memberships and billing |
| `WalletSync`, `WalletSyncProofs` | A customer's card at two vendors, over `JobLease` |
| `EarnEvent` | Requests that record an event and its awards |
| `CounterScan` | The counter device and its offline queue; composes with `EarnEvent` as its server |
| `CounterProofs` | The theorems about both, and about rewards |
| `MC*` | Instances for TLC |

`RewardRedemption` builds on `PointsAccount`, not on `LoyaltyLedger`: `debit_account` runs inside
the redemption's transaction, and the refinement proved for the ledger is what allows its lots and
sweeps to be left out there. (Merges and expiry, the abstract `Transfer` and `Lapse`, are not taken
by that model.)

### LoyaltyLedger — `db/migrations/000006_loyalty_functions.sql`

`ledger` is `loyalty_ledger` in commit order, `remaining` its one mutable column, `balance` and
`nextExpiry` the two caches in `loyalty_accounts`. A request is its own idempotency key.

| Action | Code |
|---|---|
| `Begin` | the key lookup at the head of `credit_account` / `debit_account`; `now()` is fixed here |
| `Credit`, `Debit`, `Refuse`, `Collide` | from `for update` on the account to commit, to the "Insufficient balance" exception, or to the unique-index violation |
| `Merge` | the balance transfer of `merge_customers`. Its `for update` locks on both customers block the foreign-key share locks of other ledger inserts, so it is one step; it is a database function that no TypeScript calls yet |
| `SweepOpen`, `SweepLock`, `SweepCommit`, `SweepAbort` | `expire_balances`: the cursor's snapshot, the account locks in cursor order, the commit; a crash, timeout or deadlock victim |
| `Tick` | time (external) |

The FIFO loop of a debit is the operator `Take`: what lot *i* gives is bounded by what the lots that
expire before it leave open. Abstracted: tiers and lifetime totals, customer rollups, activity
events, the sweep's `limit 5000`, the creation of accounts (all exist, with balance 0), and the
`adjust`/`reversal` entry kinds.

### RewardRedemption — `000006` (`redeem_reward`) and `lib/loyalty/grants.ts`

`Begin` is the unlocked key lookup, `Redeem`/`RefuseReward` the section under the reward's lock with the
debit in it. `GrantRead`, `GrantInsert`, `GrantTake` are the three statements of
`createAdminGrantReward`, `GrantStop` a failure or crash between them; `Look` and `Settle` are the
read and the update by id of `fulfillGrantedReward`; the code is handed over whether or not the update
was made. `handed`, `overlapped`, `drifted`, `contested` and `unmarked` are history: they name the races
and the lost updates the code leaves open, and the invariants say that nothing else goes wrong. The limit
is one for purchases: `redeem_reward` counts every claimed or fulfilled row, granted ones too, and a
grant looks at no limit (`WithinLimit`). Left out: activation, dates and tier gates of a reward, the status
`cancelled` (nothing sets it), and merges.

### BillingWebhook — `app/api/v1/billing/webhook/route.ts`, `lib/billing/{webhook-idempotency,dunning,dunning-store}.ts`

`Receive` and `Crash` are the environment. `ClaimEvent`, `Duplicate`, `Unavailable` are the three
results of `interpretClaim`; `Apply`, `ReadDunning`, `WriteDunning`, `Tell`, `Lapse`, `Credit`, `Answer`
the statements of `handleEvent` and its 200; `Throw` the 500. Statements whose error the code does not look at may
be lost (`Losses`). Stripe's events are one of `Scripts`, chosen at the start. One business, one
subscription, one invoice; `resolveBusiness` finds it; a subscription update is one to an active
paid plan (`updated`) or to a status of not being paid (`delinquent`); the gift-card branch is left
out; `notify` does not throw. `disturbed` and `silenced` are history: events out of order, lost writes
and handlers that died; and a last stage that was put on record whose message was not sent, or was still
unsent when another decline read that stage. `Tell` is the attempt to tell: a notification and a mail that
both fail are not tried again, and count as told.

### JobQueue — `lib/jobs/{queue,worker}.ts`, `claim_jobs` and `requeue_stalled_jobs` of `000002_platform_core.sql`

`Wake` is the stall recovery a worker starts with, `ClaimJobs` the claim in one statement,
`Start`, `Succeed`, `Fail`, `Return` the loop, `Release` the branch taken when the time budget is
used up (`failJob`, then `continue`), `LoseWrite` an update whose error is not looked at, `Crash`
the death of a worker. A claim whose answer is lost is `ClaimJobs` then `Crash`. Priorities are
abstracted (any order of a batch), the exponential backoff is a constant, handlers are opaque, and
each job has a key of its own. `overdue` is history: jobs that were taken from, or written under,
a worker that still had them. The properties about a single holder exclude those; `Settles` does not.

### JobLease — the queue as its handlers see it

Per job, its row and the attempt each worker holds it for. A pending job can be claimed; a running
one can be taken away from a worker that is still at work (`Expired`); whoever holds it writes the
row by id, whatever has become of it (`Done`, `Failed`), or dies (`Forgotten`). A key stays taken
once its job has run. `ImplementsLease` of `JobQueue` (a refinement in which `lease` is computed from
rows, batches and phases of the workers) is what justifies modelling handlers on it: time, batches,
budgets and backoff are gone, and no behaviour of the queue is.

### EarnEvent — `lib/loyalty/engine.ts`, `rules.ts`, `000019_scan_idempotency.sql`

A handler goes through `Evaluate` (what `recordEarn` reads and decides: awards limited by `applyDailyCap`,
where a failed read of the day's earnings counts as 0), `Refuse` (a 4xx: a blocked customer, or a failed
read that looks like no customer or no program) or `Unresolved` (`performScan` answers 200 without a
check-in, since the code resolves to no customer), `Record` or `Replay` (the transaction `passimo_record_earn`, whose
unique index makes two copies of an event meet) and `FollowUp` (rule usage, referral, jobs: after the
commit, not for duplicates, lost if the process dies first). `credited[e][p]` is the ledger entry under
the key *event*`:`*program*: the first award of a program is credited, the rest are replays of it
(`CreditsOf`). What the rules award is one of the lists in the constant `Awards`, since it depends on rules and
tiers that may fail to be read: cooldowns, usage limits, tier and
membership multipliers, overrides and callers without a key are left out, as is everything about
another day or customer.

### CounterScan — `lib/client/{use-counter-scan,offline-queue}.ts`

It extends `EarnEvent`: `Send` is its `Receive`, `Answered` its `Leave`, and the server's own steps
interleave (`Server`). `NetworkFails` is a rejected `fetch`: the request never left, or goes on without
anybody waiting for it. `CheckInOffline` saves the scan (`EnqueueScan`, which IndexedDB can refuse:
`unsaved`), and shows the award the server will presumably make if the customer is in the device's cache
(`Cached`); `FlushStart` reads the backlog; `FlushSend`, `FlushSent`, `FlushFailed` are the loop of `flushQueue` with
`decideFlushOutcome`; `CloseTab` ends a flush anywhere. A put-back by `MarkAttempt` writes the scan as
the flush had read it, so a scan another flush has removed comes back. A flush looks at no answer: any 200
removes the scan, one without a check-in as well (`unresolved`). Left out: identification, the display of
abandoned scans, and an IndexedDB that fails after it has taken a scan.

Seen while modelling and not the subject of a run: the abandoned list lives in memory until the
flush ends, so a tab closed in a flush never tells the merchant what it dropped; an abandoned scan can
have been recorded by a request whose answer was lost; a check-in answered with a 5xx is not queued; and
`docs/DEMO_TESTING.md:280` promises replays "with their original timestamps", while the engine stamps
them with the time of the replay.

### MessageDispatch — `lib/messaging/dispatch.ts`

| Action | Code |
|---|---|
| `Dispatch` | the call; `left` counts the channels still to be tried |
| `Gates` | allowance, consent, suppression, the weekly cap, quiet hours and template: pass, next channel, or skip |
| `Insert` | the row under the idempotency key; a unique violation is a duplicate |
| `Send` | the provider: sent, failed, or reported as failed although it arrived |
| `Record` | the update, which can be lost; after a failure the next channel |

Only the cap is modelled as a gate that has a meaning; the others may stop any message. `delivered`
is history; `crowded` names customers with two dispatches past the cap's count at once, `uncounted` those
let past it by a count that failed (and is taken for 0) or that missed a message which had arrived and was
not on record as sent. `WithinCap` is about what has arrived. A weekly cap of 0, which the code reads as no
cap, is left out.

### CampaignSend — `app/api/v1/campaigns`, `lib/jobs/handlers.ts`, the daily cron

The desk's requests, which can overlap, are a read of the status (`DeskRead`), the update (`DeskWrite`),
which only the edit checks, and, for a send, the enqueue (`DeskEnqueue`), which can be lost; `Cron` enqueues
what is due. `FanRead`, `FanMark`,
`Fan` are `dispatchCampaign`: the audience is one of `Audiences`, resolved when it runs, and batches
that exist keep what they were enqueued with. `BatchRead`, `BatchSend` and the steps of
`MessageDispatch` are `sendCampaignBatch`; `FinalCount` and `FinalWrite` the two statements of
`finalizeCampaignIfComplete`. `Abort` and `Overdue` are the faults: a job throws, dies, or is taken
from a worker that goes on. An audience can have become empty: the send route refuses one that is
empty when it is asked, the handler does not. `Fails` is a statement whose error is not looked at: the
campaign's read in `FanRead` and `BatchRead`, the updates, and the count of `FinalCount`, which then is 0 and
completes the campaign. `handled`, `stopped`, `unread`, `guessed`, `lost` and `late` are history: messages
that had their turn, jobs that were told to stop (or found nobody to send to), jobs that could not read
their campaign, batches that were outstanding when a count failed, a lost enqueue, and batches that were
enqueued after a worker had counted none outstanding.

### AutomationRun — `lib/automations/engine.ts`, `enroll_automation` of `000013`

`EnrolCheck` and `EnrolInsert` are the select and the insert of one transaction at READ COMMITTED,
`EnrolEnqueue` the enqueue after it. `StartRun`, `Read`, `Mark`, then `Skip` or the actions: `Message`, `Reward`
(a grant without a key), `Balance` (a credit under the run's key), `Complete`; `AbortRun` and `OverdueRun`
are the faults, and `FailsUnseen` a failed read or a failed last update (`Ends`), after which the job succeeds
all the same; `Mark` goes on although it could not mark the run (`unmarked`). `CoolDown` is time. One
automation, one customer, one action of each kind; delays are the queue's. `overlapped`, `contested`,
`unmarked` and `broken` are history.

### GiftCardBalance, GiftCards — `000010`, `000013`, `lib/commerce/gift-cards.ts`, `lib/jobs/commerce-handlers.ts`

`Issue`, `Redeem`, `Refuse`, `Void` are database functions from lock to commit, `Lookup` the unlocked
look at a redemption's key. `GiftCards` adds what surrounds them: `Pay` and `Webhook`, the
job `giftcard.fulfil` (`FulfilLookup`, `FulfilIssue` or `FulfilCollide`, `FulfilEnqueue`), and
`giftcard.deliver` (`DeliverRead`, `DeliverSend` or `DeliverFail`, `DeliverStamp`), which the daily
sweep (`SweepStart`) runs as well without a job; a card or a business that cannot be read ends a delivery as
done (`unread`). Amounts are units, all cards have one price, and
a card has at most one void, since a void is final. Cards sold over the counter are left out.

### Memberships — `000013`, `lib/commerce/memberships.ts`

`Enrol` is one transaction under the plan's lock. A sweep is one transaction over a cursor:
`SweepOpen` is its snapshot, `SweepCommit` everything it writes, from the cursor's rows, `SweepAbort`
a rollback. `Cancel`, `CountRead`, `CountWrite` are the three statements of `cancelMembership`,
`CancelStop` a crash between them; a count that fails is written as 0. `stale` names the members a sweep wrote
from a row that had changed, `miscounted` says that a count which was too low has been written.

### WalletSync — `lib/wallet/{sync,sync-state,service,google-sync,pass-content}.ts`

`ChangeCard` is a change of the balance with its `scheduleWalletSync`, under the key of the minute.
`ReadCard`, `Push`, `Plan`, `Save`, `Retry` are `performWalletSync`: the content is built once, each
vendor is updated, `planSync` and `reduceProviderState` decide, the rows are upserted, the retries
enqueued under the key of their attempt. `SkipCard` is a sync without a card to send: `buildPassContent` is
`null` for a customer who is not active or whose row, or whose business, cannot be read, and the job ends as
a success. If the accounts cannot be read, the card is built with a balance of 0 (`Blank`); if the sync's
state cannot, `Plan` takes the vendors for new. Google is sent the card that was built; Apple makes the phone
fetch it (`Arriving`). `Push` has the vendor's three outcomes: success, an exception (with or without effect), and
a failure that is answered as a success. The history variables name what the code does not handle:
`missed` (the change came after its minute's job had read), `unread` (the vendor's last sync was skipped),
`swallowed`, `crossed` (two syncs at once), `unretried` (the retry was not enqueued: its key was taken, or the
enqueue failed), `unrecorded`. All but the first are sets of vendors, and the properties exclude one vendor at a time.

## Runs

| Run | Question | Distinct states |
|---|---|---|
| `ledger` | Do lots, balances, caches and keys stay consistent under retries, merges and two overlapping sweeps, and does the ledger implement `PointsAccount`? Yes, outside stale sweeps (`raced`) | 431,077 |
| `redemption` | Do debits, redemptions, limits and stock agree with two tills, a granter and two people at the counter? Yes, outside the named races and lost updates of a code; a limit is one for purchases | 2,781,898 |
| `billing` | Are events applied at most once, in any order, with crashes and lost writes, is the merchant warned before a pause, and is Stripe answered in the end? Yes, except for warnings that were recorded and not sent in time (`silenced`) | 120,664 |
| `jobs` | Do overlapping workers keep jobs apart, bound attempts, settle every job, and implement `JobLease`? Yes | 143,708 |
| `earn` | Is an event recorded and followed up once, within the daily cap, under replays and three concurrent requests? Yes, except for caps read before another request recorded, or not read at all (`stale`) | 692,180 |
| `counter` | Are saved scans kept, sent in order and got rid of, with overlapping flushes, closed tabs and lost answers, and is an award shown only for a scan that is kept? Yes, except for scans that are answered 200 without a check-in (`unresolved`), or that IndexedDB refuses (`unsaved`) | 203,258 |
| `campaign` | Is nobody written to twice, does a campaign that lost its fan-out go on, and does completed mean that all had their turn, with overlapping requests and failing statements? Yes, with the exceptions below | 3,657,763 |
| `automation` | Does a run act once, do the cooldown and the cap hold, and does every run end? Yes, outside overlapping enrolments, runs that two workers both read as scheduled, crashes, and statements of a run that fail unseen | 2,613,301 |
| `giftcards` | Do transactions add up, does a payment make one card, and is it mailed once and at all? Yes, except for a delivery whose record was lost, that overlapped another or that could not read its card | 928,516 |
| `memberships` | Is each period granted once, are seats kept, and is nobody billed after leaving? Yes, outside rows that changed under a sweep's cursor and counts that were stale or failed | 934,069 |
| `wallet` | Is a stale vendor always tried again, and does synced mean current? Yes, outside the gaps that are named, vendor by vendor: skipped syncs and cards built without their balance among them | 3,992,816 |
| `wallet_outage` | Is a vendor that failed recorded as stale, as `lib/wallet/sync.ts:74` says? No: HTTP errors, time-outs and missing tokens come back as zero devices, and are recorded as synced | violation |

A property that excludes a case names it through a history variable, and the case is a real one: the
same run reaches it. What the exclusions mean for the merchant is listed next.

### Where the code and its documentation disagree

`wallet_outage` is the one disagreement that is kept as a run; `PROJECT.json` quotes both sides. The
others were found by the same models, or while reading for them:

- **Failing statements.** `lib/db/query.ts:33` returns errors "matching how every call site already handles
  `{ data, error }`". Many do not look at `error`: a dispatch, a batch, a run, a gift card's delivery or a
  wallet sync that cannot read its row ends as a job that succeeded and is not tried again; a failed count
  completes a campaign (`handlers.ts:195`), passes the weekly cap (`dispatch.ts:368`) and empties a
  membership plan (`memberships.ts:428`); a failed read of the day's earnings is room under the daily cap
  (`engine.ts:478`); a code is handed over, and a run acts, whether or not it could be marked
  (`grants.ts:114`, `automations/engine.ts:142`); the campaign routes answer 200 to an update that failed
  (`send/route.ts:124`).
- **Ledger.** `docs/ARCHITECTURE.md:187`: "Invariant: `sum(remaining over open credits) ==
  accounts.balance`". A debit, merge or second sweep between a sweep's cursor and its lock
  (`000006:660`) is charged twice; `BooksBalance` holds for accounts this has not happened to.
- **Redemption.** `docs/DEMO_TESTING.md:330`: replaying a key creates "no second redemption". True
  of a later replay (`ReplaysRedeemOnce`), not of two calls that both look the key up first. A grant
  writes back a stale stock, so claims can exceed it, and grants never increment `redeemed_count`.
  `scripts/db/009_redemptions.sql:79` says that a customer's claims "must never exceed" the reward's limit:
  the count it makes includes grants, which `createAdminGrantReward` makes without looking at the limit.
- **Billing.** `route.ts:59` answers a duplicate 200 because "the effects it is asking us to apply are
  already applied": not if the first handler threw after its claim. `docs/BILLING.md:218`: "A
  delinquent subscriber keeps their plan": `syncSubscription` lowers it to lapsed on the first
  past_due. `docs/API.md:383` says the dunning stage is compared with the last one the merchant was
  told about, but stages nothing was sent for are stored too; `lib/billing/dunning.ts:35` trusts
  Stripe's `next_payment_attempt`, while the code lapses at the fourth attempt in any case.
  `lib/billing/dunning.ts:15`: "Warn before, never after". `dunning-store.ts` writes the stage before it
  sends the message, so after a crash between the two, or for a second decline that reads in between,
  the stage passes for told and the workspace is paused unwarned (`silenced`).
- **Earning.** `lib/loyalty/rules.ts:202`: "stackable rules always add on top". With a key, the second
  award to one program is taken for a replay of the first (`000019:186`) and is not credited.
- **Counter.** `lib/client/use-counter-scan.ts:192`: "losing it is not an acceptable outcome". A saved scan is
  removed on any 200, also one that says that nobody could be found for it (`offline-queue.ts:208`,
  `checkin.ts:103`), which is also what a failed read of the customer says; a failed read that is answered
  with a 4xx drops it into the abandoned list at the first attempt; and a scan that IndexedDB refuses is lost
  while the cashier reads that it is saved, or sees the award.
- **Queue.** `lib/jobs/worker.ts:43`: a job released for lack of time is picked up "immediately". It is
  charged an attempt and backs off, and is dead, never started, if that was its last.
- **Campaigns.** `lib/jobs/queue.ts:83`: what a failed enqueue loses, "the reconciliation cron
  re-derives". It looks for `scheduled` campaigns, while the send route writes `sending` before it
  enqueues: that campaign can neither be sent again nor found by the cron (`lost`). A dispatch that was
  taken from a live worker can still fan out after the campaign has been completed (`late`), and one
  whose audience has become empty leaves the campaign in `sending` for good. The last batch
  counts itself among those still running, so a campaign completes only if a batch was taken over and
  settled by another worker; the way `docs/OPERATIONS.md:178` explains a campaign stuck in `sending`
  (the cron is not firing) is not the usual one. A campaign cancelled before its dispatch ran
  is never dispatched again: its key stays taken. One unscheduled after its job was enqueued
  is still sent, since `handlers.ts:67` accepts a draft.
- **Messages.** `auto` never falls back to a second channel after a failed send: the row of the first
  channel has the key. A message that failed, or whose process died after the insert, is never sent.
- **Automations.** `docs/ARCHITECTURE.md:299` and `lib/automations/engine.ts:62` call the cooldown
  atomic; it is a select before an insert without a lock. A run is marked running before
  it acts, so one whose worker dies stays so for good. Two messages (or two credits) in one automation
  share a key, and the second is dropped.
- **Gift cards.** `docs/OPERATIONS.md:163`: "delivery is guarded by `delivered_at`, so it cannot send
  twice". It can if the mail's record is lost, or the sweep and the job overlap. A crash between a
  card's commit and the enqueue of its delivery loses the mail unless the card is scheduled.
- **Memberships.** `docs/OPERATIONS.md:169`, "re-running never double-credits", holds
  (`PeriodsGranted`). Memberships that expire leave `member_count` too high until the next recount, so
  a full plan can stay closed.
- **Wallet.** A retry's key is taken when an earlier series of retries has used its number; a change
  in the minute whose job has run is not sent; neither is retried until the next change.

### Bounds, and why they are enough

- **ledger**: two accounts (a merge needs two), two credits and a debit that needs both lots (or a
  lot and a merged one), two callers (a race needs two) and two sweepers; `Horizon` 2 lets a lot of
  lifetime 1 expire before, between and after the others; `MaxEntries` 4 stops new requests and
  merges but not entries that are under way, so a double sweep still fits. Callers and sweepers are
  symmetric; no liveness is checked here.
- **redemption**: a paid and a free reward, both in stock; a key for each, and a limit of one on the
  free one, against which grants count too; `MaxClaims` 2; codes valid for 0 ticks and
  `Horizon` 1, so that a code is seen before, and after, it expires; one lost update of a code (`MaxUnmarked`).
- **billing**: three events are the fourth decline, its recovery and a new subscription; a fourth and a
  fifth decline with the past_due update; or a subscription that begins, stops being paid and ends.
  Between them every kind of event, both reasons to lapse, two declines that both lapse, and every order.
  Two handlers are two copies of one event or two events at once.
- **jobs**: two jobs fill a batch of two; two attempts are a first and a last; two workers are one
  taken for dead and one that takes over.
- **earn**: three events and three requests, so that one request can overlap two others or two copies
  of its own event; one event has two awards in each program, and the events together are worth
  more than the cap of the one capped program. Requests are symmetric; no liveness is checked.
- **counter**: two scans have an order; two flushes overlap; two attempts are a first and a last. The
  server works on one request at a time and awards a stamp: what concurrent requests do to each other
  is `earn`'s question, and the device sees only answers, late records and failures, which one
  request at a time already gives it in every order. One of the two scans is of a customer in the cache.
- **campaign**: two customers, one of whom is tried on two channels, and two batches; the audience is
  empty, Ana alone, or Ben with Ana in the other batch, so that a fan-out that runs again can put her in
  both; two requests (a send and a cancellation, or a second send), two workers, two attempts, and one
  fault, which is a crash, a throw, a slow worker or a statement that fails unseen. Its cap's counts do
  not fail (`MaxUncounted` 0): that is `automation`'s question.
- **automation**: two triggers and two runs, for a cooldown that is raced or is over; one channel (the
  second one is `campaign`'s question); a weekly cap of one; one fault, one run that could not be marked
  (`MaxUnmarked`) and one count of the cap that failed (`MaxUncounted`), so that each meets each other.
- **giftcards**: one sale and room for a second card, which a repeated fulfilment could make; keys for
  one unit and for the whole card, two tills, two workers beside the sweep; one fault; mails are
  counted up to 2.
- **memberships**: two customers for one seat; two sweeps and a cancellation; `Horizon` 2 with periods of
  one tick lets a membership lapse for one period or two; `MaxBilled` 2 is a first and a second period
  and stops only enrolments.
- **wallet**, **wallet_outage**: two minutes, two changes and three attempts give one series of retries
  per minute, of which the second meets the keys of the first; three faults are two failed updates and one more.

Workers, cards, runs, members, sweeps and the like are symmetric in these runs; no liveness is checked in
them.

`CHECK_DEADLOCK FALSE` is set where the clock, the ledger or the events are bounded and behaviours
therefore end. `jobs`, `earn` and `memberships` keep the deadlock check; `counter` ends when every scan
has been shown or refused. In the runs over `JobLease` behaviours end when all jobs have settled, and
properties of the form "once nothing is under way" (`FanOutResumes`, `RunsEnd`, `PaidArrives`,
`StaleIsRetried`, `SyncedIsCurrent`) say what must be true then: with `Settles` of `jobs`, that every job
comes to rest, they are what liveness would say without assuming more fairness.

### Fairness, and what justifies it

- **BillingWebhook.** Strong fairness of `Receive` for each event: Stripe goes on delivering what it
  has no 200 for (in reality for days). Weak fairness of a handler's next statement: a request runs
  until it answers or its process dies. Strong fairness of the claim: the database and the process
  are not down at every single delivery. No fairness is assumed of `Throw`, `Crash` or
  `Unavailable`, which can happen any number of times.
- **JobQueue.** Weak fairness of time and of each worker's steps: the scheduler keeps starting
  workers and a worker goes on until it dies. Strong fairness of "some worker claims": not every
  worker dies before it has claimed. Nothing is assumed of success: `Settles` holds though every
  handler fails and every write is lost.
- **CounterScan.** Weak fairness of each flush: while the store is not empty another flush is started
  (the device is opened, or comes online) and a flush goes on until its tab is closed; its `fetch`
  ends, if only by failing. Strong fairness of "some flush has an outcome": not every tab is closed
  before its first answer or failure. None of the server or of the network: `QueueDrains` holds when
  nothing ever gets through.

## Proofs

Every invariant and every action property that a passing run checks is also a theorem, for any values
of the constants that meet the assumptions below; so are the three refinements. Each rests on an
inductive invariant; where a property is not inductive by itself, the text says what had to be added.

**Assumptions.** All are named and stand in the module that declares the constants; TLC evaluates them
in the runs. `RequestsAssumption`, `TimeAssumption` (ledger), `RewardsAssumption`, `KeysAssumption`
(rewards; granters are finitely many), `EventsAssumption` (billing), `QueueAssumption` (finitely many
jobs), `AwardsAssumption` (earning; finitely many events, which is what one day has),
`ClientsAssumption` (counter), `DispatchAssumption`, `CampaignAssumption`, `RunAssumption` (messages),
`CardAssumption`, `JobsAssumption` (gift cards), `PlanAssumption` (memberships) and `WalletAssumption`
give the constants their types and keep apart what the code keeps apart (the job `dispatch` is not a
batch; a run is not the value "none"; the job of a minute is for all vendors, a retry's for one).
Where a proof counts, the set is assumed finite (jobs, events, cards, granters); no number of actors,
requests, faults or retries is assumed.

### LoyaltyLedgerProofs

| Theorem | States |
|---|---|
| `AppliedOnceAndCovered` | `Spec => []OnceAndCovered`: types, `OneEntryPerKey` (no request is written twice) and `Solvent` (the balance never exceeds the open lots); its parts are also the theorems `TypeCorrect`, `KeysUnique` and `Solvency` |
| `BooksStayBalanced` | `Spec => []BooksBalance`: they are equal unless a sweep raced |
| `CachesStayExact` | `Spec => []CachesExact`: the cached next expiry and the running balance in the entries |
| `SpendsEarliestFirst` | `Spec => EarliestFirst`, an action property |
| `ImplementsPointsAccount` | `Spec => AppliesRequestsOnce`: every step is a step of `PointsAccount` or a stutter |
| `Invariance` | `Spec => []IInv` |

`IInv == TypeOK /\ CursorOK /\ OneEntryPerKey /\ Solvent /\ BooksBalance`. `CursorOK` is what the
others lack: a row that an open cursor holds is a credit and held at least as many units
when the cursor opened as it holds now, because `remaining` only falls. Without it a sweep could
charge less than the lots it empties and `Solvent` would not be inductive. With it, a sweep takes
from the balance at least what it takes from the lots (or clamps at zero), and exactly that if no
amount it read is stale.

A debit must take exactly its amount from the lots. That the sum of `Take(d, i)` over the lots of an
account is `d` whenever `d <= OpenCredit` would be an induction over the lots in expiry order, which
the provers cannot instantiate. `UnitSums!Sum(S, f)` is therefore the cardinality of the set of
units `{<<i, u>> : i \in S, u \in 1..f[i]}`; `UnitSumsProofs` derives the sum's laws (disjoint
union, monotonicity, change at one element) and the prefix argument from the library's theorems on
finite sets. `EarliestFirst` is the same argument at one lot: `Take` reaches a lot only when what the
lots before it leave open is less than the debit, so those are empty afterwards. `CachesExact` needs the
running balance of an account stated over a ledger and a balance (`Runs(l, b)`), so that each writer's
append is one lemma.

### CounterProofs

| Theorem | States |
|---|---|
| `FollowUpsRunOnce`, `EventsRecordedOnce` | `Spec => []FollowedOnce`; `Spec => RecordedOnce`, an action property |
| `CapHolds` | `Spec => []WithinCap` |
| `SavedScansKept`, `ShownIsOnRecord`, `ScansLeaveInOrder` | `ScanSpec => []SavedIsKept`, `[]ShownIsRecorded`, and the action property `LeavesInOrder` |
| `DebitsAlwaysMatch`, `LimitsAlwaysKept`, `ReplaysAlwaysRedeemOnce`, `CodesHandedOverOnce` | `RewardSpec => []DebitsMatchRedemptions`, `[]LimitsKept`, `[]ReplaysRedeemOnce`, `[]HandedOverOnce` |
| `Invariance`, `ScanInvariance` | `Spec => []IInv`, `ScanSpec => []ScanInv` |

*Earning.* A handler about to follow up an event that has been followed up would break `FollowedOnce`.
`IInv` adds `OneFollower`, that such a handler has its event on record, not yet followed up, and to
itself; `Record` establishes it because it found no visit, and so no follow-up. `CapInv` adds for the cap
that a request that has decided holds awards that fit under the cap it has read (`Decided`), and that
an event not on record has no credits: then a record breaks a cap only if what it read has changed.

*Counter.* A step of the server keeps its own invariant (`ServerInv`), leaves the device alone and never
takes a record back; `ScanInv` adds the device's side. `WaitOK`: whoever waits for an answer waits for a
handler of its own that has its event. `NotLost`: a captured scan is in the store or settled. `ShownOK`:
what is shown is recorded, and what is assumed is captured. `SettledAhead`: whatever lies before a scan in
a flush's backlog is settled or still in the backlog, which survives another flush's removals and
put-backs and is what `LeavesInOrder` follows from.

*Rewards.* `RewardInv` adds to the properties themselves: a purchase is what its key asked for and is
handed over at once, and only granted codes are on screens (`RowsOK`); what is marked expired, or is about to
be, has run out and stays so, so that a row which did not count against a limit never will (`LapseOK`); a grant
about to write the stock has seen one that was not empty (`GrantsOK`), so the stock stays a number; a key
that was never in flight twice is at one till at most, at none once it is redeemed, and has one row
(`KeysOK`).

### JobQueueProofs

| Theorem | States |
|---|---|
| `RowsAlwaysMatchWorkers` | `Spec => []RowsMatchWorkers` |
| `SuccessStaysFinal` | `Spec => SuccessIsFinal`, an action property |
| `QueueImplementsLease` | `Spec => ImplementsLease`: every step is a step of `JobLease` under the computed `lease`, or a stutter |

`QueueInv == Typed /\ WorkersOK /\ (JobOK(j) for every job not overdue)`. `WorkersOK`: no job is twice in
a worker's hand. `JobOK`: whoever has the job in hand holds its last attempt, in a running row, and
nobody else has it; a pending row has an attempt left. A claim takes only pending rows, so it keeps
`JobOK`; taking a running row from a live worker, or writing one by id after that, makes it overdue, and
the refinement, which must hold for overdue jobs too, maps those steps to `Expired`, `Done` and `Failed`.
Since one statement claims a batch, and recovers all stalled jobs, `LeaseNext` lets every job make a move
of its own in one step; the refinement is proved job by job.

### MessagingProofs

| Theorem | States |
|---|---|
| `NobodyTwice` | `Spec => []DeliveredOnce`, for a campaign |
| `CompletedStaysOver`, `FanOutsResume` | `Spec => []CompletedIsOver`, `[]FanOutResumes` |
| `RunsActOnce`, `CapKept` | `AutoSpec => []ActsOnce`, `[]WithinCap`, for an automation |
| `RunsComeToAnEnd`, `CooldownHolds` | `AutoSpec => []RunsEnd`, `[]CooldownKept` |
| `CampaignInvariance`, `RunInvariance` | the inductive invariants `CampaignInv` and `AutoInv` |

Each step of `dispatchMessage` preserves
`DispatchInv == DispatchShape /\ OneSender /\ (RoomLeft for every customer not crowded)`, whoever calls
it. `OneSender`: a message whose row does not exist has not been delivered and nobody is past its insert;
at most one worker has its row; one about to send it has not delivered it. `RoomLeft`: the messages that a
customer has got, and those a worker past the gates may still deliver (`Exposed`), are no more than the cap;
it is stated of customers that are neither crowded nor uncounted, so the count that let the last one through
saw all that had arrived. For `NobodyTwice` a campaign adds only
that batches and workers hold messages that exist.

`CompletionInv` adds that a worker has still to send what has not had its turn, and that one past the loop
leaves a batch that is over (`TaskOK`); that a batch whose job succeeded is over (`BatchOK`); that once a
worker has counted none outstanding, all batches but the late ones, and those a failing count has
overlooked, are over or given up (`CountHolds`); and that a campaign in `sending` has its dispatch, is
about to, or has lost it (`DispatchOK`). `AutoInv` adds `RewardedOnce` for runs that are neither contested
nor unmarked: before a run is marked nothing is rewarded and nobody is past the mark; whoever still owes
the reward has not given it; nobody shares the run. `EndsInv` adds that a run that has not ended has a
job, a worker or one of the named excuses (`RunEnds`), and that of two runs within the cooldown one is
skipped (`OneHolds`) and has sent nothing (`SkippedUnsent`).

### CommerceProofs

| Theorem | States |
|---|---|
| `FunctionsAddUp` | `CardSpec => []CardsAddUp`: the database's functions, called in any order |
| `JobsUseTheFunctions` | `Spec => CardSpec`: every step of the jobs is a call of one function, or leaves the cards alone |
| `CardsStayBalanced` | `Spec => []CardsAddUp`, from the two |
| `SpentWasPaid`, `CardsMailedOnce`, `PaymentsArrive` | `Spec => []SpentIsPaid`, `[]MailedOnce`, `[]PaidArrives` |
| `EveryPeriodGranted`, `NeverOverbooked`, `NobodyBilledAfterLeaving` | `PlanSpec => []PeriodsGranted`, `[]SeatsCovered`, and the action property `LeaversLeftAlone` |
| `EventsClaimedOnce`, `LapsesAreWarnedOf`, `StripeIsFollowed` | `BillingSpec => []ClaimedOnce`, `[]WarnedBeforeLapsed`, `[]FollowsStripe` |
| `PlanInvariance`, `BillingInvariance` | the inductive invariants `PlanInv` and `BillingInv` |

*Gift cards.* `CardsAddUp` is inductive; the argument is about sums (a redemption adds its key to the
units of one card and of no other) and uses `UnitSumsProofs`. `JobsInv` is about a sale's way: one card
per sale, which statement each worker is at (`TaskOK`), what a sale and a card have come to (`SaleOK`,
`CardOK`: a job, a worker, or one of the named excuses, a delivery that could not read its card among
them), and for cards outside the named races that a mail in flight has not been sent before (`MailOK`).

*Memberships.* `PlanInv == PlanShape /\ CursorsDue /\ Granted /\ SeatsCovered /\ CountsFit`. `CursorsDue`:
the rows of an open cursor were active and due when it opened, which makes the number of periods a late
sweep catches up with a natural number. `Granted`: a member outside `stale` has exactly the grants
`1..billed`, so what a second sweep grants is a key that is taken. `CountsFit`: a count that somebody
is about to write is not beyond the seats, as the seats need between the two statements of a recount.

*Billing.* `BillingInv == BillingShape /\ OneEach /\ AtItsPlace /\ ToldAtMost /\ Warnings /\ Following`.
`OneEach`: a claimed event has been started once and at most one request works on it, on an event not
done. `Warnings`: a request about to lapse, or one that will lapse without a message because it has read
the last stage, has been preceded by the message or is counted in `silenced`; and the last stage on record
has been told or somebody is about to. `Following`: unless disturbed, the claimed events are `1..k`, all but
perhaps the last are done, and a request at each statement has brought status, plan, dunning and credit
as far as that statement does (`Reached`). The number of events and the script are arbitrary.

### WalletSyncProofs

| Theorem | States |
|---|---|
| `StaleVendorsRetried` | `Spec => []StaleIsRetried` |
| `SyncedStaysCurrent` | `Spec => []SyncedIsCurrent` |
| `WalletInvariance` | `Spec => []WalletInv` |

`WalletInv == WalletShape /\ AllPlaced /\ AllAlone /\ StaleTried /\ CardShown`. Both properties speak of
rest; the invariant says what must hold before it. `AllPlaced`: a worker is where its job's handler is
and holds its lease. `AllAlone`: a vendor whose syncs have not crossed has one updater, and each of its
jobs one holder. `StaleTried`: a stale vendor is waiting for a job, being read, updated or retried, or
excused. `CardShown`: a change is covered by a job that has yet to read the card, or the vendor's updater
will see to it (`Reaches`), or there is none and the record tells the truth; it is stated of vendors whose
last sync was not skipped, and lets a card be blank, which `SyncedIsCurrent` excludes at the end.

### Only model-checked

The liveness properties `EventuallyAcked`, `Settles` and `QueueDrains`, which rest on fairness, are out of
the prover's reach. `FailureIsAState` is refuted by `wallet_outage`.

What history variables exclude is excluded in the theorems as well: they say that nothing *else* can
go wrong, for any number of actors, and TLC shows that the excluded cases do occur.

## Mutants

Beside a definition stands, where a property needs it, the form a plausible bug would give it
("Mutant: ..." above it). No specification uses those forms; `PROJECT.json` lists for each property
one that breaks it: a lookup that is forgotten, an index that is not unique, a loop that stops at the
first lot, a duplicate answered 500, a release without `continue`.

## What is left

The parts of the core that share state and act concurrently are modelled. What remains, in the order of
its worth:

1. **Proximity notifications** (`lib/wallet/notifications.ts`): claims and releases of dedupe keys.
2. **Merging** customers beyond their balances (redemptions, referrals), once something calls it.

## Not modelled

Proximity notifications, whose claims and releases of dedupe keys are the first thing to model next.

Customers' profiles, referral qualification beyond its once-only follow-up, and
erasure, which are sequences of single statements; outbound webhooks (HTTP with counters); the checkout
and the plan limits of billing; the scan for automation triggers and segments, which only read. Access
control, sessions and row-level security; rate limiting; analytics; rendering and signing of passes; the
user interface, scripts and translations, which are most of the repository's lines; files and images. These
hold no shared state with transitions to check, or are pure input and output.
