# Ruxsatnoma-urmon core: a verification project

The program is the back end of the forest-use permit system: a FastAPI monolith over
PostgreSQL (`src/app`), with a worker process (`src/app/workers`) that runs scheduled
jobs. Somebody applies to use a plot of forest, officials review and approve, an invoice
is raised, the money arrives (or is waived), signatories sign a permit, the permit is
used, suspended, extended and expires. This directory holds TLA+ modules for the parts of
that life that run concurrently, the TLC configurations that check them, and theorems
that TLAPS proves for every size of the system.

Commands, from this directory: `tlc -config MCSettlement.cfg MCSettlement` (likewise the
others), and `tlapm` with each of the eight modules named `*Proofs.tla`.

## 1. Inventory

How the parts run. A request is one database transaction at READ COMMITTED: `get_db`
(`core/deps.py`) commits when the handler succeeded and rolls back when it raised. The
event bus is synchronous: a subscriber runs inside the transaction of its publisher, so
`APPLICATION_APPROVED` -> `issue_invoice`, `APPLICATION_CANCELLED` ->
`cancel_invoice_for_application` and `PAYMENT_CONFIRMED` -> the permits' notice either
happen with their cause or not at all. Concurrency is therefore between requests, and
between requests and jobs; what protects it is row locks (`SELECT ... FOR UPDATE`),
unique and exclusion constraints, and re-reading a row under its lock.

| Component | State | Operations | What is hard | What makes it correct |
|---|---|---|---|---|
| applications | `applications.status`, 13 values, one transition table; assignment, open info request, benefit verdict, deadline | file, correct, resubmit, assign, start review, request and respond info, verify a claim, recalculate, forward, return, reject, approve, cancel, SLA sweep | moves by four modules; approval and resubmission read a price that a recalculation changes, with no lock; a paused clock | one executor in two places; what was verified and priced is what was filed and decided; the days of an answer are not the office's |
| payments: settlement | `invoices`, `provider_transactions`, `manual_payment_confirmations`, `reconciliations`, `allocations` | issue, free settlement, Payme Create/Perform/Cancel, file/confirm/reject a bank document, resolve | Payme repeats and reorders; two doors for money; unlocked reads before inserts; twelve-hour timeout | one settlement per invoice; the ledger says what the provider was told; invoice and application agree |
| payments: expiry | same rows | nightly batch, savepoint per row | locks of a whole batch; a failing row; two leaders | overdue invoices leave `pending`; no partial move |
| payments: refunds | `refunds`, `refund_components`, `allocations` | request, submit decision, approve, reject | balance read without a lock; reversal after refund | money back <= money in; a refund is booked once |
| payments: directories, statements | recipients, bank lines | import, match, edit | little concurrency | - |
| permits | `permits`, signatures, forest tickets, the norm of a plot | issue, sign, activate, suspend, resume, revoke, extend, ticket, expire, close, watch | last two signatures at once; last capacity; parent and extension; a ticket beside a revocation; a batch with a failing row | the plot is not given beyond its norm; the last signature activates; an extension ends its parent; what is over is closed |
| archive | archived objects and their snapshots | archive a finished application or permit, verify | a permit archived before the night closes its application | only finished objects |
| integrations | outbox rows, a circuit breaker in each process, the alert's stamp | enqueue, claim, send, retry, die, alert, requeue | crash between send and commit; an administrator and the alert on one dead row, without locks | one copy unless an outcome was lost; every message is delivered or dead and told |
| notifications | notifications, delivery reports | check, write, send, report | report before the sender's commit; check-then-act by two sweeps | a delivered notice stays delivered; one notice |
| idempotency keys | one row per key and user | begin, store, reclaim, settle, purge | duplicates at work together; slow handler against a reclaimed marker; crash | the work is done once, everybody is answered |
| core | counters, settings, events | next number, publish | one row locked to the commit | numbers are unique |
| workers | advisory lock of the leader, jobs | elect, run, give up | a lost lock is noticed up to a minute late | jobs stand two leaders |
| norms | published norms and tariffs, calculations | publish, calculate | the newest calculation is told by the start of a transaction | as far as applications and permits read them |
| signatures | one row per attempt, one valid per purpose | sign, re-verify | two at once; a provider's call in the middle of a request | as far as permits and decisions wait for them |
| inspections | tasks, acts, violation cases, appeals | assign, sign an act, explain, decide, appeal, resolve, close | rows read without a lock, then moved | one case per signed act; an open appeal can be answered |
| gis, oversight, beekeepers, occupancy, admin, auth, audit, reports, dashboard, public, search, help | registers, imports, reads | - | arithmetic, geometry, screens | - |

`PROJECT.json` repeats the list with the status of each part, and lists under `hazards`
what is hard to test, at its line, with the property that answers it.

## 2. The modules

| Module | Stands for | Used by |
|---|---|---|
| `ApplicationStatus` | the status table and `_assert_transition` | `Settlement`, `SettlementLocks`, `Permits`, `Review` |
| `Settlement` | the life of an invoice; one action is one committed request | `SettlementProofs`, `SettlementLocks`, `MCSettlement` |
| `SettlementLocks` | the same requests, row lock by row lock, in database sessions | `SettlementLocksProofs`, `MCSettlementLocks` |
| `SettlementProofs` | theorems about `Settlement` | `SettlementLocksProofs` |
| `SettlementLocksProofs` | theorems about `SettlementLocks`, its refinement of `Settlement` among them | - |
| `Ledger` | `payments/ledger.py`: the split of an amount and its rows | `Refunds` |
| `Refunds` | the ledger of one invoice: payment, reversal, refunds | `RefundsProofs`, `MCRefunds` |
| `RefundsProofs` | theorems about `Refunds` and `Ledger`, and the sums they need | - |
| `Idempotency` | one `Idempotency-Key`: `core/idempotency.py` and its handlers in `main.py` | `IdempotencyProofs`, `MCIdempotency` |
| `IdempotencyProofs` | theorems about `Idempotency` | - |
| `Plot` | abstract: claims that take and give back parts of a plot under a norm | `Permits` implements it, `PlotProofs` |
| `Permits` | the permits of one plot: issuance, signatures, decisions, tickets, nightly jobs | `PermitsProofs`, `MCPermits` |
| `Review` | one application: filing, correction, assignment, information, benefit, price, decision, SLA | `ReviewProofs`, `MCReview` |
| `Delivery` | the outbox, its workers and breakers, delivery reports, the alert and the return to the queue | `DeliveryProofs`, `MCDelivery` |
| `PlotProofs`, `PermitsProofs`, `ReviewProofs`, `DeliveryProofs` | theorems about these | - |

**Settlement.** The variables are columns: `application`, `invoice` and `overdue` (is
`due_at` past) per application; `inv`, `state`, `amount` per *source* of money, a Payme
transaction or a bank document (whose confirmation writes a `manual` transaction);
`conf`, `maker`, `checker` per document; `payments` and `corrections` count the groups of
rows a source has in the ledger; `recon` is its row in the register of discrepancies, which
a document of another amount gets when it is filed and a reversal when it is booked.
`checked` is the one thing that is no column: a request that has read an invoice without
its lock and has yet to insert its row. There are two such requests, CreateTransaction
and the filing of a document, and they are split there; every other request locks what it
reads, and is one action. That this is allowed is not assumed: it is what
`SettlementLocks` is for. An invoice is identified with its application, because no
application can have two (a partial unique index allows one in force, and no status from
which an application can be approved again follows an invoice).

A handler is modelled with what its subscribers do: `Approve` contains `IssueInvoice`,
which settles at once if the amount is zero and a claim or the law makes it so; `Cancel`
contains the withdrawal of the invoice. Money is abstract: the price of an application,
the amounts a document may state, and `SplitFloor`, the least amount the configured fixed
shares can split (`SplitDoesNotFit` below it rolls the request back).

**SettlementLocks** has the same rows plus, per session, the request it serves (`job`),
the lock it waits for next (`pc`), a sweep's batch, and the owner of each row lock. A
session takes a lock, re-reads the row, decides, goes on; what it decided becomes visible
at `Commit`, which does not look again. The order is source, invoice, application, except
for the owner's cancellation, which starts at the application. Requests with one lock are
one step that needs the row unlocked. An insert behind an invoice takes `FOR KEY SHARE`
on it (the foreign key) and so waits for a `FOR UPDATE`. `Fail` is a worker that dies
between any two statements; `Victim` is PostgreSQL ending a deadlock, which the sweep
survives by the savepoint of its row.

**Ledger and Refunds** keep one invoice with the real arithmetic: percentages in
hundredths, floored to the tiyin, fixed shares, the rest to the forestry (`Leshoz`); rows
are appended and never changed. A set of rows is a set of positions (`Rows`, `RowsOf`), and
`Booked` is what the rows at some positions add up to. An approval is split where `approve_refund` splits: the
balance is read without a lock, the rows are written later. `seen` remembers how many
rows an approval read, and exists for the properties only.

**Idempotency** is one key of one user, and every request that carries it: the first
call, its duplicates, its retries, and a call that misuses the key for another body. The
row is three variables (`fingerprint`, `response`, `age`); a request (`pc`) goes through
the statements of `begin()`, each with its commit, then through its handler, and ends by
storing an answer: with its work in one commit if it succeeds, in a session of its own
(`Close`, `Unclaim`) if it refuses or breaks. `Goto(r, "again")` is a client without an
answer (409 `in_flight`, a 500, a crash, a lost answer). `effects` counts what was
committed, up to "twice or more". `lapsed` becomes true when time takes the protection
away: a marker without an answer outlives `IN_FLIGHT_TTL`, or the nightly purge deletes
the row. The code promises nothing about the work being done once after that, and the
properties say so.

**Plot and Permits.** A permit has the name of its application (`permits.application_id`
is unique), and an extension is a permit with a `Parent`. `status`, `signed`, `ticket` and
`application` are columns; `norm`, `required` and `today` are what others change: the norm
in force, the setting of the required signatures, the date. Three requests hold a lock
across reads and writes and are split: an issuance, under the advisory lock of the
plot (`issuing`, `norm_seen`); a signature, under the permit's row (`signing`: what it saw,
and, for an extension, what it knows of its parent);
a forest ticket, likewise (`ticketing`). Everything else is one action that needs the rows
it takes to be free (`RowFree`). The signature that completes an extension reads the parent
without a lock (`LookAtParent`) and closes it later under one: `CommitSignature` contains the
activation, with the parent that was found in force, whatever became of it since, as far as
the table of statuses lets it (`Activate`). A parent may be an extension itself.
`ExpirePermits` is one batch with its `cursor` and the rows that fail (`Broken`);
`CloseFinished`, `ExpireForestTickets` and `WatchStalledPermits` are the other jobs;
`ArchivePermit` is the archive's move of a permit that is over.
`Plot` is what issuance promises: claims with a period and a load take a part only where
the sum over the periods that meet leaves room, and give it back at will. `Permits`
implements it with `held <- Occupying \ resumed` and `capacity <- PlotNorm`, the norm an
issuance at work has read.

**Review** is one application. Every step takes its row lock and is one action but for
three requests that meet others half-way: a recalculation, which takes no lock
(`recalculating`: the row it will save); a resubmission, which waits for the row after its
transaction has begun (`resubmitting`); an approval, which holds the row over a call to the
signature provider (`approving`: who). A decider has two limits (`OverLimit`): the sum
payable, and the area of the land asked for, `area`, which submission freezes and a changed
draft clears. A submission whose signature is refused is not nothing (`RefuseSubmit`): it
commits the evidence, and with it the area and the reset verdict on the benefit. A
row of `calculations` is its amount, its plot, and whether its `created_at` is past
`decided_at`; since `created_at` is the start of a transaction on one clock and
`decided_at` is read from another, a recalculation begun during an approval may fall on
either side. `late_in` says in whose days the deadline passed: the office's, those of an
answer (given back when it comes), those of a correction (not given back). `overtaken` names
a row that really went beyond what a request had checked: a sum above the limit of its
approver, another amount than the invoice's, another plot than the one submitted.

**Delivery** is the outbox with what surrounds it: the sweep that asks whether somebody was
notified and then writes the notice with its message; workers that claim a row with SKIP
LOCKED and hold it, and the notification's, over the send; their breakers, one in each
process; the quiet window; the provider, which takes a copy and reports its fate later, once
or more; the alert of dead rows and the administrators who put one back, who read without a
lock. `Crash` ends a process between any two steps. `surplus` counts copies the provider
took less the troubles (a lost outcome, a requeue) that explain one more. A message may have
a destination nobody serves (it is not in `known`), and then dies at the first attempt
(`Undeliverable`). Reports of two fates may be at work on one notification at once
(`reporting`); they take turns on its row. `told` are the dead messages whose present death
the administrators know, `crossed` those that were put back in the middle of an alert; both
exist for `EveryMessageEnds` only.

## 3. What is checked

| Run | Instance | Question | Answer |
|---|---|---|---|
| `settlement` | 2 applications (one billed, one free), 2 Payme transactions, 2 documents, 2 employees, 2 amounts; 0.8 million states | do statuses, ledger, register and confirmations agree whatever races? | yes; an overdue invoice leaves `pending` |
| `locks_refine` | 1 invoice, 2 transactions, 1 document, 3 sessions, 2 sweeps; 0.18 million states | is every commit one atomic step of `Settlement`? | yes |
| `locks_progress` | 2 invoices, 1 transaction, 2 sessions, 2 sweeps | who can wait for whom, does every request end? | only sweeps wait in a circle; every request ends |
| `locks_two_sweeps` | 2 invoices, 2 sweeps | "no cycle is possible"? | violated, see 6 |
| `refunds` | 3 rule sets, price 0 or 3, 3 amounts, 2 refunds; 32 thousand states | does the ledger add up, and is a refund booked once and in full? | yes |
| `refunds_race` | 1 price, 2 refunds | does an approval refuse what exceeds the current balance? | violated, see 6 |
| `refunds_reversal` | as `refunds` | does a reversal leave an empty ledger? | violated, see 6 |
| `idempotency` | 2 calls of one body, 1 of another; 119 thousand states | is the work done once, is everybody answered, and rightly? | yes, until the key lapses |
| `idempotency_reclaim` | the same | are only stale, unanswered markers deleted to be claimed again? | violated, see 6 |
| `permits` | 3 permits of a plot, one an extension, under a norm of 3 or none, 2 required signatures, 2 requests at work, 3 days; 0.84 million states | is a plot given beyond its norm, do signatures, tickets and extensions follow, is everything over closed? | yes, but for what section 6 names |
| `review` | 1 application, 2 plots (a forestry's and its region's own), 2 tariffs, 2 claims, 3 users; 4.6 million states | who holds it, what was verified, what it costs: as decided, whoever meets whom? | yes, but for the races section 6 names |
| `delivery` | 1 message, 2 sweeps, 2 workers, 2 administrators, 2 attempts, 1 crash, 2 requeues; 0.62 million states | is it sent once, is its report kept, is every death told? | yes, unless an outcome was lost or a requeue crossed the alert |

The properties, with the code behaviour each is about, are stated in the modules above
their definitions. For every property of a passing run a *mutant* (an operator marked
`Mutated:`, never used by the specifications) names a plausible bug of the code that
breaks it.

Why the instances are large enough. The races over an invoice are between pairs of
actors: two transactions, two documents, a transaction and a document, any of them and
the sweep or the owner; the instance has each. A second application is needed only so
that a sweep has a batch, and so that a free one is beside a billed one. A circle of
waits needs two sessions and two rows. A third session in `locks_refine` lets a sweep
overlap with a payment and a retry. Refunds need two to overlap, and a percentage that
does not divide the amount to see the rounding. The races over a key are between a call and
a duplicate; the third call brings another body, and is a second one that finds the marker
stale.

Two permits of `permits` compete for the same day (loads of 2 and 2 under a norm of 3) and the
extension follows one of them; `TicketLast` asks for tickets beyond two of the
periods; a batch of one makes the cursor move between rows, and the extension is the row that
fails every night. The instance has one extension; that an extension may be extended again
is covered by the theorems, which hold for any `Parent`, and not by the run, whose time is
spent on the third permit. In `review` one plot and one tariff more than a first price needs are what
a correction or a recalculation can change; the head may decide the low price only and only
the smaller plot, the director everything, and of the two claims the register knows one. In `delivery` messages meet only
in a worker's time and its breaker, which one message with two workers already drives through
every state; two attempts make a retry and a death, two administrators read one dead row.

The bounds in guards are these. `Permits`: `MaxRequests` (requests at work at one time; two
make every pair), `MaxUnusual` (permits that are suspended, were resumed or are archived; any
one permit of the three may be it), `Horizon` (days), and the list of required signatures only shrinks, since one that
grows asks for a signature more, which is the first state again. `Delivery`: `MaxCrashes`,
`MaxRequeues`. `Review`: a tariff is published while the application is undecided. The other
models have none; `effects` of `Idempotency` stops counting at two. The counters `payments` and `corrections` could grow
in principle; that they do not is a result (`LedgerMatchesProvider`). Status moves only
go round inside the review, and each source, document and refund is used once.

Deadlock checking is off in the runs where the system comes to rest: every application may be
archived, every refund decided, every call answered, every permit ended.

## 4. Fairness

`Settlement` assumes one thing: the sweep eventually expires an invoice that stays
overdue and pending (`WF` per application). The scheduler runs it every night, a batch
holds every overdue invoice, and one row that fails does not take the others with it. No
fairness is given to people or to Payme.

`SettlementLocks` assumes that a session runs on: `SF` on a session's next step, because
PostgreSQL queues the waiters of a row, so one whose row is free again and again gets it;
and `WF` on `Victim`, because the deadlock detector runs after a second of waiting.

`Idempotency` assumes that time passes, that a statement which can run does, that a client
without an answer calls again (the retries are the point of the mechanism), and, by `SF` on
`Finish`, that a call which is handled again and again does not break down every time.

`Permits` assumes that the nightly jobs run (`WF`), that the expiry, which waits for the row
of a permit somebody signs or writes a ticket for, gets it in its turn (`SF`, as above), and
that a request at work ends. The nightly closure and the watch over stalled permits share one
weak fairness: each does its work once per permit, so neither can keep the other waiting. Nobody is assumed to sign: that is why an unsigned permit is
only promised to be reported.

`Delivery` assumes that a worker polls for ever and takes the row due the longest first (`SF`
on the picking of a message, which pauses and nights disable and enable again), that a send
ends, if only by its timeout, that a breaker's pause and a night end, and that the alert runs
every five minutes. It assumes nothing of the provider: every send may fail.

`Review` needs none: people decide it.

## 5. What is proved

`SettlementProofs` proves for any sets of applications, transactions, documents, employees
and amounts, under the one assumption `SettlementAssumption` (transactions are not
documents, amounts of documents are positive, prices are naturals, `NoApp` and `Nobody`
are nobody):

| Theorem | Property |
|---|---|
| `TypeCorrect` | `TypeOK` |
| `InductiveHolds` | `Inductive` |
| `NoDoubleSettlement` | `SettledOnce` |
| `StatusesAgree` | `InvoiceFollowsApplication` |
| `LedgerIsFaithful` | `LedgerMatchesProvider` |
| `FourEyes` | `ManualNeedsTwo` |
| `NoSilentDiscrepancy` | `DiscrepancyRegistered` |
| `FreeIsToldFromPaid` | `FreeSettlementReadsRight` |

The argument. None of the properties is inductive alone. That an invoice is settled once
rests on "pending means nobody's money is booked", which rests on the guard under the
lock; that the guard is enough rests on the ledger counting what performed
(`LedgerMatchesProvider`), on a row never pointing at an application that is free of
charge, and on its amount (`RowsAreBilled`); that a payment can move the application
rests on invoice and application agreeing, which in turn needs that no application is
left between two writes of one request (`NothingHalfDone`). `Inductive` is the
conjunction. `InductiveStep` has one case per action; actions that touch only one side
share lemmas for the part they leave alone (`RowsKept`, `ApplicationsKept`,
`BookedKept`), and the two that book money share `MoneyIsBookedOnce`. `Inductive` is also
an invariant of the run `settlement`.

`IdempotencyProofs` proves, for any requests and bodies, under `IdempotencyAssumption`
(every request has a body; the two null values are none of the others):

| Theorem | Property |
|---|---|
| `TypeCorrect` | `TypeOK` |
| `ExclusiveClaim` | `ClaimIsExclusive` |
| `DoneOnce` | `OnceUnlessLapsed` |
| `OwnAnswer` | `AnswersOwnBody` |
| `SuccessIsDone` | `SuccessMeansDone` |

The inductive one is `ClaimIsExclusive`: until the key lapses, its row carries the
fingerprint of the one request at work and no answer; nothing has been done while there is
no answer; and nobody is about to delete it. That the work is done once and that answers
are answers to the right question follow from it. `SuccessMeansDone` needs neither the
claim nor the key: it rests on the answer and the work being one commit, and on committed
work never going away (`EffectsGrow`).

`PlotProofs` proves `PlotNeverOvergiven`: on no day is more of a plot held than some norm
allowed, unless one claim holds it alone. The sum over the periods that meet a new one bounds
each of its days (`TakeFits`), and giving back bounds nothing (`ReleaseFits`). What it needs of
the sums is in `PlotAssumption`: `Total` is additive and monotone, as SQL's `SUM` is.

`PermitsProofs` proves, for any finite set of permits and any norms, periods, loads, lists of
signatures and batch size, under `PermitsAssumption`:

| Theorem | Property |
|---|---|
| `TypeCorrect` | `TypeOK` |
| `SignaturesComplete` | `SignedIsInForce` |
| `TicketsFollow` | `TicketsFollowPermit` |
| `ExtensionsReplace` | `ExtensionReplacesParent` |
| `PermitsImplementPlot` | `ImplementsPlot`, the refinement |
| `PermitsNeverOvergiven` | the theorem of the plot, carried over |

All rest on `RowLocks` (`LocksHold`): one issuance at a time, of a permit with no row; a
signature at work has its permit to itself and has seen every committed signature; a ticket
at work has a permit in force; an extension's parent was in force once. For the refinement the
invariant is that an issuance at work still has the room it saw (`RoomStep`): meanwhile others
may only leave, and fewer claims leave more room (`FitsShrinks`). `PermitsNeverOvergiven`
is then nothing but `PlotNeverOvergiven` under the refinement mapping.

`DeliveryProofs` proves `TypeCorrect`, `CopiesAreExplained` (`SentOnce`) and `ReportsAreKept`
(`ReportKept`) for any sweeps, messages, workers and administrators and any bounds, under
`DeliveryAssumption`. `RowIsLocked` says a message is one worker's; `CopiesExplained` that the
copy no trouble explains is one in flight or of a delivered message, and that only a message
with a sender has copies; `OneVerdict` that the
reports of an untroubled message are one verdict, and a kept one.

`ReviewProofs` proves all six properties of the run, for any plots, claims, offices, users and
tariffs, under `ReviewAssumption`: `TypeCorrect`, `AssignmentsAgree`, `PausesArePaired`,
`BenefitsAreVerified`, `PricesAreDecided`, `PrintedAsInvoiced`. The shared invariant is
`Stage`: which requests and rows can be there at which status. On it stand `PauseExplained`
(a request for information that outlives its wait was taken back, and a deadline that passed
in the days of an answer is ahead again when they end), `ClaimFollowed` (a verdict
is of the claim filed, and a resubmission reopens it) and `PriceFollowed` (where the newest
calculation and the frozen area come from, or what the former overtook).

`SettlementLocksProofs` proves, for any finite sets of applications and sessions, under
`SessionsAssumption`:

| Theorem | Property |
|---|---|
| `TypeCorrect` | `TypeOK` |
| `RequestsImplementSettlement` | `AtomicRequests`, the refinement of `Settlement` |
| `CommittedRowsAreSettled` | the five safety theorems of `Settlement` about money and invoices, carried over to the sessions |
| `LockOrderHolds` | `OnlySweepsDeadlock` |
| `OneSweepNeverDeadlocks` | `NoLockCycle`, where `MaxSweeps` is at most one |

The commit of a request does not look again at what it read, so the refinement stands or
falls with what the locks protect in between. The inductive invariant (`LocksInv`) says
it: a lock is held because of the step its owner's request is at (`Holds`), and what a
session has read and decided on is still so (`KnowsSource`, `KnowsInvoice`, `KnowsBatch`),
because whoever could change it needs a lock the session holds (`WholeProtects`,
`CommitProtects`, `OthersStill`). Then a commit is a step of
`Settlement` (`CommitIsStep`, `ReversalIsStep`, `WholeIsStep`), and locking, failing and
giving up are none. `Inductive` of `Settlement` comes along through the mapping. For the
circles: whoever waits for a source holds nothing yet, so nobody waits for it
(`NobodyAtSource`); any other request that is no sweep holds an invoice and waits for its
application, which in a circle only a sweep could hold, and that sweep would hold the invoice
too (`CirclesAreSweeps`). Circles of one sweep there are none, so `OneSweepNeverDeadlocks` is
the claim of `payments/jobs.py` with the hypothesis it needs, and the run
`locks_two_sweeps` shows that it needs it. `LocksInv` was an invariant of the three lock
instances before it was proved.

`RefundsProofs` proves, for any finite sets of refunds and recipients, any splits, prices
and amounts, under `RefundsAssumption`:

| Theorem | Property |
|---|---|
| `TypeCorrect` | `TypeOK` |
| `NothingIsLost` | `SplitLosesNothing` |
| `BookedExactlyOnce` | `RefundBookedOnce` |
| `ReversalCancels` | `ReversalCancelsPayment` |
| `FreshApprovalsFit` | `FreshApprovalFits` |
| `BalanceIsAccounted` | `BalanceAccounted`: the balance is what arrived, unless it was reversed, less what was returned |

It has three parts. The first makes the library's sum over a finite set a sum one can
calculate with: one element and the rest (`SumTakes`), two sets apart (`SumOfUnion`), values
and their opposites (`SumOfOpposites`). The library's sum is a fold by a recursive function
whose existence has to be shown (`SumsUnfold`), and the inductions behind it go through the
well-foundedness of strict inclusion, with sets instead of predicates (`SubsetsInduction`).
The second says what the code's three writers append: the split is whole whatever the rules
floor away (`SplitIsWhole`), a refund's rows are its amount (`RefundRows`), the corrections
are the payment's rows, recipient by recipient (`CorrectionRows`). The third is the
inductive invariant `RefundsInv`, an invariant of the instance of `refunds` before it was
proved. What makes `RefundBookedOnce` and `FreshApprovalFits` inductive is *where* the rows
are: a refund's rows stand together, behind everything its approval read (`BookedWhole`),
and what the approval read covers its amount and never changes, since the ledger only grows
(`ReadFits`). `BalanceIsAccounted` is the other side of findings 2 and 3 below: what a balance
falls short by is refunds, and nothing else.

Only model-checked: `OverdueIsSettled`, `EveryRequestEnds`, `EveryCallIsAnswered`,
`EndedIsClosed` and `EveryMessageEnds`, which are liveness under fairness and out of the
prover's reach. Every other property of a passing run is a theorem.

## 6. Where the code and its words disagree

1. **Two sweeps can wait for each other** (`locks_two_sweeps`). The registry of locks in
   `payments/jobs.py` says no cycle is possible and `repo.py:58` that only one sweep runs.
   The sweep keeps the locks of its batch and its query has no order. Two leaders can be at
   work for up to a minute: the advisory lock goes with the connection that held it, and the
   old leader learns of it at its next heartbeat only (`workers/scheduler.py:229`). PostgreSQL breaks the circle and the savepoint absorbs it:
   `locks_progress` shows that nothing worse follows.
2. **Two approvals can refund more than there is** (`refunds_race`). `approve_refund`
   promises to refuse an amount above the current balance, and reads that balance without
   locking the invoice. `FreshApprovalFits` shows that the check is right when nothing
   comes between.
3. **A reversal after a refund leaves the ledger below zero** (`refunds_reversal`).
   `record_reversal` says the ledger of the invoice sums to zero if only one transaction
   performed; it does not count refunds. Its narrower promise, that the transaction's own
   rows cancel out, holds (`ReversalCancelsPayment`).

4. **Reclaiming deletes more than a stale marker** (`idempotency_reclaim`). `begin()`
   decides that a marker is stale on a row it read, and deletes by key and user alone. If
   the slow handler answered in between, or a second retry had already claimed the key
   anew, that row goes too, and the work is done again. A `WHERE` on `created_at` and
   `response_status` would close it. How far the harm goes depends on the route: a filing
   also meets the exclusion constraint of its plot.

The properties of `Permits`, `Review` and `Delivery` hold with exceptions, each named in the
property, by a term or a history variable that fits the case in question only. These are what the code
does where its words say nothing, or something else.

5. **A recalculation can pass a decision** (`PermitPricedAsInvoiced`, `PriceIsDecided`,
   "overtaken"). It takes no lock. Begun before a decision and committed after it, its row is
   the newest and yet looks older than `decided_at`, so the permit prints an amount that was
   not invoiced; `permits/service.py:996-1021` means to rule that out. Committed between the
   limits and the invoice, with a sum above the limit, it bills beyond the authority of the
   decider. Begun during the approval and stamped after it, it leaves a paid application
   whose permit is refused. Begun after a resubmission with another plot has begun, and
   worked out for the old one, it is the newest. The exceptions are no wider: a sum within
   the limit, the invoiced amount or the submitted plot must hold whatever overlaps.
6. **A review can be started while the owner is asked** (`PausePaired`, `taken_back`).
   `start_review` is documented as SUBMITTED to IN_REVIEW (`applications/service.py:2936`),
   but the status table it relies on lets PENDING_INFO pass too. The question then stays open
   and the pause is not given back to the office. A second disagreement is in one comment:
   `applications/sla.py:12-17` calls RETURNED a pause "of the same shape" as PENDING_INFO, and
   adds that `submit` keeps the deadline. The days of an answer are given back
   (`shift_deadline`), those of a correction are not, so a file that was returned in time and
   corrected late is flagged by the first sweep after it is resubmitted. `PausePaired` says
   both: an application is never flagged for the days of an answer (but for the case above), and may be
   for those of a correction (`late_in = "correction"`).
7. **A shorter list of signatures strands a permit** (`SignedIsInForce`, `waived`). A pending
   permit that the change completes has nobody left to sign; activation happens in a signature
   only. `permits/repo.py:62-85` says that there is no recovery path.
8. **A suspended parent can come back beside its extension** (`ExtensionReplacesParent`,
   `resumed`), and a resumed permit is not asked for room (`ImplementsPlot`). An extension
   that is signed early ends its parent before the parent's last day, and the parent's ticket
   stays live behind it, as do the tickets of a suspended permit: `permits/service.py:2781-2782`
   says that "a ticket only ever rides an in-force permit", which the code checks when the
   ticket is written and not afterwards. `TicketsFollowPermit` names these two cases and
   allows no other; no ticket whose days still run stays under a revoked permit, or under an expired one that
   nothing replaced. And a parent that is suspended between the unlocked look at it and its
   lock is closed all the same, although the docstring at 1487-1488 says that this function
   "has no business overriding a human's own suspension of the parent".
9. **A norm published during an issuance** counts for the next issuance only.
10. **A permit archived before the night leaves its application open** (`EndedIsClosed`,
    second alternative). `permits/jobs.py:58-60` says that an archived permit's application
    was closed "long before", and the nightly closure looks at expired and revoked permits
    only. The archive takes a permit the moment it is revoked or expired, and the application
    then stays PERMIT_ISSUED; without the alternative TLC finds the run in seconds.
11. **The alert and a requeue can cross** (`Delivery`). Both read the dead row without a
    lock; the requeue may leave a pending message whose `alerted_at` is set, so its second
    death is told to nobody, which the comment at `integrations/service.py:298-300` means to
    prevent. `EveryMessageEnds` asks that the administrators are told of the present death,
    the second like the first; what it excuses is the message put back in the middle of an
    alert (`crossed`), and nothing else. A second requeue may also put back what the first
    one's delivery settled.
12. **Two sweeps that overlap notify twice** (`SentOnce`, `overlapped`): the question whether
    somebody was notified is asked without a lock.

## 7. What is not modelled

Inside the modelled parts: wording, audit entries, notices and permissions; `hint` of a
refund; the cursor of the invoices' sweep (a batch is every overdue invoice); Payme's
read-only methods; the twelve hours themselves (being late is a choice); who may approve a
refund. In `Permits`: duplicates, ratings, the public
check, and the snapshot the archive stores. In `Review`: documents,
conclusions, external checks and printouts, which are rows beside the application or
refusals; the filing of a second application for the same plot, which an exclusion constraint
of the database refuses; number and package of a filing. In `Delivery`: templates, the inbox,
the register of inbound dead letters, the purge, and the lengths of the backoff.

Payme, the bank, the signature and message providers and PostgreSQL are external: providers
may call, fail and answer at any time, and PostgreSQL is its row locks, its foreign keys'
share locks, its unique constraints and its deadlock detector.

Left out as a whole, with what they are:

- *inspections*: tasks, acts and violation cases with appeals. They have a protocol of their
  own, moved on rows that are read without a lock, and touch no modelled component: a decision
  on a case is recorded, and carried out by hand through the permit's own routes. First in the
  plan.
- *norms and gis*: registers of versions and formulas over decimals and geometry; what a
  request can see of them (the newest calculation, the norm in force, the tariff) is in
  `Permits` and `Review`. The GIS import and the bank statements are queues of one job under
  SKIP LOCKED, where a crashed row is marked failed by the same job.
- *signatures*: certificates and verification are cryptography; what a signature does is in
  `Permits` and `Review`.
- *auth, admin, audit*: who may call is a guard the models take as given; the one setting a
  protocol depends on is in `Permits`.
- *recipients, statements and bank matching, reports, oversight,
  beekeepers, occupancy, dashboard, public, search, help*: screens, exports, registers, and
  short chains of statuses under one row lock each.

## 8. Plan

1. `Inspections`: an act signed while it is edited, a case decided while its appeal is filed,
   a task reassigned while its act is signed.
2. `Reports`: the statuses of a statistical report with its correction, if the run says more
   than the row locks already do.
3. More proofs, as the model grows: what `Inspections` will promise, and the steps of
   `Delivery` and `Review` against abstract specifications of a queue and of a file.
