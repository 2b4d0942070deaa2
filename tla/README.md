# TLA+ verification of gst-billing-saas

This directory holds TLA+ models of the application's bookkeeping, point of sale,
accounts and request path, the TLC configurations that check them on small instances, and theorems about them
checked by TLAPS. Paths below are relative to the repository.

## 1. Inventory of the system

The application is a NestJS monolith (`apps/api`) over one PostgreSQL database,
a stateless gateway in front of it (`apps/api-gateway`), a second service for
customers and suppliers that shares the database (`apps/party-service`) and a
Next.js client (`apps/web`). All state is in the database; handlers interact
through its rows and its isolation levels, not through memory.

| Component | State | Operations | Correct when |
| --- | --- | --- | --- |
| finance (`apps/api/src/finance`) | accounts, balances, ledger entries, payments and allocations, expenses, transfers, number sequences | create/update/deactivate account; draft, edit, delete, post, reverse payments; the same and cancel for expenses; create and reverse transfers | balances and ledger agree; nothing is settled beyond its total; a posting happens once and its reversal undoes exactly it; posted rows are frozen; numbers have no gaps |
| invoices (`apps/api/src/invoices`) | invoices, lines, sequence | draft, edit, discard, finalize, cancel, POS finalize | stock never negative, deducted once, restored once |
| business documents (`apps/api/src/business-documents`) | quotations, orders, challans, returns, bills | draft, edit, discard, transition, cancel, convert | returns bounded by their source; only bills and returns move stock |
| catalogue and inventory (`apps/api/src/catalogue`) | products, stock, movement log, categories | create with opening stock, edit, adjust | movement log explains the stock |
| invoice calculator | none | line and document totals, tax split, financial year | totals add up after rounding |
| POS (`apps/api/src/pos`) | none of its own | checkout: look up, finalize, pay; retries | one sale per checkout id, payment recorded or reported |
| auth (`apps/api/src/auth`) | users, sessions, refresh and one-time tokens | signup, login, refresh, logout, reset, verify | rotation, reuse revokes, a reset ends every session |
| businesses | business, membership | create, update | one owner, one current business |
| parties (`apps/party-service`, client in `apps/api/src/party`) | customers, suppliers, code counters | create, update, deactivate over HTTP with a timeout | codes unique; a timed-out call has an unknown outcome |
| gateway (`apps/api-gateway`) | one in-flight request each | forward, time out, abort | at most one answer; over in the end while its client stays |
| web client (`apps/web/lib/api.ts`, POS page) | cookie jar, one shared refresh per tab, the Web Lock | call, refresh and retry, time out | every call with the default timer settles; no tab's refresh undoes another's |
| security context (`packages/security-context`) | none | sign, verify within an age window | stale contexts refused |
| dashboard, GST reports | none | read-only aggregation | - |
| health, cache, queue, config, OpenAPI | none | I/O | - |

How they interact: the client calls the gateway, the gateway the API, the API (for
customers and suppliers) the party service, each with a timeout of its own and without
telling the next that it stopped waiting. POS calls invoices and then finance; business documents call
invoices to convert; finance reads the status of invoices and bills and the
active flag of parties; invoices and documents change the stock of products; all
of them take permanent numbers from per-year sequences.

What is hard: everything runs concurrently, and the isolation level decides what
may interleave. Two kinds of handler exist:

* **Serializable** (`serializable` in `catalogue.data.ts`, `retry` in
  `finance.service.ts`, `serial` in `auth.service.ts`): the transaction behaves as
  if alone; on a conflict it rolls back, is retried up to three times, and then fails
  without effect. In the models it is *one action*, and every failed attempt a
  stuttering step. This is an assumption about the database, not a result: a
  transaction done by half, or two that read the same stock, balance or counter and
  both commit, cannot be written down in these models, and no property here would show it.
  The hazards that consist in just that are listed in `PROJECT.json` with this
  note instead of a property. `LedgerReconciles`, `StockReconciles`, `NumbersGapFree` and the
  refinements say that the handlers are right *given* the assumption, in any order.
* **READ COMMITTED** (`updateAccount`, `deactivateAccount`, `deletePayment`,
  `createExpense`, `updateExpense`, `deleteExpense`, and outside finance the creation of
  products, categories and parties): the handler reads, decides, and later writes *by
  id only*. In the models this is two actions with the request in `inflight` between
  them. Product creation writes only a row it has just made and a locked counter, so
  it is one action.

* **Reads before the transaction** (`login`, `issueOneTimeToken`, `BusinessesService.create`
  through the guard, `PosService.checkout`): also two or more actions, with what was read
  kept in `pending` or `handler`.

A crash of a process between two steps is `Abandon` in `Finance` (the open transaction is
rolled back) and `Die` in `Auth` and `PosCheckout` (the steps already committed stay).

## 2. Modules

| Module | Models |
| --- | --- |
| `Postings` | the abstract promise of all bookkeeping here: an item changes several cells once, in one step, and undoing it takes back exactly that |
| `Ledger` | the log rows behind every quantity (`MoneyAccountEntry`, `StockMovement`) and what it means that they reconcile |
| `Sums` | the sums over rows that all of them take (`reduce`, `aggregate`) |
| `Finance` | `finance.service.ts` |
| `Stock` | `inventory.service.ts`, `products.service.ts`, `invoices.service.ts`, `business-documents.service.ts` |
| `InvoiceCalculator` | `invoice-calculator.ts`: the amounts of one line |
| `PosCheckout` | `pos.service.ts`, the POS path of `invoices.service.ts`, the till of `pos-page.tsx` |
| `Auth` | `auth.service.ts`, `auth.guard.ts`, creation in `businesses.service.ts` |
| `Parties` | creation of a customer in `proxy.service.ts` (gateway), `http-party-service.client.ts` (API), `prisma-customer.repository.ts` (party service) |
| `Browser` | `apps/web/lib/api.ts` in several tabs, in front of `Auth` |
| `Web` | composes `Browser`, `Auth` and `Parties`; fairness and liveness |
| `MCFinance`, `MCStock`, `MCPos`, `MCAuth`, `MCWeb` | instances for TLC |
| `LedgerProofs` | lemmas about logs and about sums over finite sets |
| `FinanceProofs` | types and ledger of `Finance` |
| `FinanceBooksProofs` | the other properties of `Finance`, and that it implements `Postings` |
| `StockProofs`, `CalculatorProofs`, `PosProofs`, `AuthProofs`, `WebProofs` | theorems about the module each is named for |

### Finance

`account`, `balance` and `entries` are the `MoneyAccount` rows and their ledger;
`payments`, `expenses`, `transfers` the documents with their data; `sequence` and
`nextAccountNumber` the counters; `docStatus` and `partyActive` what finance reads of
invoices, bills, customers and suppliers, changed by environment actions. Each
action is named for the handler it models; `ReadX`/`WriteX` (or `ReadForExpense`
and `CreateExpense`, `UpdateExpense`) are the two halves of a READ COMMITTED handler.
`ChangeBalance(moves)` is `changeBalance` for all accounts of one handler at once:
within one transaction the order of the accounts cannot be observed. Directions and
absolute amounts of ledger rows are kept as one signed `delta`. Deleting a row is
refused while a ledger row refers to it (`Referenced`): the foreign keys are ON DELETE
RESTRICT, and this, not the check of DRAFT, is what protects a posted payment
from a late delete.

### Stock

`product` holds existence and the active flag; which products keep stock
(`Tracked`) and which are services is fixed at creation by the code, hence constant.
`docs` holds invoices and all seven types of business document; a document's type is
fixed by its route (`TypeOf`). A line is product, quantity and, for returns, the source
line. Lines of the same product are added up (`ProductQuantity`) before stock moves.
`convertToInvoice` reads in one transaction and writes in another, so its action accepts
a source that has been cancelled since. The quantity column is bounded (`MaxStock`):
`adjust` checks it, elsewhere the database refuses the value and the transaction fails.

Both implement `Postings` under the mappings at the end of the modules
(`ImplementsPostings`): payments and transfers onto account balances, documents onto
stock. Expenses are not items: a stale edit may change what an expense will give back
(see the findings), so they enter as single-cell adjustments.

### InvoiceCalculator and PosCheckout

Money is in paise, quantities in thousandths, rates in hundredths of a percent;
`RoundHalfUp` is `money` on an exact fraction. `CalculatedLine` is `line`.

A till keeps its `clientCheckoutId` (`<<till, n>>`) until a checkout succeeds. A request
goes through `Lookup` (outside any transaction), `Finalize` or `Refuse` (the Serializable
transaction, which looks the id up again) and `Conclude` (the tender, after the sale is
final), and may `Die` before each. The till may `GiveUp` on it and submit again, the same
cart or another, while it still runs. A product's rate may change at any time. `Tenders` are
what a preview answered for this cart or another, at these rates or earlier ones, or 0.00:
the repository's own page always sends 0.00, because `invoiceSchema`
(`apps/web/lib/invoices.ts:48`) requires `gstRate` of every line and the preview sends none,
so its previews are refused; the model covers both kinds of client.

### Auth

Rows are never deleted, so a table is a sequence and an id a position in it. The clients
are arbitrary: any token or link ever issued may be presented again. `login`,
`request-verification` and onboarding read first and write later (`ReadForLogin`,
`ReadForVerification`, `Admit`), everything else is one transaction. Two fields are
history: the password a session was opened with, and what revoked it.

### Parties, Browser and Web

`Parties` is one exchange per call at each hop: `gateway` with the events of
`ProxyService.forward` (`OnResponse`, `OnEnd`, `OnTimeout`, `OnError`, in any order the
sockets allow) and of the pipe inside it: `OnData`, with which the headers leave, so that a
timeout between response and body still answers 504; and `OnClose`, after which the pipe
stops and neither data nor end comes. `api` is the API with its ten-second client, `party` with the row. Nothing cancels a
later hop when an earlier one stops waiting.

`Browser` is `api()` (`Send`, `Receive`, `AwaitRefresh`, `SendAgain`, `ReadBody`, `GiveUp`)
and `refreshSession` (`SendRefresh`, `ReceiveRefresh`, `GiveUpRefresh`), with `queue` as the
Web Lock and `wire` as the messages under way, which may be delivered in any order or never.
`ServeRefresh` is `POST /auth/refresh` and takes the `Refresh` step of `Auth`. `Web` adds
the calls themselves: `Arrive` through `AuthGuard` and the gateway, `Respond`, `Relay`,
`RelayEnd` and `RelayError` back, and `Leave`, by which the gateway hears that the browser
aborted. A second exchange of a call starts when the first is over.

## 3. Runs

| Run | Instance | Checks |
| --- | --- | --- |
| `payments` | 1 account, 2 payments, 1 invoice of 2, 1 bill of 1, 1 customer, 1 supplier, amounts 1 and 2, allocation lists over one or both documents, 2 requests in flight | type invariant, `LedgerReconciles`, `NoOverAllocation`, `EntriesFollowStatus`, `NumbersGapFree`, `BooksBalance`, `PostedPaymentFrozen`, `ImplementsPostings` |
| `books` | 2 accounts, 2 expenses, 1 transfer, 2 requests in flight | `LedgerReconciles`, `EntriesFollowStatus`, `NumbersGapFree`, `ImplementsPostings` |
| `sales` | 1 product, 1 service, 1 quotation, 2 invoices, 1 sales return, stock 0 or 2, shelf of 3 | type invariant (stock within 0..MaxStock), `StockReconciles`, `MovementsFollowStatus`, `NumbersGapFree`, `InactiveNotSold`, `ImplementsPostings` |
| `purchases` | 1 product, 1 service, 1 purchase order, 1 bill, 2 purchase returns with split lines, 1 adjustment | `ReturnsWithinSource`, `MovementsFollowStatus`, `StockExplained`, `ImplementsPostings` |
| `accounts` | 1 user, 2 passwords, 2 handlers at once, 2 sessions, 3 refresh tokens, 3 links | `SessionsHonourPassword`, `OneLiveToken`, `OneUsableLink`, `OneBusinessPerUser`, `EndedSessionsStayEnded` |
| `calls` | 2 calls in 1 or 2 tabs, 1 session, 3 refresh tokens | type invariant, `OneAnswer`, `OneRowPerCall`, `AnswersMatchRows`, `ReplayMeansGivenUp`, and the liveness property `CallsSettle` |
| `pos` | 1 till with 2 checkouts, 2 handlers, 2 carts (one naming a product twice), 1 product with 2 rates and a stock of 2 units, 1 service | type invariant, `OneSalePerCheckout`, `StockFollowsSales`, `ReceiptsShowTheSale`, `QuotesHold`, `AmountsAddUp`, `TaxFollowsRate` |
| `overallocation` | expects a violation of `NoOverAllocation` | finding 1 |
| `expense_edit` | expects a violation of `PostedExpenseFrozen` | finding 2 |
| `inactive_party` | expects a violation of `PostedForActiveParty` | finding 3 |
| `double_restore` | expects a violation of `StockRestoredOnce` | finding 4 |
| `pos_payment` | expects a violation of `RecordedPaymentRecorded` | finding 5 |

The bounds are the number of rows a table may hold (the id sets), the amounts,
`MaxInflight` (requests between read and write) and `MaxAdjustments`. They are
enough for the cases the properties are about: two payments compete for an
invoice that both together exceed; two stale requests overlap with a posting; two
invoices compete for the same units; a document is split over two lines of the
same product; two returns compete for the same line; the shelf is too small for a
bill on top of a return. A third row of a kind meets no guard that the second did not.
Ids that nothing distinguishes are symmetric (accounts, payments, expenses, returns).

In `accounts` one user is enough because no row of one user is ever read or written for
another; two sessions of three tokens allow a session to be refreshed twice, or one beside
it. In `calls` three tokens are all that two calls can use: each call refreshes once
at most, starting from one. The first call is always in the first tab: what else the tabs may do
is the same with their names exchanged, and liveness cannot be checked under symmetry. A till has one open checkout, so a second till would differ
from a second handler only in the id it submits; two checkouts of one till already compete
for the last unit. The amounts of the carts are chosen so that the tax of a line ends in
half a paisa, the halves of the tax differ, and an inclusive price does not divide.

### Fairness and liveness

`CallsSettle` says that a call of `api()` returns, if it passes no signal of its own and so
has the timer of `api.ts:26`, as creating a customer does; and that its exchange at the
gateway ends, unless its client left while the answer was on its way. That exception is real:
a response piped into a closed `res` (`proxy.service.ts:114`) is paused, `end`
does not fire, and when the API closes a connection it is done with, neither does `timeout`
or `error`. Without the exception TLC refutes the property. `Fairness` in `Web` assumes:

* `WF(GiveUp \/ SendAgain)` per call: `AbortSignal.timeout(15000)` fires unless an answer
  came first, and a promise that settled is continued (`api.ts:26`, `:46`).
* `WF(SendRefresh \/ GiveUpRefresh)` per tab: the lock manager grants the Web Lock in order,
  and the same timeout ends the refresh of its holder (`api.ts:38`).
* `WF(Moves)` per exchange: while the gateway waits for the response, the socket timeout
  (`proxy.service.ts:110`) runs, or the connection fails; while the client is there, the pipe
  flows, to the end of the answer or to the timer or an error. Of an exchange
  whose client left in the middle of its answer nothing is assumed.

Nothing is assumed of the network, the API, the party service or the user: they may stay
silent forever. `Finance`, `Stock`, `Auth` and `PosCheckout` have no liveness property:
nothing in those handlers waits for anything, and a conflict ends in an error after
three attempts.

Deadlock checking is on everywhere except in `calls`, where both calls may be over, the user signed out and nothing left to happen.

### Findings

1. One payment may allocate to the same invoice twice; each allocation is compared with
   the total alone, so the invoice is settled beyond it (`finance.service.ts:60`, README
   line 186). `NoOverAllocation` holds in `payments`, where a list names each
   document once.
2. `updateExpense` may rewrite an expense posted since it was read (`:70`). Its
   cancellation then gives back an amount the posting never took. `deletePayment`
   and `deleteExpense` have the same shape and are saved by the foreign key.
3. Posting a payment does not look at its party (`:57`), the README says it does.
4. Cancelling an invoice restores all of it although a finalized return restored part
   (`invoices.service.ts:268`). The same for a bill and its returns, where stock is taken
   twice, unless it would become negative.
5. A POS checkout with a recorded payment never records one: it asks for a
   `CUSTOMER_RECEIPT` without a customer (`pos.service.ts:50`) and `paymentData` refuses it
   (`finance.service.ts:51`), after the sale is final (README line 168).

Observed while modelling, without a run: `lineData` (`invoices.service.ts:437`) stores no
`gstRate` on invoice lines, so the column keeps its default 0 (`schema.prisma:620`), while
`business-documents.service.ts:268` stores it, README line 289 says the rate is
snapshotted, and the GST report groups sales by it (`gst-reports.service.ts:32`). A
checkout retried after its tender was refused is answered as a duplicate with neither
payment nor error; a cart edited before the retry is answered with the invoice of
the first cart.

## 4. Proofs

Every invariant and every action property the passing runs check, and both refinements, are
theorems for all values of the constants that the `ASSUME`s allow. Two of them
have a hypothesis, and each time a run shows that it is needed:
`DistinctTargetsNeverOverAllocate` and `BooksBalanceWhileExpensesKeep`. The one property
left to TLC is `CallsSettle`: liveness under fairness is out of the prover's reach.

`FinanceNumbersGapFree` is about payments, expenses and transfers; the codes of accounts, which
come from a counter of their own, are not among the numbers it speaks of. `ReplaysMeanLostAnswers` is about a
browser that has Web Locks.

The assumptions are what the database and the code guarantee: the ids of a table are
finitely many (`IsFiniteSet`) and those of different tables differ (`DistinctRefs`); amounts,
quantities and rates are natural numbers; invoices are not bills and customers not
suppliers; what a request may carry has passed its DTO.

| Property | Theorem | Module |
| --- | --- | --- |
| types | `FinanceTypeOK`, `StockTypeOK`, `CheckoutTypeOK`, `WebTypeOK` | `FinanceProofs`, `StockProofs`, `PosProofs`, `WebProofs` |
| quantity and log agree | `FinanceLedgerReconciles`, `StockAlwaysReconciles` | `FinanceProofs`, `StockProofs` |
| which log rows exist | `EntriesAreAccountedFor`, `MovementsAreAccountedFor` | `FinanceBooksProofs`, `StockProofs` |
| what they add up to | `BooksBalanceWhileExpensesKeep`, `StockIsExplained`, `StockIsWhatSalesLeft` | `FinanceBooksProofs`, `StockProofs`, `PosProofs` |
| limits | `DistinctTargetsNeverOverAllocate`, `ReturnsStayWithinSource`, `InactiveProductsAreNotSold` | `FinanceBooksProofs`, `StockProofs` |
| frozen rows, numbers | `PostedPaymentsAreFrozen`, `FinanceNumbersGapFree`, `StockNumbersGapFree` | `FinanceBooksProofs`, `StockProofs` |
| refinement of `Postings` | `FinanceImplementsPostings`, `StockImplementsPostings` | `FinanceBooksProofs`, `StockProofs` |
| amounts | `LineAddsUp`, `LineTaxFollowsRate`, `SalesAddUp`, `SalesAreTaxedByRate` | `CalculatorProofs`, `PosProofs` |
| checkout | `CheckoutSellsOnce`, `TillsShowTheSale`, `QuotedTendersHold` | `PosProofs` |
| accounts | `ResetsEndOldPasswords`, `RotationKeepsOneToken`, `LinksWorkOnce`, `OnboardingCreatesOne`, `EndedSessionsAreOver` | `AuthProofs` |
| request path | `CallsCreateOnce`, `AnswersAreTrue`, `ExchangesAnswerOnce`, `ReplaysMeanLostAnswers`, `BrowserIsAClient`, `BrowserSessionsAreOver` | `WebProofs` |

### Logs and sums (`LedgerProofs`)

`ReconcilesAppend`: a reconciling log stays reconciling when the row
`Entry(kind, delta, quantity, ref)` is appended and the quantity moves by `delta`.

`SumOf(f)` of `Sums` adds `f` over its domain. The library computes it with a recursive function
on the subsets of the domain and a `CHOOSE` of the element to take next, so what it is of
any set takes an induction. The induction theorems of the library take the property as
an operator, which the provers cannot instantiate; `MinimalSet` says the same with a
set instead: among the subsets of a finite set for which something fails, one is
minimal. From it follow that the recursive function exists and is unique (`SummingExists`,
`SummingUnique`), that the sum does not depend on the order (`SumStep`), and the lemmas the
other modules cite: `SumOfType`, `SumOfNat`, `SumOfEmpty`, `SumOfSame`, `SumOfAdded` (a row
more), `SumOfChanged` (a row changed) and `SumOfPlus` (two columns added).

### Finance

`FinanceProofs` proves `IInv == TypeOK /\ LedgerReconciles /\ AbsentEmpty` inductive.
`AbsentEmpty` says that an account that does not exist has no ledger rows and a zero
balance; without it `CreateAccount`, which sets the balance to the opening balance and
appends one row, is not known to append it to an empty log. The
actions that touch a balance go through `ChangeBalance` and `ReconcilesAppend`, all others
leave the books unchanged.

`FinanceBooksProofs` extends it to

    Inv == IInv /\ EntriesFit /\ CreatesFresh /\ GaplessTables /\ AbsentUnopened

`EntriesFit` names the ledger rows of a document where `EntriesFollowStatus` counts them, and
adds that a transfer has two different accounts (else its reversal would write one row);
`CreatesFresh` that a request creating an expense has its id to itself (else its late
write, by id only, could take a posting back); `GaplessTables` is `NumbersGapFree` over
functions; `AbsentUnopened` is `AbsentEmpty` for the opening balance, needed to add up
`BooksBalance`. Each action is one of a few shapes (`NextShape`): it leaves
documents and books alone, drafts, posts or reverses one document. Every property is
preserved by every shape, so that it is proved per shape instead of per
handler.

`PostedPaymentFrozen` rests on `EntriesFit`: a delete that read the draft is stopped because
the posted row is referenced. `NoOverAllocation` is proved of `ValidateOutstanding` for requests that
name each document once (`TargetsDiffer`): what is settled is a sum over all posted
payments, and the guard compares one allocation at a time with the rest; with a list that
names a document twice it fails (run `overallocation`). `BooksBalance` is proved for the
behaviours in which `PostedExpenseFrozen` holds, which the code does not ensure (run
`expense_edit`); in `payments` there are no expenses.

### Stock

    Inv == IInv /\ NumbersGapFree /\ StatusFits /\ RowsFollow
                /\ SourceNumbered /\ ReturnsWithinSource /\ StockExplained

`IInv == TypeOK /\ StockReconciles` is inductive by itself: stock and movements change
only in `ChangeStock`, and `ChangeStockLemma` carries both over `ReconcilesAppend`. `RowsFollow` says which
movement rows a document has and what each of them carries, since a cancellation
computes its quantities from the lines again and not from the row it takes back;
`StatusFits` that only types that move stock are ever FINALIZED; `SourceNumbered` that the
source of a finalized return is no draft, so that nothing has been returned to a
document when it is numbered and `ReturnsWithinSource` cannot be overtaken by an edit.
The shapes (`StepShape`) are a product renamed or switched on or off (`Renaming`), its stock
opened or adjusted (`Owning`), a document drafted, edited or discarded (`Drafting`), numbered
(`Numbering`) and cancelled (`Cancelling`).

### InvoiceCalculator and PosCheckout

`Rounding` and `RoundingBound` bound `RoundHalfUp` by its fraction; `LineIsPositive` (no amount
is negative), `LineAddsUp` and `LineTaxFollowsRate` follow for every line the code
accepts, at any rate, in either price mode.

    PosInv == ShapeOK /\ OneSalePerCheckout /\ SoldIsStored /\ ReceiptsShowTheSale

`ShapeOK` is the type of the state with each stored sale's lines and totals those of its
cart at its rates (the `SaleShape`), but without the stock. `SoldIsStored` says that a handler
past `Finalize` points at a stored sale of its own id; without it neither the answer nor the
tender check of `Conclude` can be related to a sale. `OneSalePerCheckout` is
preserved by `Finalize`, which looks the id up again; `Lookup` is stale by then.
`QuotedTendersHold` and `SalesAreTaxedByRate` follow from `PosInv` and the shape of a
sale; `SalesAddUp` from `LineAddsUp` and the sums of the columns. The stock is a second
invariant, `StockOK`, above `PosInv`: `Sold(p)` adds up what the standing sales took, and
`Finalize`, which compares all lines of a product together, `CancelSale` and the
steps that only touch the payment change that sum by one row.

### Auth

    AuthInv == AuthTypeOK /\ RefsOK /\ CredentialsOK
               /\ OneLiveToken /\ OneUsableLink /\ OneBusinessPerUser

`RefsOK` says that ids refer to rows that exist; `CredentialsOK` says of every session and every
login under way that its version is not ahead of the user's, and that if it is the
user's it was opened with the user's password. This is what makes
`SessionsHonourPassword` inductive: a reset raises the version, so everything read before is left
behind. `EndedSessionsAreOver` is an action property from `AuthInv`: no step takes back a
revocation or an expiry, and a version never returns.

### Browser, Parties and Web

`WebInv == ShapeOK /\ RowsOK /\ \A c \in Calls : CallOK(c)` is local to a call. `CallOK(c)`
relates what the browser is doing with the call (`PhaseOK`), its
messages (`MessagesOK`), its exchange at the gateway and how far the API and the party
service are with it (`ExchangeOK`). An exchange is `Unanswered` until its headers are sent or it is
over, and only then may an answer of the API still leave; `ExchangeOK` adds that after a timeout nobody is left to
answer, so that the error which follows it stays silent. `OneRowPerCall` alone is not inductive, because a call may be sent
twice: what makes the second one harmless is that an answer "unauthorized" was given
before the party service was called, so a request on the wire always means that there is no row
yet and that nobody is working on one. The lemmas `SameCall` and `SameMessages` carry
everything a step does not touch; `AnswerKeeps` and `ExchangeEventKeeps` are shared by
the gateway's handlers.

    RotationInv == AccountOK /\ TabsOK /\ WireOK /\ LockOK /\ RotationOK

is what `ReplayMeansGivenUp` rests on. `LockOK`: a refresh whose answer is awaited is that
of the tab at the head of the lock's queue, and there is one at most. `RotationOK`: until a
refresh is given up, and while the session stands, the token of the awaited refresh, or of its answer, or
otherwise the one in the jar, is the unused one. `AccountOK` is `AuthInv`, taken along
because the API's side of a refresh is the `Refresh` step of `Auth` and `RefreshKeepsInv` is
proved of it once. Giving a refresh up ends the claim and nothing else: its answer
may be the lost new token. `WebTypeOK` follows from both invariants.

`BrowserIsAClient` says that `Web` composes `Browser` with `Auth` without giving it new powers:
every step of `Web` is a step of `AuthNext` or leaves the accounts alone. It needs
`RotationInv`, because a refresh on the wire must present a token that was issued. What is
proved of single steps of `Auth` then holds of `Web` (`BrowserSessionsAreOver`).

### How the proofs are laid out

A lemma says what a step changes in the terms of the invariant (`RowsChange`, `ResumeFreesLock`,
`AnswerKeepsLock`); another shows that a change of that form preserves one part of
the invariant; the last lemma of a component puts the actions together, and a theorem
combines it with the initial states by temporal logic.

## 5. Not modelled, and why

Names, notes, dates beyond their financial year and printed snapshots, which no property
here is about; expense categories; product categories and the uniqueness of SKU, barcode and
GSTIN, which are single unique keys; the settlement, dashboard, GST report and list views,
which are read-only; the profile update of a business and edits of a party, which write
data nothing modelled reads; configuration, health, cache, queue and OpenAPI, which are
I/O; the pages and forms of the web client; password hashing, JWTs and the signature of
the security context, which are cryptography; the wording of errors.

More than three quarters of the repository's implementation lines are the generated Prisma
client (`packages/prisma-client/src/generated`, 81,893 lines), typings and a query builder
without behaviour of the application's own: what its calls do is modelled where they are called.
Most of the rest is user interface. The handlers that change state are modelled.

Browsers without the Web Locks API: there `refreshSession` falls back to `else await refresh()`
(`api.ts:39`) and tabs do not wait for each other, so that two of them may present one token;
`HoldsLock` models the browsers that have it. Calls of `api()` that pass a signal of their own, which
have no timer (`api.ts:26`).

In `calls` the browser starts signed in and signs in no second time, so the late 401 of an
older session's refresh, which clears newer cookies (`auth.controller.ts:39`), does not
occur.

## 6. Plan

1. A second sign-in in `Browser`, with the cookies of two sessions crossing.
2. Proofs: all that is safety is proved of the present model; with each extension, its
   properties.
3. Updates and deactivation of parties over the same hops.
