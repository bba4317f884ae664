# TLA+ verification of Nordic Bank

Specifications, model-checking runs and machine-checked proofs about the services of this
repository. `PROJECT.json` maps every definition to the lines it translates, lists the runs, the
mutants that show that each property can fail, the hazards and the theorems.

## 1. The system

| component | state it keeps | operations that change it | hard because |
|---|---|---|---|
| account service (`internal/account`) | `account.accounts`, `account.account_ledger` | CreateAccount, UpdateStatus, AdjustBalance, ToggleFavorite | every handler loads a row, changes a copy and writes the whole copy back (gorm `Save`) with no lock, version or transaction; the error of the ledger insert is dropped; int64 sums |
| account requests (same service) | `account.account_requests` | CreateRequest, UpdateRequestStatus | the pending check is on a loaded copy; approval and account are two statements |
| transaction service (`internal/transaction`) | `transaction.transactions` | CreateTransfer | a saga over gRPC: unknown outcomes, compensation that may fail, an idempotency key, no recovery |
| auth service (`internal/auth`) | `auth.users`, `auth.sessions` | Register, Login, UpdatePreferences, SeedDefaultEmployee | look-up-then-insert against unique indexes, whole-row saves, tokens that depend on the second, a seed that may fail |
| customer service (`internal/customer`) | `customer.customers` | CreateCustomer (UpdateCustomer and UpdateKycStatus have no transport) | a gRPC call with a timeout and a silent fallback |
| customer frontend | per tab: user and token, preferences, the page with its lists, forms and timers; shared by the tabs: localStorage | sign in and out, preferences, favourites, requests, registration, navigation | every tab reads localStorage once and is not told of changes; optimistic updates; answers and timers that outlive the page that asked |
| employee frontend | the same for employees, and the widget of pending requests | sign in and out, approve and reject, onboarding, navigation | only the login page looks at the role; two tabs, or a widget that was left, decide one request; registration over two services |
| SQL schema (`migrations/`) | constraints, triggers, `expire_fund_reservations` | not deployed: the services create their tables with AutoMigrate | says what the tables were meant to guarantee |

The services run as one process each on one PostgreSQL. A browser talks to each of them over HTTP,
the transaction service calls `AdjustBalance` of the account service over gRPC, the customer service
calls `ListUsers` of the auth service. The tabs of a browser share localStorage, from which
`apiRequest` takes the token of every call. Every request is a goroutine; `main()` returns on a signal
without draining them.

What makes each component correct:

* account: no overdraft whatever is added; a closed account has a closing date; nothing but an
  overlapping save undoes a committed operation; a balance is always one that some operation
  computed; the ledger explains the balance; an inactive account does not move.
* requests: no account without an approval, one account and one decision per request.
* transfers: each step at most once per key; "completed" means the money moved; no money appears; a
  failed transfer gave back what it took; the books of the two services agree for every account on which
  no two operations overlapped.
* onboarding: a customer is made by the form that registered the user; a success has its user and its
  profile; the manager is an employee or the placeholder; a user who was registered without a profile,
  and with none on its way, stays without one.
* auth: users are distinct; a token has a session; a login changes nothing but the last login; only
  the seed or an employee makes an employee.
* pages: a page shows its user's accounts; stars, theme and localStorage agree with the service once the
  calls have ended, and the address has a language that was chosen or pushed last; every page stops waiting; only employees decide requests, and one
  widget never decides a request twice.

## 2. Modules

`AccountService` models the four operations at the granularity of the database calls. A request `r`
goes through `stage[r]`: "new" -> (GetByID) "save" -> (Save or Create) "ledger" -> (CreateLedgerEntry)
"done". `work[r]` holds the handler's locals: the row as loaded (`seen`) and the changed copy. Each
call may succeed, fail, or commit and still report an error (`...Unacknowledged`: lost
acknowledgement, cancelled context), and `Exit` ends a handler anywhere. `Plus64` is Go's wrapping
addition. Three observation variables, read by no guard, let the properties speak of history:
`serial` (what the committed operations would have made of the row one at a time, in exact
arithmetic), `overwritten` (some save hit a row its handler had not loaded) and `unlogged` (entries
of committed operations that were never inserted).

`Transfer` models CreateTransfer from the key lookup to the final status. A call of `AdjustBalance` is
a message on `wire`; the handler may give up on it while it stays there and takes effect later, or
never. The account service serves it in two steps, as the code does: `Load` reads the row and checks it
(active, `0 .. MaxInt` after the sum), `Save` writes all of it from the copy in `work`. `LoadEdit` and
`SaveEdit` are UpdateStatus and ToggleFavorite, which write the row in the same way. So two operations on
an account may lose an update, and may make a frozen account active again; `overwritten` is the
observation that a save met another balance than its handler had loaded. The ledger, the reserved amount
and the wrap of the sums are left to `AccountService`.
`Cancel` is the request context: all later calls of the handler fail at once, the compensation and
the status update included. `TransferSpec` is the abstract transfer (accepted once, three steps at
most once each, completed only when the money has moved); `Transfer` is checked to implement it under
the mapping `status <- [k |-> txs[k].status]`.

`AccountRequests` models CreateRequest and UpdateRequestStatus (load, save, open the account), for any
status string and any client. `StaffPages` is such a client.

`AuthService` models registration, login, preferences, token expiry and the start of the process with
its seed. One token stands for the access and the refresh token, and a tick of `clock` is the second
within which the tokens of two logins are equal.

`Onboarding` models the registration page of the customer frontend and the onboarding page of the
employee frontend over both services. `stage[f]` is what the page of form `f` shows or waits for; `calls`
are the calls that the services have not ended ("register" at the auth service; "arrive", "manager" and
"insert" at the customer service), each with whether its page still listens. A page may lose its call at
any moment and show an error (`GiveUp`) while the handler goes on through the lookup and the insert; the
profile then appears although the page has given up. A call may also fail (`CallFails`) at any step. Passwords,
names and the other fields are left out; of the profile's data the model keeps whose form it is, and that
the registration page sends a country of more than two letters, which the insert refuses
(`AuthContext.tsx:76`, `domain/customer.go:51`). Registering a user is one step, because its own
interleavings are the subject of `AuthService`. `registrar` is an observation: which form registered an email.

`Session` is what the AuthProviders of the two frontends have in common: `user[t]` and `ready[t]` are the
state of the provider of tab `t`, `stored` is the localStorage of each frontend, and `Bearer` is whose
token the next call carries. `Preferences`, `CustomerPages` and `StaffPages` EXTEND it.

`Preferences` models the PreferencesProvider in several tabs, the settings page, the locale layout that
mounts the providers again, the forms that push a locale, and the preferences' row. A call is a fetch, a
save, a login or a request for an account. It goes through "sent" (the service has not looked at it),
"answered" or "failed", and ends in its tab whenever it does: nothing in the code orders two calls. A login
is "read" between `CheckLogin`, where the service reads the row, and `FinishLogin`, where it writes all of
it back or ignores that it cannot. Its answer finds the provider that sent it (`ReceiveLogin`: a new
token, a fetch) or one that a change of the locale has replaced (`StoreLogin`: only localStorage has the
token, nobody fetches, the form pushes its old locale). What a request pushes after its two seconds is the
locale its form was sent from (`Redirect`); the two seconds are part of the "answered" stage. `GiveUp` is an
error on the page while the service goes on with the save or the login. Logins and saves in other browsers,
the push of "/" for which the middleware picks a locale, and steps back in the history are there too. The
answer to a registration is that of a login; what precedes it is `Onboarding`.

Four observations, which no guard reads: `due[t]`, the languages that the address of `t` may have when no
save is in flight (those in flight when one was chosen last, or the locale that something else moved the
address to since); `latest`, whose provider wrote localStorage last (none if a change of the locale had
replaced it when the answer came that it wrote); `orphaned`, that a provider that is gone set the theme
attribute; and `muddled`, that the code gives no guarantee that localStorage and the row agree: a fetch or
save failed or met one that disturbs it, another browser saved, or a login was answered after its provider was
replaced. A fetch or save that is sent on its own ends that, and from its answer on they must agree again. The
service's update is one step, because its own interleavings are the subject of `AuthService`; the
login is two, since what it writes back is an old copy of just these columns.

`CustomerPages` models one tab on any page of the customer frontend. `page` is where it is; `body`, `list`,
`stars`, `history`, `panel` and `form` are the state of the page and of the right sidebar, reset when the
page is mounted; `calls` are the requests in flight, each with who still listens to it (the page, only
the tab, nobody); `timers` are the pushes and resets that nobody clears. The services appear as far as a
page sees them (`owner`, `favourite`, `posted`), and other clients change them. A favourite is toggled at
the service in two steps (`Serve` reads, `Write` writes), as ToggleFavorite does. `SaveElsewhere` is every other
writer of the row, a deposit, a withdrawal, a change of status or a toggle in another tab: it has read the row,
and its `Write` saves the favourite that it read. `GiveUp` puts the star back because the connection was
lost while the service still goes on to save. `disturbed` is the observation that a save did not do to the
favourite what the page counts on (its own toggles change it, nothing else does), or that the answer to
one that did was lost.

`StaffPages` models the tabs of the employee frontend and contains the account service's requests
(`R == INSTANCE AccountRequests`): `Decide` sends a decision, `Serve` is a step of the service's handler for
it, `Decided` and `DecisionFails` are what the widget hears. `fetches` are lists of pending requests under
way, `jobs` logins and onboardings, `pushes` the timers of the onboarding page. The widget asks for
`/requests/?status=pending` (`AccountRequestsWidget.tsx:29`), while the route is `/requests` and redirects
of trailing slashes are off (`cmd/account/main.go:75`). The constant `Routed` says whether something in
between drops the slash: with FALSE no widget ever has a row and nothing can be decided from it, so the run
takes TRUE.

`MCAccountService`, `MCTransfer`, `MCOnboarding` and `MCPreferences` define the constants and symmetries that a
cfg cannot write down; the others are checked directly. The theorems about a module `M` are in `MProofs`.

## 3. Runs

| run | question | result and bounds |
|---|---|---|
| `AccountService` | what holds under any interleaving, failure and exit | passes: 3 requests, one funded and one new account, 3-bit integers, amounts -4, -2, 3 (an overdraft, a covered debit, a credit that wraps) |
| `AccountService_NoLostUpdate` | are concurrent operations serial (ADR 0003, line 10) | violated: two handlers load the same row, the second save undoes the first |
| `Transfer` | what a transfer guarantees | passes: 2 calls, 2 keys, 3 orders (one that can be paid, one that competes for its funds, one with the same key of an account to itself and of a negative amount), balances 0 and 1, one overlapping change of the status or the favourite at a time |
| `Transfer_FailedIsCompensated` | "Compensation: Re-credit Source" | violated: the rollback is refused because the source was frozen after the debit, the transfer is failed and the money gone |
| `AccountRequests` | what decisions guarantee | passes: 3 decisions, 2 requests |
| `AccountRequests_DecidedOnce` | "request is already processed" | violated: two overlapping decisions both succeed |
| `AuthService` | what users, sessions and preferences guarantee | passes: 3 requests, 2 emails, 2 names, 2 themes, 2 seconds; a token expires in the second after it was made |
| `Onboarding` | what two forms over two services guarantee | passes: 2 forms that are sent any number of times, 2 emails, 1 employee who may be hired at any time, every token, any number of calls left behind |
| `Onboarding_TryAgainHelps` | "Please check your connection and try again" | violated: 1 form; the user was registered, the form broke off, and every further attempt is refused |
| `Preferences` | do page, address, localStorage and service agree | passes: 2 tabs, 2 users, a theme and a language with two values, 2 calls in flight, 3 actions of the users, here or in other browsers |
| `CustomerPages` | what the pages show and whether they settle | passes: 1 tab, 2 users, 1 account, 2 calls in flight, 4 actions of the user or of other clients |
| `StaffPages` | who decides, how often, and what the widget shows | passes: 2 tabs, an employee and a customer, 1 request, 2 decisions, 1 list and 1 login or onboarding under way, 3 actions |

Why the bounds are enough: every hazard of the list is an overlap of two handlers, or of one handler
with an exit, a failure or a third party (an employee who freezes the account, a third request whose
save or token the others meet); the runs have one handler more than that where it is affordable. Two
accounts, keys, requests or users are needed to tell "the right one" from "another". Integers of three
bits have one value on each side of every comparison in the code. The hazards of the pages are an action
of the user (or of another tab, or of another client) between a call and its answer, or between two calls:
two calls in flight and three or four actions reach each of them, and every timer fires after the page
that set it is gone. That each mutant of `PROJECT.json` is caught shows that the cases happen within the
bounds. `CHECK_DEADLOCK FALSE` is said where the system may stop: the requests of a model are finite, and
a user may be done.

The symmetries permute calls (`Transfer`), forms and emails (`Onboarding`), and tabs, users and calls
(`Preferences`), none of which any constant tells apart. The temporal properties checked under one,
`ImplementsTransfer` and `StrandedForGood`, are safety. No liveness property is checked under a symmetry.

**Fairness.** *Pages*: effects run and timers fire (`WF` of `Start`, `Guard`, `Redirect`, `ResetSupport` and the
steps of panels and lists), and a call that was sent ends, with an answer or an error, which a browser
guarantees by its timeout, not that the service answers. What the user does and what other tabs and
clients do is not fair. Under this `PagesSettle` holds of both frontends: no page spins for ever and nobody
stays on a page that wants a user without one. The one exception is the page of all transactions, see
below. *Onboarding*: `WF` of "the call that the page waits for
goes on, or the page loses it", by the same argument; nothing is assumed of a call that no page waits for. Only `Onboarding_TryAgainHelps` assumes more
(`Persistence`), of the user and of the calls: it gives the retries every chance, and they fail all the
same. *Services*: the specifications of the handlers state that a handler that waits for a database call gets
an answer in the end, and that a call of AdjustBalance is answered or given up. No property needs it, since
each handler is a straight line that ends when its calls do. No arrival, exit or clock tick is fair.

## 4. Findings

1. Lost updates in the account service (`NoLostUpdate`).
2. A failed compensation loses the money of a transfer (`FailedIsCompensated`).
3. Two decisions for one request (`DecidedOnce`).
4. Trying again never completes an onboarding that broke off between the services (`TryAgainHelps`).

Seen while modelling, without a run of their own. In the services: the error of a ledger insert is
dropped, so that not "All balance changes" (003 SQL, line 88) are in the ledger; the entry of a debit has a
negative amount, against 003 SQL, lines 112-116; a login writes the preferences that it loaded back
(`internal/auth/application/service.go:130`); `expires_in` is 3600 for a token of 15 minutes
(`internal/auth/http/handler.go:149`); `SeedDefaultEmployee` "ensures at least one employee exists", but the
service starts without one when the insert fails. In the pages: the widget's trailing slash above; a
visitor's registration calls `POST /customers/`, which wants an employee's token; the page of all
transactions asks for the history of the account "" and spins for ever; the detail page takes a record of
transactions for an array and finds none (`accounts/[id]/page.tsx:57`); the overview crashes on
`amount.amount` when the first account has a transaction (`TransactionHistory.tsx:107`); the cards of the
overview lead to an address without a locale; the timer of a first support message takes the confirmation
of a second one away (`support/page.tsx:21`); the onboarding form starts with a birthday that it does not
send until it was changed (`OnboardCustomerContent.tsx:34`); of two languages in flight the one whose save
ends last wins, and a login or a request that was under way then pushes the locale that its form had
(`login/LoginContent.tsx:28`, `accounts/new/page.tsx:53`); a login that ends after a change of the locale leaves
its token in localStorage with no page signed in (`AuthContext.tsx:104`); a deposit that overlaps a toggle puts
the old favourite back, although the toggle was acknowledged (`internal/account/application/service.go:100`).

## 5. Proofs

`AccountServiceProofs` proves for all accounts, requests, adjustments, opening balances and every
`MaxInt` (assumptions: `AccountsAssumption`, `MaxIntAssumption`, `AdjustmentsAssumption`,
`OpeningAssumption`; nothing is assumed of fairness):

* `TypeCorrect`: `Spec => []TypeOK`, that is, every saved and logged amount is an int64.
* `NeverOverdrawn`, `ClosedStaysDated`, `SerialRows`: the three row invariants.
* `InactiveUntouched`: the action property.
* `NoInventedBalance`: every balance has an origin.
* `LedgerExplains`: the entries of an account that was not overwritten form a chain from its opening
  balance to its balance.

*Argument.* None of the row properties is inductive: a row is replaced by what a handler computed from
an older row. `IInv` therefore says of every copy in `work` what it says of the rows (`RowSound`: not
overdrawn, nothing reserved, dated if closed), and that the copy is the operation applied, in exact
arithmetic, to the row that was loaded (`WorkSound`). The one arithmetic fact is `AdjustedExact`: an
adjustment that is not refused does not wrap, since the available balance is not negative before and
after and equals the balance. With `Inductive` the rest follows; `NoInventedBalance` has an invariant of
its own over the rows, the copies and the entries. `LedgerExplains` extends the chain at its end: a handler
whose save does not overwrite loaded the balance that the chain leads to, and its entry is one that the account did
not have, as entries inserted or lost are of requests that are over (`LoggedAreDone`). An insert that comes
late, or fails, moves an entry from one set to another and leaves their union, and so the chain, as it was.

`OnboardingProofs` proves, for all forms, emails and staff, `TypeCorrect`, `OwnProfiles`,
`CompleteSuccess`, `KnownManagers` and the action property `StrandedStays`.

*Argument.* `ProfileByRegistrar` alone is not inductive: nothing in it keeps two calls with one email from
both reaching the insert. `Registering` adds that a call that makes a profile is of the registrar of its
email, is the only one for it, and that the email has no profile yet; it says so of calls that their page
has given up on as well. `Waiting` ties a page to the one call it listens to, from which `CompleteSuccess`
follows; `ManagersFound` says of the managers that are on their way what `ManagerIsKnown` says of the rows.
`StrandedStays` speaks of users with no call under way that could make the profile: such a call starts only
with a registration that succeeds, and that is refused for an email that is registered.

`TransferProofs` proves, for all calls, keys, orders and accounts, `TypeCorrect`, `AppliedOnce`,
`CompletedMoved`, `NothingCreated`, `SettledBalanced`, `BooksAgree` and `TransferImplemented`, the refinement of
`TransferSpec` (assumptions: `MaxIntAssumption`, `OrdersAssumption`, `OpeningAssumption`; for `BooksAgree` also that
`Keys` is finite, as the rows of a table are: of infinitely many there is no sum).

*Argument.* A message outlives the handler that sent it, so nothing about the effects follows from the
handlers alone. `HandlerOK` says that a handler between insert and return is the only one of its key and
that the row is pending, and what it knows of each step: an answer "ok" means applied, and any other means not
applied unless an effect went unheard. `MessageOK` says that a message is the one its sender's order asks for,
that no other handler ever owned its key, and that it was not applied yet; two messages of one key are therefore
of different steps. `KeyOK` is what remains true of a row when its handler is gone. The refinement needs
this: an adjustment of a completed row would be no step of the abstract transfer, and there is none, as the debit
and the credit have been applied and the rollback was never asked for. `BooksAgree` needs beside `IInv` that the
row of a key asks for what the handler that owns it, and the sender of a message that is still under way, were
asked for (`Owners`, `Senders`): the effect of a late message is then booked on the accounts of its row. A
save that meets the balance it was computed from changes it by what the books change by; one that meets another
balance makes the account `overwritten`, and a copy in `work` is of a message that is still under way (`Copies`). Its lemma
`SumChanges` says what a sum over the keys becomes when one summand changes.

`AccountRequestsProofs` proves `TypeCorrect`, `OpenedByApproval`, `SuccessIsKept` and `OneAccountUnlessContested`
(`RequestsAssumption`). *Argument.* `HandlerKnows` ties the stage of a handler to what it has saved;
`OneOpener` says not only of accounts but of handlers about to open one that an uncontested row names them.

`StaffPagesProofs` proves about the pages over the service (`StaffPagesAssumption`, `SessionAssumption`).
`PagesUseTheService` shows that every step of the pages is a step of `AccountRequests` or a stutter, so that
its invariant, taken from `P == INSTANCE AccountRequestsProofs`, holds here without being proved again.
`DecidedByStaff` then needs `StaffOnly` (every user and token of a tab is an employee's) and `SentOK` (so is
who sent a decision); `ContestWasCrossed` needs `AwaitsOne` (a widget awaits one decision at most) and three
facts about a decision that was not crossed: it is served as it was sent, alone under way, and nothing is
saved between its load and its save. `OneAccountUnlessCrossed` combines the two components. `TypeCorrect` counts:
each push that a timer holds took an onboarding that the staff had sent, so that the timers of a tab and its
onboardings under way are together at most the acts (`Counts`). `DecidedStaysAway` rests on the services: what is
resolved stays resolved, in whichever handler's copy (`HandlersResolve`), and a list is of what is pending when
it is answered; `WidgetsKnow` says it of the lists in flight as well as of those shown.

`PreferencesProofs` proves `TypeCorrect`, `ThemeShown`, `AddressFollows` and `QuietConsistent`
(`PreferencesAssumption`, `SessionAssumption`; for the last that there is a tab at all). *Argument.* Types need
that a call that is sent has a user; the theme follows from the step alone. The address needs `Follows`: what the
saves in flight are going to push is `due`, and the address has what is due when none is left; a push by anything
else makes that locale due, or, with saves in flight, what they push.
`QuietConsistent` speaks of the end; `Settled` says it of the way there: unless calls are muddled, each fetch and
save in flight agrees with what it will meet (a save carries what is kept, an answer what is saved, both for the
user that is signed in), nothing but requests is in flight beside a save, so that what a login has read is
still what is saved when it writes it back (`Undisturbed`), and as long as localStorage and the service differ
something that makes them agree is still to come (`Current`): a provider that has not started, a fetch, or a save
that was not served. A fetch or save on its own makes `Settled` true from nothing, which is how the guarantee
comes back. `LastShown` ties the last provider to what it wrote. It can say nothing where the writer was a provider
that a change of the locale had replaced: its answer is kept in localStorage and shown on no page, and the
providers that are there may have read something else before.

`CustomerPagesProofs` proves `OwnAccounts`, `TypeCorrect` and `StarsAreFavourites` (`CustomerPagesAssumption`,
`SessionAssumption`), for any number of users, accounts, calls and actions. *Argument.* What the page shows now
depends on what is still to come in: `ShowsOwn` says of every list in flight, and not only of the one shown, that it
is the user's; `ListsAreOwned` that an answer has accounts of the one it was asked for; `FreshIsEmpty` that a page
whose provider has not read localStorage yet shows nothing and awaits neither a list nor a sign-in, so that a user
who appears then finds nothing of a predecessor. Accounts change their owner only when they are opened, so a list
stays right. The stars are an argument of parity. The page toggles a star when it is clicked and again when the call
fails, the service when it writes: `StarsAwait` says that they agree on an account exactly if the number of toggles
that only the page has made (`Waiting`) is even. It is inductive for an account that nothing disturbed: a write
of an awaited toggle turns the favourite over and any other write leaves it (else the account is disturbed), the
page waits for no toggle while it loads (`AwaitedHere`), and it fetches its list once (`ListsAgree`). Overlapping
clicks, failures, late answers, toggles saved after their page gave up and saves of old copies in any number are
covered. `TypeCorrect` counts timers and requests under way as in `StaffPages`.

`AuthServiceProofs` proves `TypeCorrect`, `DistinctUsers`, `AppointedEmployees`, `SerialUsers` and `SessionForToken`.
*Argument.* As in the account service, a row is replaced by a copy of an older one: `CopyOK` says that the copy
has the email, the name and the role of the row (nothing changes them once it is inserted) and differs from
what was loaded in one column; `AskedByEmployee` carries the appointment from the start of a registration to
its insert; `SessionsOwned` says that a session has one login that may still answer with its token.

Every invariant and action property of the passing runs is stated by a theorem, and so is the refinement. Only
model-checked is liveness (`PagesSettle` of both frontends), which is out of the prover's reach, as is the
`ENABLED` in its fairness. What the proofs say of sums and of the sizes of sets they say by induction in first-order
form: over a set of numbers that has 0 and with a number the next one (`NatIsLeast` of `TransferProofs`), and with the
library's facts about cardinalities.

## 6. Not modelled, and the plan

Not modelled, and why: reads and listings of the services (they change nothing; the pages meet their results);
generated code, telemetry and connections (I/O); tables that no code uses (migrations 005-007) and the functions
and triggers of the others, which are not deployed; the accounting stub, which no command starts; the gRPC stubs
of the auth service, which return constants; UpdateCustomer and UpdateKycStatus, which no transport reaches.
Account numbers, currencies and types are left out of the account rows: no property tells them apart, and the
code never compares them. Of the frontends: fixed text and mock figures (about, contact, loans, the employee's
desk pages), wording and layout, the first name in the sidebar, and the employee's language links
(the header of the onboarding page, and the sidebar, whose address depends on how next-intl prefixes it): they
mount the page and the provider again as a reload does, but calls and timers go on, and the onboarding's push
leads to the locale in which the form was sent (`OnboardCustomerContent.tsx:79`).

Next, in this order:

1. Proofs: that `AuthService` and `Onboarding` agree on what a registration is, as `StaffPages` and
   `AccountRequests` do on a decision, so that the theorems about users hold of onboarding without a proof of their own.
2. `FundReservations`: reserving and expiring as 003 SQL describes them, if they are ever deployed.
