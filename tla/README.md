# A TLA+ model of the MCCS alpha API

MCCS is a mutual credit clearing system: entities (businesses) trade with each
other in a currency that has no notes, every entity has an account, and the
balances of all accounts add up to zero. The API is one Go process in front of
four stores: PostgreSQL (accounts, limits, journals, postings), MongoDB
(entities, users, tags, categories), Elasticsearch (a search index that mirrors
parts of both) and Redis (counters). There is no transaction across stores and
no lock in the process: every HTTP request is a goroutine that reads, checks and
writes store after store. What can go wrong is therefore mostly a matter of
which store call of which request comes first, and of which call failed.

## 1. Inventory

| Component | State it keeps | Operations | Depends on | What makes it correct |
|---|---|---|---|---|
| Ledger (`repository/pg`) | accounts with a balance, limits, journals with a status, postings | propose, accept, cancel, create, limit update, account deletion | PostgreSQL's row locks | balances are the sums of postings, status and postings agree; a transaction is seen whole or not at all, and ends |
| Transfer requests (`controller/transfer.go`, `logic/transfer.go`) | none; what a handler read is in local variables | propose, accept, reject, cancel, admin transfer | ledger, entities, index | decided once, moved once, by consent, within limits |
| Entities (`logic/entity.go`, `repository/mongo/entity.go`) | status, members, tags, favourites, deletion mark | create, update, delete, associate | ledger (limits, balance), index, users | a deleted entity holds no money; members and tags agree with the other collections |
| Search index (`repository/es`) | copies of statuses, balances, tags | create, update, delete, update by query | fed by the requests | never ahead of its source, equal to it at rest |
| Throttling (`repository/redis`, `middleware/rate_limiting.go`) | counters with an expiry | get, increment, reset | Redis | a limit holds, a lock ends |
| Lost passwords (`logic/lostpassword.go`) | tokens, used or not | request, reset | users | a token works once and not after its time |
| Users and signup (`controller/user.go`, `logic/user.go`) | users, their entities, their last two logins | signup, login, update, delete | entities, index, log | one user per email, both membership lists agree, a login reports the one before it, the index shows nothing false |
| Tags and categories (`logic/tag.go`, `logic/category.go`) | names with times, copies inside entities | create, rename, delete, propagate | entities, index | a name in an entity exists in the catalogue |
| Daily email (`logic/dailyemail`) | last notification date, worker pool | run, work, shut down | entities, tags | no match is missed or told again by a later run, a run ends |
| Balance check (`logic/balancecheck`) | none | run | postings | reports an imbalance if and only if there is one |
| User action log (`logic/user_action.go`) | log entries, in a collection and an index | append, in a goroutine after the response | users, admins | no change is lost, no entry is invented or blames the wrong person |
| Index restore (`cmd/es-restore`) | none; what a cursor has read | copy, in a process of its own | all collections and indices | the index tells nothing its sources do not |
| Helpers (`util`) | none | list difference, tag normalisation, page count, amount check | – | equal to a reference definition |

Stateless parts (routing, token authentication, configuration, mail templates)
are listed in `PROJECT.json` and not modelled.

Hard behaviours: requests interleave between any two store calls; a check is
several calls older than the write it guards; multi-store writes stop half way
when a call fails and nothing undoes them; clients send again what failed;
goroutines started by a handler run after its response, in any order; counters
are read, incremented and expired by separate commands. `PROJECT.json` lists
each of these at its line under `hazards`.

## 2. Plan

Done, in the order in which they matter:

1. `Ledger`, `Transfers`, `Settlement`: the money. Proofs in
   `TransfersProofs`.
2. `Throttle`, `ThrottleProofs`: the Redis counters, with time.
3. `PasswordReset`, `PasswordResetProofs`: tokens and their asynchronous marking.
4. `Membership`, `MembershipProofs`: users, entities, the two lists, signup.
5. `Tags`, `TagsProofs` and `Categories`, `CategoriesProofs`: catalogues, copies and
   their spread.
6. `DailyEmail`, `BalanceCheck` and `JobsProofs`: the scheduled jobs.
7. `ActionLog`, `ActionLogProofs`: logins, details of users, the log of what
   users and admins do, and the part of the restore program that touches them.
8. `Booking`: the transaction of accept statement by statement, with row locks
   and deadlocks, shown to implement the atomic operations of `Ledger`, and
   composed with `BalanceCheck`, which reads what it writes. Its proofs are in
   `JobsProofs`, which extends the two jobs.

Left:

9. `Helpers`: page count, tag normalisation and the decimal check as functions,
   against reference definitions.
10. The rest of the restore program (journals, tags, entities), favourites,
    password changes; limits compared in floating-point numbers.

Abstract specifications: `Settlement` for a transfer, implemented by `Transfers`;
the atomic operations of `Ledger`, implemented by the transactions of `Booking`.

## 3. Modules and how they correspond to the code

### `Ledger`: the PostgreSQL side

| TLA+ | Code |
|---|---|
| `account`, `limit` | tables `accounts`, `balance_limits`; `live` is `deleted_at IS NULL` |
| `journal`, `posted` | tables `journals`, `postings`; `posted[j]` counts the pairs of postings of `j` |
| `JournalPropose`, `JournalCancel`, `JournalAccept`, `JournalCreate` | the functions of those names in `repository/pg/journal.go` |
| `LimitAdminUpdate`, `AccountDelete` | `repository/pg/balance_limit.go`, `repository/pg/account.go` |
| `IsExceedLimit`, `IsZeroBalance` | `logic/balance_limit.go`, `logic/account.go` |

An operation is a statement or a transaction and happens in one step; `Booking`
shows that this is right for the longest of them. Amounts are whole cents: the
columns `amount` and `balance` are exact numerics and every amount has at most two
decimals. The code compares balances with limits as floating-point numbers, so it
may refuse a transfer that would exactly reach a limit; that rounding is left out
here (and modelled in `BalanceCheck`, where it decides something). A limit row lives and dies with its account, so it has no
mark of its own. `Credit` leaves a deleted account alone: gorm adds
`deleted_at IS NULL` to the update, and no matching row is no error.

### `Transfers`: the requests

A worker is the goroutine of one request, `pc[w]` the next store call it makes
and `req[w]` what its handler has read so far. One action is one store call, so
the requests interleave exactly where the program lets them.

| Request | Steps |
|---|---|
| propose, admin transfer | `SubmitProposal` / `SubmitAdminTransfer`, `ReadBalances`, `CheckLimits`, `CommitProposal` / `CommitAdminTransfer`, `IndexJournal`, and for an admin transfer `MirrorRead`, `MirrorWrite` for each side |
| accept | `SubmitDecision`, `ReadBalances`, `CheckLimits`, `CommitAccept`, `IndexJournal`, `MirrorRead`, `MirrorWrite` for each side |
| reject, cancel | `SubmitDecision`, `ReadBalances`, `CheckLimits`, `CommitCancel`, `ReadBack`, `IndexJournal` |
| delete an entity | `SubmitDelete`, `Unindex`, `Unlist`, `CloseAccount` |
| update an entity | `SubmitEntityUpdate`, `SetLimits`, `SetStatus` |

`CheckLimits` sends a decision that finds a breach to `CommitCancel` as
`cancelBySystem`, also when the decision was to cancel: `checkBalances` does not
look at the kind of request. `Fail` is any error a store call can return and any
stop of the process: the handler returns, what was written stays. It covers a
commit whose acknowledgement is lost, because it can strike just after the
commit.

Simplifications, and why nothing is lost by them. Reading the journal and then
the two entities is one step: an entity that is found is never found again after
its deletion and the later reads only restrict. The two account reads of a
balance check are one step, and so are the two limit reads. The status and the
limits an admin sets are chosen when they are written, not when they are sent.
Trading statuses other than `tradingAccepted` are all refused alike and are one
value. `Members` stands for the two lists that link users and entities; it is
constant here. Searches change nothing. The goroutines that send
mail and log user actions touch no state of this module.

### `Settlement`: what a transfer promises

The states of one transfer and the number of times its amount has moved: it is
initiated or created, then completed or cancelled, and never again. `Transfers`
implements it with `state` read off the status column and `moved` off the
postings (`PromiseKept`), as long as one request runs at a time.

### `Booking`: the transaction of a transfer, and `BalanceCheck`, which reads it

| TLA+ | Code |
|---|---|
| `Journal[x]`, `From[x]`, `To[x]`, `Amount[x]` | what a request that accepts has read, before its transaction: several may have read the same journal |
| `account`, `status` | the rows of `accounts` and `journals`, as committed |
| `posting`, `older`, `done` | the rows of `postings`, which of two has the earlier date, and whose are committed |
| `pc`, `written` | the next statement of each transaction, and the balances it has written, whose rows it has locked |
| `Begin`, `CreateDebit`, `CreateCredit`, `UpdatePayer`, `UpdatePayee`, `UpdateJournal`, `Commit` | the statements of `journal.Accept`, in order |
| `Fail`, `Rollback` | any of them fails, or the process stops |
| `Cancel`, `Close` | the other writers of these rows: `journal.Cancel`, `account.Delete` |
| `Holders`, `WaitsFor`, `Deadlocked`, `Detect` | PostgreSQL at its default isolation level: an UPDATE waits for whoever has written the row, then sees what that committed; one of those that wait in a circle is rolled back |
| `StartCheck`, `FindInRange`, `Sum`, `Finish` (`BalanceCheck`) | the check: the time is taken, the committed postings of the last hours are read and added up, latest first |
| `CheckFailed` | the postings cannot be read |

A transaction begins whatever the status of its journal is by then, as
`journal.Accept` does not look at it: a journal may be accepted twice, or after it
was cancelled, and `posted` of `Ledger` counts how often it was booked.
`LedgerAtomic` maps the tables, as a reader sees them, to the variables of
`Ledger` and says that each step either changes nothing there or is one of its
operations. `journal.Create` runs the same statements after inserting the row of
the journal, which nobody else knows yet. `Close` is one step: its transaction
waits for one row of `accounts` and nobody else writes the limit that goes with it
while that row is locked. `Disputed` and `Closing` bound which journals are
cancelled and which accounts are deleted, `Together` which transactions write in one
behaviour.

Amounts are integers and each sum of two is rounded (`Round`) to a number with
one of `Significands` significands, as `float64` has 2^53; with amounts of five and
eight units and eight significands, which are three digits, their sum is rounded,
and a slip of one is lost beside the eight (`Fits`). The amounts themselves are
numbers that need no rounding (`AmountsRepresented`): they were read from requests
as `float64`. A row is dated when it is written, and a unit of time holds as many
steps as come: of two rows dated in it `older` says which date is the earlier.
`StartCheck` ends the unit, because nothing is posted at the very instant that the
check takes for its end.

### `Throttle`: the Redis counters

| TLA+ | Code |
|---|---|
| `counter[k]` | the value of the key `ratelimiting:<ip>` or `loginattempts:<email>` and its time to live |
| `LimitRequests`, `SeeRequests`, `CountRequest` | the middleware: GET and compare, then GET, then SET or INCR |
| `FindUser` | the look-up of the user, before the limit is looked at |
| `Login`, `Reset` | GET and compare, the password, DEL |
| `SeeAttempts`, `CountFailure` | GET, then SET or INCR, in the goroutine a failed login starts |
| `Tick` | time; keys expire between any two commands |

A worker is the goroutine of a request with the goroutine it leaves behind. The
value of a counter is followed until it exceeds its limit, because nothing else
is asked of it. `passed`, `unfound` and `failed` are history: what has passed a
limit, the look-ups of users that failed, and whether a Redis command has. A
look-up fails at any time, because nobody has the email or the store does not
answer; logins of users and of admins take the same steps. At most one Redis
command fails in a run of the program.

### `PasswordReset`: tokens

| TLA+ | Code |
|---|---|
| `lost[e]` | the documents of an email in `lostPassword`, the first being the one a query finds |
| `SubmitRequest`, `LookUp`, `Upsert`, `Insert` | `requestPasswordReset` of users and admins: find the user, find a token, replace or insert one, mail it |
| `SubmitReset`, `ResetPassword`, `SetTokenUsed` | `passwordReset`: check the token, set the password, mark the token in a goroutine |
| `Age` | `reset_password_timeout` passes |

An upsert without a document to replace is two steps, since nothing keeps two of
them from inserting. A user is found in any spelling of its email and a token
only in the spelling it was stored under, hence the parameter `exact`.

### `Membership`: users, entities and their lists

| TLA+ | Code |
|---|---|
| `account`, `user`, `entity` | the `accounts` table and the two collections; `life` is the deletion mark |
| `userDoc`, `entityDoc` | the documents of the two indices |
| `OpenAccount` to `LinkEntity` | the store calls of `signup`, in order |
| `ReindexUser` to `DropUser` | `PATCH /admin/users`; `BlankEmail` is `PATCH /user` |
| `ReindexEntity` to `DropEntity` | `PATCH /admin/entities` |
| `UnindexUser`, `DeleteUser`; `UnindexEntity` to `CloseAccount` | the deletions |

The links of a user are removed on the other side from the document as it is
*after* the update that emptied it, so a deletion of a user clears no list of
an entity: `DeleteUser` changes the user only. An `UpdateMany` over several
documents is one step, as is the bulk write of a document. `orderly` remembers
whether requests came one at a time and no call failed.

### `Tags` and `Categories`: catalogues and copies

| TLA+ | Code |
|---|---|
| `tag`, `tagDoc` | collection and index; `dates` are the kinds whose "added at" is set |
| `entity`, `entityDoc` (`Tags`) | how often an entity lists a name; the names its document lists |
| `ReindexLists`, `WriteLists` | an update of an entity by its user or an admin |
| `Reread`, `Announce`, `SeekDoc`, `NewDoc`, `DateDoc` | `UpdateOfferAndWants`: the goroutine that announces names |
| `CreateTag`, `IndexTag`; `FindTag` to `RenameWants`; `DeleteDoc` to `PullTag` | the requests of admins and the goroutines they start |
| `category`; `entity`, `entityDoc` (`Categories`) | collection; how often an entity is listed under a name, and in its document |
| `WriteList`, `CreateAll` | an admin assigns categories |
| `Find` to `PullOld`; `Delete` to `Pull`; `SubmitRestore`, `RestoreDoc` | rename, deletion, and the restore program for one entity |

Names are opaque; what matters of `FormatTags` and `InputToTag` is which names
they return (`Formatted`, `Format`). Signups store names as typed. The lists of
the tags index are sets because its script removes every copy; those of the
collections count copies because `$push` and `offers.$.name` do not. `twice`
remembers that an entity has listed a name twice, by whichever step wrote its
lists (`SetEntities`): from then on a rename changes one of the copies. `RenameNested`
and `PullNested` change nothing: they query fields that are mapped as nested by a
plain query, which matches no document.

### `ActionLog`: logins, details of users, and the log

| TLA+ | Code |
|---|---|
| `user`, `userDoc` | `users` collection and index; `details` are the fields that updates change, `shown` those the index has |
| `info` | `currentLoginIP` and `lastLoginIP` of users and admins |
| `entry`, `entryDoc` | `userActions` collection and index; `new` is what an entry says was modified |
| `SubmitLogin`, `RecordLogin` | `POST /login`, `POST /admin/login`: `UpdateLoginInfo` reads, then writes, and the login is logged |
| `SubmitLoginFail`, `FindUser` | a wrong password: the user is looked up and the failure logged about it |
| `SubmitUpdate`, `IndexUser`, `WriteUser` | `PATCH /user`, `PATCH /admin/users`: the index, the collection, and the difference of what was read before the update and what it returned (`CheckFieldDiff`) |
| `SubmitDelete`, `UnindexUser`, `DeleteUser` | `DELETE /admin/users` |
| `SubmitOther`, `FindActor` | what handlers of transfers, tags, categories and entities log: the person is looked up again |
| `InsertEntry`, `IndexEntry` | `userAction.create`, in the goroutine after the response |
| `Fail`, `InsertFails` | a call fails or the process stops; a failed insert is reported and its nil result dereferenced in a goroutine that nothing recovers, so all requests end |
| `RestoreUsers` to `RestoreEnd` | `cmd/es-restore`, a process of its own: users are read, then written one by one; then log entries, each under the id of the person it is about |

A worker is a request goroutine followed by the goroutine that logs it. Of the
details three stand for all: one that only admins change and that is indexed, one
that is indexed, one that is not. Wording, addresses and times of entries are left
out, `IPs` are opaque. History: `torn` are the users whose update or deletion
stopped halfway or met another (a restore that meets none of them mends the
document); `lost` those of whom an entry was not written; `met` in a request, an
entry or a login says that two requests met at the person; `asked` what a request
asked for. Membership of users in entities is in `Membership`.

### `DailyEmail`: the scheduled email

| TLA+ | Code |
|---|---|
| `queue`, `open`, `slot` | what a run has not handed out, the runs under way, the goroutines of their pools (`work.go`) |
| `newer[n]`, `since[r][n]` | the tags dated at or after the stamp of `n`, and after the stamp that run `r` read |
| `Start`, `Hand`, `Shutdown` | `dailyemail.Run`, `Pool.Run`, `Pool.Shutdown` |
| `Search`, `Searched`, `Mail`, `Stamp` | the job of an entity |
| `SearchFailed` | a search that fails ends the job before it mails or stamps |
| `Mail` | has two outcomes: sent, or not sent, which is logged only; the job stamps the entity either way |
| `Announce`, `Withdraw` | what requests do meanwhile to tags |

Dates are kept by what they are compared with. What an entity lists is constant
(`Searches`). The entities a run serves are any: they subscribe, unsubscribe and
are accepted when they like. The searches have no filter by entity and a tag has
one date, so it does not matter who announces. History: `owed` are matches
announced while the entity had no job and not mailed since; `lost` those of them
that were stamped over, because their mail was not sent or a search left them out;
`told` what was mailed and then stamped, and `known[r]` what was told before run `r`.

## 4. Runs

| Run | Bounds | Distinct states | Shows |
|---|---|---|---|
| `TransfersSerial` | 1 worker, 2 journals, all requests, failures | 907 000 | `PromiseKept`, `WithinLimits`, `DeletedAtZero`, `MirrorsRepaired` |
| `TransfersConcurrent` | 2 workers, 1 journal, all requests, failures | 463 000 | `BalanceIsPostingTotal`, `StatusMatchesPostings`, `IndexNeverAhead`, `CounterpartyConsents` |
| `ThrottleConcurrent` | 2 workers, 1 client, 1 email, limits 1 and 3, one failing command | 496 000 | `ExcessBounded`, `RefusedForCause`, `DatedLocksEnd` |
| `ResetConcurrent` | 2 workers, 2 emails, 3 tokens, failures | 392 000 | `SpentOnlyWhenRedeemed`, `SentTokensHonoured`, `RedeemedOnce` |
| `MembershipConcurrent` | 2 workers, 1 user, 2 entities, failures | 1 980 000 | `ListsAgree`, `DeletedUserActsForNone`, `ListedEntitiesLive` |
| `TagsFailing` | 1 worker, 2 tags, 3 names, failures | 3 939 000 | `NamesUnique`, `TagsIndexed`, `ListedNamesAreTags`, `OffersAnnounced`, `DatesBacked` |
| `LogFailing` | 2 workers, 1 user, 1 admin, 2 entries, failures, a restore | 1 305 000 | `LogBacked`, `Attributed`, `ShownTrue`, `LastLoginTrue`, `ChangesLogged` |
| `CategoriesFailing` | 1 worker, 2 entities, 3 names, one of which formatting changes, failures | 4 806 000 | `NamesUnique`, `ListedExist`, `RenamesKeepListed` |
| `DailyFailing` | 2 runs that overlap, a goroutine each, 2 entities, 2 tags, searches that return 1, failures | 235 000 | `NothingMissed`, `MailsTellNews`, `RunsEnd` |
| `BalanceRounded` | 2 transfers in opposite directions, 2 accepts of one of them, a cancellation, 1 slip, 1 check | 77 000 | `CheckTrue`, `LedgerAtomic`, `TransactionsEnd` |

The runs of `Throttle`, `Tags`, `ActionLog` and
`Categories` also check the type invariant of their module; all of these are
proved (section 5).

*Bounds.* Two workers are enough for every race the code has between a check and
a write; a third would repeat one of the two. In the transfer runs amounts of one
cent against limits of one and two let two transfers reach either limit, and the
second row of limits is stricter on one side and looser on the other. Two names
are a rename, a third one is typed otherwise than it is formatted: in `Categories`
it becomes one of the others. Two tokens of
one email and one of another let a request meet its own token and a foreign one.
`Copies = 1` in the tags run leaves out renames onto a name an entity lists
already; the theorems about tags hold for every `Copies`. Identifiers that may be drawn are bounded, and a request that finds none
waits for ever, which is harmless where only safety is checked. In `LogFailing` a
request begins only while an entry is left for it, and two entries are what two
requests or one after the other need; its one address tells a first login from a
later one and no more, while the theorem about logins holds for any addresses. In
`BalanceRounded` two transfers between
the same accounts are all it takes to wait in a circle, and two accepts of one
journal, which may also be cancelled, to book it twice; at most two of these write
in one behaviour (`Together`), or one beside a slip. The three units of
time are before, within and after the timespan of the check: a date is only ever
compared with its two ends. In `DailyFailing` a search returns one document where
the program gets ten, so that two matches reach the limit.

*Conditions.* Some properties hold only as long as requests come one at a time,
or until a call fails. They are stated with a history variable (`orderly`,
`failed`, `twice`, `torn`, `lost`, `met`) or checked with one worker; section 7 says what breaks them otherwise.

*Fairness.* The safety runs assume none. `ThrottleConcurrent` and `LockForever`
assume that goroutines are scheduled (`WF(Work)`) and that time passes
(`WF(Tick)`), not that clients send anything. `DailyFailing` assumes that
goroutines are scheduled, which includes that a free goroutine takes a job that
is handed out and that a run which waits for its pool goes on (`WF` of `Hand`,
`Job`, `Shutdown`), and not that the scheduler ever starts a run. It is an
assumption about the stores and the mailer that calls return, if only with an
error: the program passes `context.Background()` and sets no timeout, so a call that
hangs would keep its goroutine, and a run would not end.
`BalanceRounded` assumes that a transaction whose next statement can be executed
again and again gets to execute it (`SF(Proceed)`): goroutines are scheduled and
PostgreSQL hands a locked row to those that wait for it in turn; and that
PostgreSQL looks for deadlocks (`WF(Detect)`). It does not assume that anybody
begins a transaction.

*Deadlock.* `CHECK_DEADLOCK FALSE` is set where identifiers run out or time ends;
`Throttle` and `DailyEmail` go on for ever and are checked for deadlock.

*Symmetry.* Workers, journals, tokens and the like are interchangeable and are
symmetry sets in runs without liveness. `TagsFailing` has tag ids and formatted
names for symmetry, `CategoriesFailing` ids and entities, and `TagsFailing` a `VIEW` without `entityDoc`, which no action and no
property of that run but its type invariant reads.

Two runs refute a sentence of the repository:

| Run | Refuted | What happens |
|---|---|---|
| `AcceptTwice` | `CompletedOnce` | two accepts pass the status check, the amount moves twice |
| `LockForever` | `LocksEnd` | a counter expires between GET and INCR and is created without a time to live |

## 5. Proofs

All theorems hold for every value of the constants that meets the assumptions of
their module, and with failures anywhere.

*Transfers, any number of workers* (`TransfersProofs`). `TypeOK`,
`StatusMatchesPostings`, `IndexNeverAhead` and `CounterpartyConsents`. The
inductive invariant adds what the handlers carry from step to step: the journal a
decision holds was initiated once and its parties and its initiator never change;
the status a worker is about to index is backed by the ledger already; and the
permission that was checked for an accept still holds for the row, because who
may accept depends only on columns no operation rewrites. The ledger part
(`LedgerInv`) says that a journal with a status has its parties
and that statuses and postings agree; every ledger operation keeps it and never
changes the parties of a drawn journal (`JournalKept`).

*Balances* (`BalancesTrue`, any number of workers, accounts and amounts). Every
operation of the ledger that writes postings credits the two accounts by what it
posts, and of the sums over the journals (`PostingTotal`) just one summand changes.
That a sum over a finite set has its equation, depends on nothing but its summands
and may be taken apart at any element (`SumEquation`, `SumSame`, `SumWithout`) is
proved from the library's theorem of induction over finite sets, whose hypothesis is
a set and no operator. Only drawn journals have accounts and they are finitely many
(`BalancesInv`). A deleted account keeps its postings and has no balance to agree
with any more.

*Limits* (`LimitsRespected`, any number of workers). Two transfers can breach a limit
together, because limits are checked before the transaction that books. The theorem says
that nothing else can: as long as no transfer is `Overtaken`, no booking takes a
balance beyond the limits in force. A transfer is overtaken when a request is about to
book at an account, or to set its limits, whose balance another request has read in
order to book there. The invariant (`ReadInv`) says of each request between that reading and its booking that
the balances it read are those of the ledger, and after the check that they stay within
the limits with its amount.

*Transfers, one worker* (`TransfersProofs`, assumption `Serial`). `DeletedAtZero`,
`MirrorsRepaired` and the refinement `PromiseKept`. Here the invariant says of the
request in flight that what it has checked still holds (`StillChecked`): the
balances it read are the balances in the ledger, the transfer would stay within the limits, the account it is about to delete is at zero, and the journal it
decides is still initiated. `MirrorInv` says the same of the balances a settled
transfer copies to the index. Each of these is what a second worker destroys.

*Booking* (`JobsProofs`; `LocksHeld`, `AcceptAtomic`, for any accounts, transfers and amounts). The
invariant `BookingInv` says of each open transaction that it has locked just those
of its rows that are live, that no other has locked them, and that the balance it
has written is the committed one and its own amount: nobody can have changed
the row in between. A commit therefore adds the amount to both balances as they are
by then, which is what `JournalAccept` of `Ledger` does in one step, also the second
time that a journal is booked and when it was cancelled meanwhile; every other
step of a transaction changes nothing that is committed. An account that is closed
between the two updates has no row for the second one, in both.

*Throttling* (`TypeCorrect`, `ExcessIsBounded`, `NobodyRefusedWithoutCause`, for finitely
many concurrent requests, any clients, emails, limits and lifetimes). The invariant
counts, for each key, the requests that have yet to count (`Counting`) and those of
them that saw no key and will set it to one (`Late`). `ManyPassed` bounds what has
passed by the counter, by the former, and by one round of the limit for each of the
latter that is used up: one request creates the key, and each of the others can throw
the counter back to one once. `Caused` says that what was counted in this lifetime of
the key has passed in it or was a user that was not found, but for what was in flight when the key expired. The bound
`n * (L + n - 2) + 1` is attained, and is the limit itself for one request at a time.

*Password resets* (`TypeCorrect`, `Spent`, `Honours`, `Once`). A worker that is about to mark
a token has set a password with it, and the count of passwords set only grows.
While requests are orderly (`OrderlyInv`) they are alone, so what a request has
found still holds: the document it is about to overwrite holds a token that is used or too old,
and the token it is about to redeem is stored and has not been redeemed.

*Membership* (`TypeCorrect`, `DeletedUsers`, `ListedLive`, `AgreeAtRest`). A deleted user has no entities
because every step that writes its list requires it to be live, also the late
ones. The index lists live entities only because at most one request creates an
entity and indexes it, before which nobody can delete it, and because a deletion
clears the index before the collection and stops if there was nothing to clear.
The types need what each request holds when it comes to a step (`Fits`): a list of
entities where it writes a user, one of users where it writes an entity.
`AgreeAtRest`: while a request writes first the list of one side and then those of
the other, the links on which the two disagree are known to it (`Pending`), and
none is left when it ends; and nothing refers to a user or an entity that has
not been created yet (`Known`), else a signup would come to links it did not make.

*Names* (`NamesApart` of `TagsProofs` and of `CategoriesProofs`, any number of
workers). A creation or an announcement writes to the tag or category of its name if there is one,
in the one step of an upsert, so only a rename can give a name to a second one. The new name of a
rename is nobody's until it writes (`NewNames`) if its look-up did not fail
(`LookedUp`) and nobody else is about to give the same name (`Apart`); both are
needed, and say in which way two get one name. An upsert is taken as one step: the collections
have no unique index, and two upserts of a new name in the server at once may insert twice.

*Tags* (`Backing`, `IndexedTrue`). Whoever is about to write a date to the index has written it
to the collection, where dates are only ever added until the tag is deleted;
announcements that fail on the way leave the collection ahead, never the index.
`TypeCorrect`, `Backing` and `NamesApart` are proved for any number of workers; the run has one. The
others assume `Serial`. `CatalogueInv` says that collection and index tell the same of
every tag but the one the request is about to write, where they differ by that
write and nothing else, and that no tag has the name a create or a rename was let
in for. `TypeCorrect` needs what each request knows at each step (`Knows`): the tag it
renames had a name, the names it announces are formatted.

*What entities list* (`ListedAreTags`, `OffersTold`, with `Serial`). `ListingInv` follows a
name through the requests: whatever an accepted entity lists is a tag (`Told`), dated
as an offer where it is offered, or the request under way still has to announce,
rename or pull it (`Pending`); and what that request has read is still so
(`Remembers`): whether the entity was accepted, the name of the tag it renames, and
that the new name is told wherever the old one was. A rename changes the first copy
of a name only, so the lists promise nothing once one of them holds a name twice:
checked with `Copies = 2`, both properties fail without `twice`, and with it no
violation was met.

*Categories* (`TypeCorrect` for any number of workers;
`ListedHaveCategories`, `RenamesKeep` with `Serial`). The types need what a request
holds at each step (`HeldFits`); that no copy is counted below zero is because each
is taken out only of a list that holds it.
`ListedInv`: whatever an entity is listed under has a category, or the request under
way will still create it, replace it or pull it (`Awaits`), and what that request
looked up is still so (`CategoryRemembered`). What was assigned in a spelling that
formatting changes is excepted (`respelt`), as long as the entity is not assigned
anything else: section 7 says what happens to it. `PushedInv` is about
nothing but the step at which the new name has been pushed and the old one is still to be
pulled, and holds whatever fails.

*Action log* (`ActionLogProofs`): all six properties of the run, for any number of
requests, people and entries. `TypeInv` says what a worker holds at each step.
`LogTrue` follows from `LogInv`: entries are inserted once and never change, and a
worker that is about to index one holds what it inserted. `LastLoginKept`: a login
whose request met no other still holds, as the last one, what the collection has
as the current one (`LoginInv`), which needs that of two logins at one person both
know of each other, or one came after the other (`RivalsKnown`). `LogAttributed`:
as long as a request has met nobody, the details it read are those of the
collection, so the difference it logs is what it asked for (`HonestInv`).
`IndexTrue` is the longest: the document of a user that is not `torn` is right
except while one request is between its two writes, when it shows what that
request asked for (`ShownOK`), and what the restore program has read and calls
`fresh` is still right (`FreshOK`). `ChangesReachLog`: every value a detail has
taken is in the collection of the log or held by a worker that logs it, and then
in the index (`ToldInv`); a restore overwrites only documents named after people,
never the one the API has indexed.

*Daily email* (`JobsProofs`; `TypeCorrect`, `Complete`). What an entity is owed is newer than its stamp and
than the stamp of every run that has still to serve it, or is `lost`; a job has found all of
it, or knows that a search left it out (`untold`), or has the search that finds it before it, when it mails.
Runs may overlap, and searches may return as little as they like.
`NoNewsTwice`: what a stamped mail has told is older than the stamp
(`ToldIsOld`), what had been told before a run is older than the stamps that it read
(`KnownIsOld`), and so no job of the run finds it (`JobsFindNews`), however many runs overlap.

*Balance check* (`JobsProofs`; `MailsTrue`, for any transfers, amounts, slips, times
and number of significands). Two invariants beside `BookingInv`. `RowsInv` is about
the table: dates order the rows (`RowsOrdered`), and a transfer has none, a debit, or
a debit and a younger credit, depending on how far its transaction is, and both if it
is committed (`RowsComplete`). `ChecksInv` says what `CheckTrue` says, of what is
committed now (`Accounted`): it has to be said so to be inductive, because `CheckTrue`
also looks at rows of transactions that are still open, and these may be rolled back.
It is kept because what is committed only grows (`CommittedKept`) and nothing slips
into a timespan that has ended (`SlippedKept`).
When a check ends it is established by following the sum (`SumOutstanding`): rows are
added latest first, so at every point those added are the younger ones (`Latest`).
What they add up to is `Outstanding`: what has slipped, and the amount of a transfer
whose credit was added and whose debit was not; there is at most one, because
transfers do not alternate (`OneOpen`), and none at the end, because none is cut. None
of these sums is rounded (`OutstandingExact`): either nothing slipped and the sum is
zero or one amount, or it is small enough by `Fits`. The lemmas on sums, plain and
rounded, come from one about folds of a finite set (`FoldEquation`), the library's
own ones having operators for parameters.

Model-checked only: liveness (`DatedLocksEnd`, `RunsEnd`, `TransactionsEnd`), which
like ENABLED is out of reach of the proof system in use, and the two refutations.

## 6. Not modelled

The delay after which Elasticsearch shows a write to searches; the floating-point comparison of balances with
limits (`Ledger` compares exactly); the statements inside the transactions that
create accounts and limits, which write rows nobody else knows yet; the other parts
listed as left in section 2; and mail templates, logging, routing, token
verification and configuration, which keep no state that another component reads.
Searches change nothing and are left out.

## 7. Where the program and its promises part

Met while modelling, and the reason why some properties have conditions:

- Transfers: a cancel checked before an accept commits marks a settled transfer
  cancelled; two transfers within the limits breach them together; a transfer
  booked between the check and the deletion leaves money on a deleted account; two
  accepts may write the balances they read to the index in the opposite order; a
  pending transfer whose counterparty was deleted cannot be cancelled, although
  `src/openapi-user.yaml:1078` says its initiator can.
- Throttling: concurrent requests pass the limit together, by the number
  `ExcessBounded` states; a login whose user could not be looked up is counted as
  a failed attempt, so that a store that does not answer locks emails although no
  password was tried.
- Lost passwords: a token can be redeemed again before the goroutine of the first
  redemption has marked it; a request in another spelling replaces the token that
  was mailed.
- Membership: emails are looked up in lower case and stored as typed, and looked
  up and stored in two calls, so two users may have one email; `PATCH /user`
  blanks the email in the users index.
- Users and log: `PATCH /admin/users` blanks in the index whatever it was not asked
  to change; a deletion goes on when the index could not be cleared; of two logins
  at once one is forgotten; two updates of a user at once may each log what the
  other one changed, or log nothing; a log entry that cannot be inserted ends the
  process; the failed login of an admin is logged about the user who has the same
  email, if any; fields of the types `int`, `int32` and `float32` are never
  logged; the restore program gives log documents the id of the user, so that they
  overwrite each other and stand beside those the API wrote.
- Tags: an entity that becomes accepted announces its wants as offers; renames
  and deletions do not reach the entities index; a rename changes one copy of a
  name that is listed twice, and leaves two where the new name was listed; two
  concurrent renames give two tags one name. The bulk write of an entity's lists
  (`WriteLists`) is up to three updates in a row, which a reader may see in
  between; it is one step in the model.
- Categories: an entity is listed under the formatted name while the category is
  created as typed: a name that formatting changes leaves the entity under a name
  that no category has, which no rename and no deletion of the category reaches,
  although no call fails; the index learns no category until it is restored; of two
  equal renames at once the second removes the category from its entities.
- Daily email: `src/README-email.md:12` promises that "any new matches to that
  entity's offers and wants tags posted by other entities are sent". A mail that
  fails is logged only and the entity stamped all the same, so its matches are lost
  for good; a search returns ten tags at most and the stamp covers the rest; a tag
  announced between search and stamp is never mailed; no search leaves out what the
  entity announced itself. Overlapping runs mail the same match twice: the schedule
  of the example, `* * 1 * * *` (`src/README-email.md:29`), has a field for seconds
  and starts a run every second of an hour.
- Balance check: a timespan that begins or ends within a transfer, or transfers
  whose postings alternate, can make it mail for nothing; a discrepancy that is small enough beside the sums
  can be rounded away and is not mailed; one older than
  five hours is never found by a check that runs once a day.
