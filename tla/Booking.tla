------------------------------ MODULE Booking ------------------------------
(***************************************************************************)
(* The transactions that book transfers, statement by statement, beside    *)
(* the others that write accounts and journals.  Each serves one request   *)
(* to accept a journal; several may accept the same.  A row that one has   *)
(* written stays locked until it ends; who needs the row waits, and sees   *)
(* the row as it was committed.  The rows of other transfers, limits and   *)
(* the requests that lead here are in Ledger and Transfers.                *)
(***************************************************************************)
EXTENDS Integers, FiniteSetsExt, Functions

CONSTANTS Transactions,
          Accounts,
          Journal,    \* that each accepts, and what its request has read of it:
          From, To,   \* its accounts
          Amount,
          Together,   \* sets of those that write in one behaviour (bound)
          Disputed,   \* journals that are cancelled (bound)
          Closing     \* accounts that are deleted (bound)

Journals == {Journal[x] : x \in Transactions}

\* The parties and the amount of a journal never change.
ASSUME BookingAssumption ==
    /\ From \in [Transactions -> Accounts] /\ To \in [Transactions -> Accounts]
    /\ DOMAIN Journal = Transactions
    /\ \A x, y \in Transactions : Journal[x] = Journal[y] =>
          From[x] = From[y] /\ To[x] = To[y] /\ Amount[x] = Amount[y]
    /\ \A x \in Transactions : From[x] # To[x] /\ Amount[x] \in Nat \ {0}
    /\ Disputed \subseteq Journals /\ Closing \subseteq Accounts

VARIABLES account,  \* accounts table, as committed
          status,   \* of the rows of the journals table, as committed
          posting,  \* rows of the postings table, with those not yet committed
          older,    \* pairs of them, by their dates: a unit of time holds several
          done,     \* transactions that are committed
          pc,       \* the next statement of each transaction
          written   \* the balances it has written: the rows it has locked

postings == <<posting, older>>
bookingVars == <<account, status, postings, done, pc, written>>

Statements == {"createDebit", "createCredit", "updatePayer", "updatePayee", "updateJournal", "commit"}

\* Balances by account: of none, and of one more.
NoRows == [a \in {} |-> 0]
With(rows, a, balance) == [b \in DOMAIN rows \cup {a} |-> IF b = a THEN balance ELSE rows[b]]

BookingInit == /\ account = [a \in Accounts |-> [live |-> TRUE, balance |-> 0]]
               /\ status = [j \in Journals |-> "initiated"]
               /\ posting = {} /\ older = {}
               /\ done = {}
               /\ pc = [x \in Transactions |-> "idle"]
               /\ written = [x \in Transactions |-> NoRows]

-----------------------------------------------------------------------------
Rows(x) == {p \in posting : p.of = x}
Goto(x, step) == pc' = [pc EXCEPT ![x] = step]

\* Those that write, or have written.
Writers == {x \in Transactions : pc[x] # "idle"} \cup {p.of : p \in posting}

\* Those that have locked the row.
Holders(a) == {x \in Transactions : a \in DOMAIN written[x]}

\* Those that have locked the row of a journal: its update is their last statement.
Completing(j) == {x \in Transactions : pc[x] = "commit" /\ Journal[x] = j}

\* Those that have locked the row that the transaction needs next.
WaitsFor(x) == CASE pc[x] = "updatePayer" -> Holders(From[x]) \ {x}
                 [] pc[x] = "updatePayee" -> Holders(To[x]) \ {x}
                 [] pc[x] = "updateJournal" -> Completing(Journal[x])
                 [] OTHER -> {}

\* Some cycle of transactions that wait for each other.
Deadlocked == {C \in SUBSET Transactions : \A x \in C : /\ WaitsFor(x) \cap C # {}
                                                     /\ \E y \in C : x \in WaitsFor(y)}

-----------------------------------------------------------------------------
(* journal.Accept.                                                         *)

\* The status was looked at when the request came in: it may be any by now, and
\* others may have begun to accept the same journal.
Begin(x) == /\ pc[x] = "idle" /\ x \notin done /\ Writers \cup {x} \in Together
            /\ Goto(x, "createDebit")
            /\ UNCHANGED <<account, status, postings, done, written>>

CreatePosting(x, amount, at) ==
    /\ LET row == [of |-> x, amount |-> amount, at |-> at]
       IN  /\ posting' = posting \cup {row}
           /\ older' = older \cup (posting \X {row})
    /\ UNCHANGED <<account, status, done, written>>

CreateDebit(x, at) == /\ pc[x] = "createDebit"
                      /\ CreatePosting(x, -Amount[x], at)
                      /\ Goto(x, "createCredit")

CreateCredit(x, at) == /\ pc[x] = "createCredit"
                       /\ CreatePosting(x, Amount[x], at)
                       /\ Goto(x, "updatePayer")

\* Mutant: the balance is read before, and nobody waits to write it.
UpdateBalanceRead(x, a, amount) ==
    /\ written' = [written EXCEPT ![x] = IF account[a].live
                                         THEN With(@, a, account[a].balance + amount) ELSE @]
    /\ UNCHANGED <<account, status, postings, done>>

\* balance - ? is computed when the row is locked; a deleted account has no row.
UpdateBalance(x, a, amount) ==
    /\ Holders(a) = {}
    /\ written' = [written EXCEPT ![x] = IF account[a].live
                                         THEN With(@, a, account[a].balance + amount) ELSE @]
    /\ UNCHANGED <<account, status, postings, done>>

UpdatePayer(x) == /\ pc[x] = "updatePayer"
                  /\ UpdateBalance(x, From[x], -Amount[x])
                  /\ Goto(x, "updatePayee")

UpdatePayee(x) == /\ pc[x] = "updatePayee"
                  /\ UpdateBalance(x, To[x], Amount[x])
                  /\ Goto(x, "updateJournal")

\* Whatever the status; from here on the row of the journal is locked, too.
UpdateJournal(x) == /\ pc[x] = "updateJournal" /\ Completing(Journal[x]) = {}
                    /\ Goto(x, "commit")
                    /\ UNCHANGED <<account, status, postings, done, written>>

Commit(x) ==
    /\ pc[x] = "commit"
    /\ account' = [a \in Accounts |-> IF a \in DOMAIN written[x]
                                      THEN [account[a] EXCEPT !.balance = written[x][a]] ELSE account[a]]
    /\ status' = [status EXCEPT ![Journal[x]] = "completed"]
    /\ done' = done \cup {x}
    /\ written' = [written EXCEPT ![x] = NoRows]
    /\ Goto(x, "idle")
    /\ UNCHANGED postings

\* Mutant: the error is returned, the transaction stays open.
RollbackForgotten(x) ==
    /\ Goto(x, "idle")
    /\ UNCHANGED <<account, status, postings, done, written>>

Rollback(x) ==
    /\ posting' = posting \ Rows(x)
    /\ older' = older \cap (posting' \X posting')
    /\ written' = [written EXCEPT ![x] = NoRows]
    /\ Goto(x, "idle")
    /\ UNCHANGED <<account, status, done>>

\* A statement that fails for whatever reason is answered with a rollback, and
\* PostgreSQL does the same when the program stops.
Fail(x) == pc[x] # "idle" /\ Rollback(x)

\* PostgreSQL lets a statement of one of them fail.
Detect == \E C \in Deadlocked : \E x \in C : Rollback(x)

-----------------------------------------------------------------------------
(* The others that write these rows.                                       *)

\* journal.Cancel; its check of the status may be older than an acceptance.
Cancel(j) == /\ Completing(j) = {}
             /\ status' = [status EXCEPT ![j] = "cancelled"]
             /\ UNCHANGED <<account, postings, done, pc, written>>

\* account.Delete.
Close(a) == /\ Holders(a) = {}
            /\ account' = [account EXCEPT ![a].live = FALSE]
            /\ UNCHANGED <<status, postings, done, pc, written>>

-----------------------------------------------------------------------------
\* The next statement of a transaction; postings are dated by the clock.
Proceed(x, at) == \/ CreateDebit(x, at) \/ CreateCredit(x, at)
                  \/ UpdatePayer(x) \/ UpdatePayee(x) \/ UpdateJournal(x) \/ Commit(x)

Book(at) == \/ \E x \in Transactions : Begin(x) \/ Proceed(x, at) \/ Fail(x)
            \/ \E j \in Disputed : Cancel(j)
            \/ Detect
            \/ \E a \in Closing : Close(a)

-----------------------------------------------------------------------------
\* The tables as a reader sees them.
NoAccount == CHOOSE a : a \notin Accounts
NoLimits == [neg |-> 0, pos |-> 0]

\* Some request that has read the row.
Reader(j) == CHOOSE x \in Transactions : Journal[x] = j

Tables == INSTANCE Ledger WITH
    NoAccount <- NoAccount, LimitRows <- {NoLimits}, DefaultLimit <- NoLimits,
    limit <- [a \in Accounts |-> NoLimits],
    journal <- [j \in Journals |->
                  [status |-> status[j], initiator |-> From[Reader(j)],
                   from |-> From[Reader(j)], to |-> To[Reader(j)], amount |-> Amount[Reader(j)]]],
    posted <- [j \in Journals |-> Cardinality({x \in done : Journal[x] = j})]

\* Transactions that interleave statement by statement, wait for each other, fail
\* and are repeated change what readers see as the whole operations of Ledger do,
\* or not at all: no update of a balance is lost, and none is seen halfway.  A
\* second one that accepts the same journal, or one whose journal was cancelled
\* meanwhile, is no exception: it books the transfer all the same, and as a whole.
LedgerAtomic ==
    [][ \/ \E x \in Transactions : Tables!JournalAccept(Journal[x], From[x], To[x], Amount[x])
        \/ \E j \in Journals : Tables!JournalCancel(j)
        \/ \E a \in Accounts : Tables!AccountDelete(a) ]_<<account, status, done>>
=============================================================================
