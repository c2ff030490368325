---------------------------- MODULE BalanceCheck ----------------------------
(***************************************************************************)
(* The scheduled check that the postings of the last hours add up to zero. *)
(* A transfer writes two postings, each with its own date, and both become *)
(* visible when its transaction commits.  Amounts are what the decimals    *)
(* become as floating-point numbers, in units of the smallest one.         *)
(***************************************************************************)
EXTENDS Booking

CONSTANTS Slips,      \* postings without counterpart: what the check is there to find
          Significands, \* how many a floating-point number has: 2^53
          Window,     \* the five hours
          Due,        \* when the scheduler starts the check
          Clock       \* the end of time (bound)

ASSUME BalanceCheckAssumption ==
    /\ Transactions \cap Slips = {}
    /\ \A x \in Slips : Amount[x] \in Nat \ {0}
    /\ Significands \in Nat \ {0, 1} /\ Window \in Nat /\ Clock \in Nat /\ Due \subseteq 0..Clock

VARIABLES now,
          running, \* the end of the timespan that is being checked
          checks,  \* history: the timespans that were checked, by their ends
          mails    \* history: those of them that were mailed to the admins

checkVars == <<running, checks, mails>>
balanceVars == <<bookingVars, now, checkVars>>

Never == -1

BalanceInit == /\ BookingInit
               /\ now = 0
               /\ running = Never
               /\ checks = {} /\ mails = {}

-----------------------------------------------------------------------------
\* The scheduler is punctual.
Pass == /\ now < Clock /\ now \notin Due
        /\ now' = now + 1
        /\ UNCHANGED <<bookingVars, checkVars>>

Booked == Book(now) /\ UNCHANGED <<now, checkVars>>

\* Nothing in the program does this.
Slip(x) == /\ Rows(x) = {} /\ Writers \cup {x} \in Together
           /\ CreatePosting(x, Amount[x], now)
           /\ UNCHANGED <<pc, now, checkVars>>

-----------------------------------------------------------------------------
(* The check.                                                              *)

IsPower(u) == \E e \in 0..u : u = 2^e

\* What floating-point numbers of this size are multiples of.
Unit(size) == CHOOSE u \in 1..(size + 1) : /\ IsPower(u) /\ size < u * Significands
                                           /\ u = 1 \/ size >= (u \div 2) * Significands

\* The nearest floating-point number, the one with an even significand of two.
Round(n) ==
    LET size == IF n < 0 THEN -n ELSE n
        even == size \div Unit(size)
        over == 2 * (size % Unit(size))
        up == over > Unit(size) \/ (over = Unit(size) /\ even % 2 = 1)
        near == (IF up THEN even + 1 ELSE even) * Unit(size)
    IN  IF n < 0 THEN -near ELSE near

Dated(p, to) == to - Window <= p.at /\ p.at <= to

\* Amounts are stored as what they are read as.
ASSUME AmountsRepresented == \A x \in Transactions : Round(Amount[x]) = Amount[x]

\* What is committed; BETWEEN includes both ends.
FindInRange(to) == {p \in posting : p.of \in done \cup Slips /\ Dated(p, to)}

Oldest(rows) == CHOOSE p \in rows : \A q \in rows \ {p} : <<p, q>> \in older

\* Mutant: the amounts are not added up.
SumAssigned(rows) == MapThenFoldSet(LAMBDA amount, sum : amount, 0, LAMBDA p : p.amount, Oldest, rows)

\* Latest first.
Sum(rows) == MapThenFoldSet(LAMBDA amount, sum : Round(sum + amount), 0, LAMBDA p : p.amount, Oldest, rows)

\* The scheduler would start a second check beside one that still runs; the two
\* read the same table, so here the second starts when the first has ended.  What
\* is posted from here on is later than the end of the timespan.
StartCheck == /\ now \in Due /\ running = Never
              /\ running' = now
              /\ now' = now + 1
              /\ UNCHANGED <<bookingVars, checks, mails>>

\* The time is taken before the postings are read.
Finish == /\ running # Never
          /\ mails' = IF Sum(FindInRange(running)) # 0 THEN mails \cup {running} ELSE mails
          /\ checks' = checks \cup {running}
          /\ running' = Never
          /\ UNCHANGED <<bookingVars, now>>

\* The postings cannot be read: the error is logged.
CheckFailed == /\ running # Never
               /\ running' = Never
               /\ UNCHANGED <<bookingVars, now, checks, mails>>

-----------------------------------------------------------------------------
BalanceNext == Pass \/ Booked \/ (\E x \in Slips : Slip(x)) \/ StartCheck \/ Finish \/ CheckFailed

\* PostgreSQL hands a row to those that wait for it in turn, and looks for deadlocks.
BalanceFairness ==
    /\ \A x \in Transactions : SF_balanceVars(Proceed(x, now) /\ UNCHANGED <<now, checkVars>>)
    /\ WF_balanceVars(Detect /\ UNCHANGED <<now, checkVars>>)

BalanceSpec == BalanceInit /\ [][BalanceNext]_balanceVars /\ BalanceFairness

-----------------------------------------------------------------------------
\* No transaction stays open for ever: of two that wait for each other's row one
\* is rolled back, and whoever waits for a row gets it.
TransactionsEnd == \A x \in Transactions : pc[x] # "idle" ~> pc[x] = "idle"

Slipped(to) == {x \in Slips : \E p \in Rows(x) : Dated(p, to)}

Cut(to) == {x \in Transactions : \E p, q \in Rows(x) : Dated(p, to) /\ ~Dated(q, to)}

\* Transfers whose postings alternate.
Mixed(to) == \E p, q, r \in posting :
                /\ <<p, q>> \in older /\ <<q, r>> \in older
                /\ Dated(p, to) /\ p.of = r.of /\ q.of \in Transactions

\* There are digits enough for what slipped and any one of the transfers added up.
Fits(to) == LET slips == SumFunctionOnSet(Amount, Slipped(to))
            IN  /\ slips < Significands
                /\ \A p \in posting : Dated(p, to) /\ p.of \in Transactions
                                     => slips + Amount[p.of] < Significands

\* Unless the timespan begins or ends between the two postings of a transfer, or
\* those of several transfers alternate: whichever transfers are booked while the
\* check runs, a mail is sent only if there is something to find, and it is sent
\* then if what is to be found is not so small that it is rounded away.
CheckTrue ==
    \A to \in checks : Cut(to) = {} /\ ~Mixed(to)
                       => /\ to \in mails => Slipped(to) # {}
                          /\ Slipped(to) # {} /\ Fits(to) => to \in mails
=============================================================================
