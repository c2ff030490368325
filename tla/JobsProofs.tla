------------------------------ MODULE JobsProofs ------------------------------
(***************************************************************************)
(* What the scheduler starts.                                              *)
(*                                                                         *)
(* The balance check: the transactions it reads look atomic to whoever     *)
(* reads what is committed, and its mails are true, for any accounts,      *)
(* transfers and amounts, although nothing keeps two transactions from     *)
(* booking the same transfer.                                              *)
(*                                                                         *)
(* The daily email: no match is missed but for the two ways to lose one,   *)
(* and nobody is mailed what an earlier run told, for any number of runs,  *)
(* goroutines and entities and whatever fails.                             *)
(***************************************************************************)
EXTENDS BalanceCheck, DailyEmail, FiniteSetTheorems, TLAPS

-----------------------------------------------------------------------------
(* The transactions that the balance check reads.                          *)

\* The rows whose updates the transaction has behind it.
Reached(x) == CASE pc[x] = "updatePayee" -> {From[x]}
                [] pc[x] \in {"updateJournal", "commit"} -> {From[x], To[x]}
                [] OTHER -> {}

Change(x, a) == IF a = From[x] THEN -Amount[x] ELSE Amount[x]

BookingTypeOK ==
    /\ account \in [Accounts -> [live : BOOLEAN, balance : Int]]
    /\ status \in [Journals -> {"initiated", "completed", "cancelled"}]
    /\ pc \in [Transactions -> Statements \cup {"idle"}]
    /\ DOMAIN written = Transactions

\* A transaction has written just those of its rows that are live, ...
RowsWritten ==
    \A x \in Transactions : DOMAIN written[x] = {a \in Reached(x) : account[a].live}

\* ... its balance of each is still the committed one and its change, ...
BalancesFresh ==
    \A x \in Transactions : \A a \in DOMAIN written[x] :
       written[x][a] = account[a].balance + Change(x, a)

\* ... because no other has written the row, ...
RowsLocked ==
    \A x, y \in Transactions : DOMAIN written[x] \cap DOMAIN written[y] # {} => x = y

\* ... and it commits once.
BookedOnce ==
    /\ IsFiniteSet(done)
    /\ \A x \in Transactions : x \in done => pc[x] = "idle"

BookingInv == BookingTypeOK /\ RowsWritten /\ BalancesFresh /\ RowsLocked /\ BookedOnce

-----------------------------------------------------------------------------
LEMMA InitInv == BalanceInit => BookingInv
  BY BookingAssumption, FS_EmptySet DEF BalanceInit, BookingInit, BookingInv, BookingTypeOK, RowsWritten, BalancesFresh,
     RowsLocked, BookedOnce, Reached, NoRows

\* A statement that writes no row.
LEMMA StatementInv ==
    ASSUME BookingInv, NEW x \in Transactions, NEW next \in Statements \cup {"idle"},
           pc' = [pc EXCEPT ![x] = next], Reached(x)' = Reached(x), x \notin done,
           UNCHANGED <<account, status, done, written>>
    PROVE  BookingInv'
<1>1. \A y \in Transactions : Reached(y)' = Reached(y)
  BY DEF Reached, BookingInv, BookingTypeOK
<1>2. BookingTypeOK' /\ BookedOnce'
  BY DEF BookingInv, BookingTypeOK, BookedOnce
<1>3. RowsWritten'
  BY <1>1 DEF BookingInv, RowsWritten
<1>4. BalancesFresh' /\ RowsLocked'
  BY DEF BookingInv, BalancesFresh, RowsLocked, Change
<1> QED BY <1>2, <1>3, <1>4 DEF BookingInv

\* The update of a balance that waited for the row.
LEMMA UpdateInv ==
    ASSUME BookingInv, NEW x \in Transactions, NEW a \in Accounts, NEW next \in Statements,
           pc' = [pc EXCEPT ![x] = next], Reached(x)' = Reached(x) \cup {a}, a \notin Reached(x),
           x \notin done,
           UpdateBalance(x, a, Change(x, a))
    PROVE  BookingInv'
<1> DEFINE rows == IF account[a].live THEN With(written[x], a, account[a].balance + Change(x, a))
                                      ELSE written[x]
<1>1. /\ written' = [written EXCEPT ![x] = rows]
      /\ \A y \in Transactions : a \notin DOMAIN written[y]
      /\ UNCHANGED <<account, status, postings, done>>
  BY DEF UpdateBalance, Holders, postings
<1>2. \A y \in Transactions : y # x => Reached(y)' = Reached(y) /\ written'[y] = written[y]
  BY <1>1 DEF Reached, BookingInv, BookingTypeOK
<1>3. written'[x] = rows
  BY <1>1 DEF BookingInv, BookingTypeOK
<1>4. DOMAIN rows = DOMAIN written[x] \cup (IF account[a].live THEN {a} ELSE {})
  BY DEF With
<1>5. BookingTypeOK' /\ BookedOnce'
  BY <1>1 DEF BookingInv, BookingTypeOK, BookedOnce
<1>6. RowsWritten'
  <2>1. DOMAIN written'[x] = {b \in Reached(x)' : account'[b].live}
    BY <1>1, <1>3, <1>4 DEF BookingInv, RowsWritten
  <2> QED BY <1>1, <1>2, <2>1 DEF BookingInv, RowsWritten
<1>7. BalancesFresh'
  <2>1. ASSUME NEW b \in DOMAIN rows
        PROVE  rows[b] = account[b].balance + Change(x, b)
    BY <1>1, <2>1 DEF With, BookingInv, BalancesFresh
  <2> QED BY <1>1, <1>2, <1>3, <2>1 DEF BookingInv, BalancesFresh, Change
<1>8. RowsLocked'
  <2>1. \A y \in Transactions \ {x} : DOMAIN rows \cap DOMAIN written[y] = {}
    BY <1>1, <1>4 DEF BookingInv, RowsLocked
  <2> QED BY <1>2, <1>3, <2>1 DEF BookingInv, RowsLocked
<1> QED BY <1>5, <1>6, <1>7, <1>8 DEF BookingInv

\* A transaction that ends without a commit.
LEMMA RollbackInv ==
    ASSUME BookingInv, NEW x \in Transactions, Rollback(x)
    PROVE  BookingInv'
<1>1. /\ pc' = [pc EXCEPT ![x] = "idle"]
      /\ written' = [written EXCEPT ![x] = NoRows]
      /\ UNCHANGED <<account, status, done>>
  BY DEF Rollback, Goto
<1>2. Reached(x)' = {} /\ DOMAIN written'[x] = {}
  BY <1>1 DEF Reached, NoRows, BookingInv, BookingTypeOK
<1>3. \A y \in Transactions : y # x => Reached(y)' = Reached(y) /\ written'[y] = written[y]
  BY <1>1 DEF Reached, BookingInv, BookingTypeOK
<1>4. BookingTypeOK' /\ BookedOnce'
  BY <1>1 DEF BookingInv, BookingTypeOK, BookedOnce
<1>5. RowsWritten'
  BY <1>1, <1>2, <1>3 DEF BookingInv, RowsWritten
<1>6. BalancesFresh'
  BY <1>1, <1>2, <1>3 DEF BookingInv, BalancesFresh, Change
<1>7. RowsLocked'
  BY <1>2, <1>3 DEF BookingInv, RowsLocked
<1> QED BY <1>4, <1>5, <1>6, <1>7 DEF BookingInv

\* A commit changes the balances of the rows it held, which nobody else has read.
LEMMA CommitInv ==
    ASSUME BookingInv, NEW x \in Transactions, Commit(x)
    PROVE  BookingInv'
<1> USE BookingAssumption
<1>1. /\ pc' = [pc EXCEPT ![x] = "idle"]
      /\ written' = [written EXCEPT ![x] = NoRows]
      /\ status' = [status EXCEPT ![Journal[x]] = "completed"]
      /\ done' = done \cup {x}
  BY DEF Commit, Goto
<1>2. Reached(x)' = {} /\ DOMAIN written'[x] = {}
  BY <1>1 DEF Reached, NoRows, BookingInv, BookingTypeOK
<1>3. \A y \in Transactions : y # x => Reached(y)' = Reached(y) /\ written'[y] = written[y]
  BY <1>1 DEF Reached, BookingInv, BookingTypeOK
<1>4. \A a \in Accounts : /\ account'[a].live = account[a].live
                          /\ a \notin DOMAIN written[x] => account'[a] = account[a]
  BY DEF Commit, BookingInv, BookingTypeOK
<1>5. \A y \in Transactions : Reached(y) \subseteq Accounts
  BY DEF Reached
<1>6. account' \in [Accounts -> [live : BOOLEAN, balance : Int]]
  <2>1. \A a \in DOMAIN written[x] : written[x][a] \in Int
    BY <1>5 DEF BookingInv, BookingTypeOK, BalancesFresh, RowsWritten, Change
  <2> QED BY <2>1 DEF Commit, BookingInv, BookingTypeOK
<1>7. BookingTypeOK'
  BY <1>1, <1>6 DEF BookingInv, BookingTypeOK
<1>8. RowsWritten'
  BY <1>2, <1>3, <1>4, <1>5 DEF BookingInv, RowsWritten
<1>9. BalancesFresh'
  <2>1. ASSUME NEW y \in Transactions, y # x, NEW a \in DOMAIN written[y]
        PROVE  account'[a] = account[a]
    BY <1>4, <1>5, <2>1 DEF BookingInv, RowsLocked, RowsWritten
  <2> QED BY <1>2, <1>3, <2>1 DEF BookingInv, BalancesFresh, Change
<1>10. RowsLocked'
  BY <1>2, <1>3 DEF BookingInv, RowsLocked
<1>11. BookedOnce'
  <2>1. IsFiniteSet(done')
    BY <1>1, FS_AddElement DEF BookingInv, BookedOnce
  <2> QED BY <1>1, <2>1 DEF BookingInv, BookingTypeOK, BookedOnce
<1> QED BY <1>7, <1>8, <1>9, <1>10, <1>11 DEF BookingInv

LEMMA CancelInv ==
    ASSUME BookingInv, NEW j \in Journals, Cancel(j)
    PROVE  BookingInv'
<1> USE DEF Cancel, BookingInv
<1>1. BookingTypeOK' /\ BookedOnce'
  BY DEF BookingTypeOK, BookedOnce
<1>2. RowsWritten' /\ BalancesFresh' /\ RowsLocked'
  BY DEF RowsWritten, Reached, BalancesFresh, Change, RowsLocked
<1> QED BY <1>1, <1>2

\* Nobody closes an account whose row is locked.
LEMMA CloseInv ==
    ASSUME BookingInv, NEW a \in Accounts, Close(a)
    PROVE  BookingInv'
<1> USE BookingAssumption
<1>1. /\ \A y \in Transactions : a \notin DOMAIN written[y]
      /\ account' = [account EXCEPT ![a].live = FALSE]
      /\ UNCHANGED <<status, done, pc, written>>
  BY DEF Close, Holders
<1>2. \A y \in Transactions : Reached(y)' = Reached(y) /\ Reached(y) \subseteq Accounts
  BY <1>1 DEF Reached
<1>3. BookingTypeOK' /\ BookedOnce'
  BY <1>1 DEF BookingInv, BookingTypeOK, BookedOnce
<1>4. RowsWritten'
  BY <1>1, <1>2 DEF BookingInv, BookingTypeOK, RowsWritten
<1>5. BalancesFresh'
  BY <1>1, <1>2 DEF BookingInv, BookingTypeOK, RowsWritten, BalancesFresh, Change
<1>6. RowsLocked'
  BY <1>1 DEF BookingInv, RowsLocked
<1> QED BY <1>3, <1>4, <1>5, <1>6 DEF BookingInv

LEMMA BookInv ==
    ASSUME BookingInv, NEW at, Book(at)
    PROVE  BookingInv'
<1> USE BookingAssumption DEF Goto
<1>1. ASSUME NEW x \in Transactions, Begin(x)
      PROVE  BookingInv'
  <2>1. x \notin done /\ Reached(x)' = Reached(x)
    BY <1>1 DEF Begin, Reached, BookingInv, BookingTypeOK, BookedOnce
  <2> QED BY <1>1, <2>1, StatementInv DEF Begin, Statements
<1>2. ASSUME NEW x \in Transactions, Proceed(x, at)
      PROVE  BookingInv'
  <2>1. CASE CreateDebit(x, at) \/ CreateCredit(x, at) \/ UpdateJournal(x)
    <3>1. PICK next \in Statements : pc' = [pc EXCEPT ![x] = next]
      BY <2>1 DEF CreateDebit, CreateCredit, UpdateJournal, Statements
    <3>2. x \notin done /\ UNCHANGED <<account, status, done, written>>
      BY <2>1 DEF CreateDebit, CreateCredit, UpdateJournal, CreatePosting, BookingInv, BookedOnce
    <3>3. Reached(x)' = Reached(x)
      BY <2>1 DEF CreateDebit, CreateCredit, UpdateJournal, Reached, BookingInv, BookingTypeOK
    <3> QED BY <3>1, <3>2, <3>3, StatementInv
  <2>2. CASE UpdatePayer(x)
    <3>1. x \notin done /\ Reached(x) = {} /\ Reached(x)' = {From[x]}
      BY <2>2 DEF UpdatePayer, Reached, BookingInv, BookingTypeOK, BookedOnce
    <3>2. /\ pc' = [pc EXCEPT ![x] = "updatePayee"]
          /\ UpdateBalance(x, From[x], Change(x, From[x]))
      BY <2>2 DEF UpdatePayer, Change
    <3> QED BY <3>1, <3>2, UpdateInv DEF Statements
  <2>3. CASE UpdatePayee(x)
    <3>1. x \notin done /\ Reached(x) = {From[x]} /\ Reached(x)' = {From[x], To[x]}
      BY <2>3 DEF UpdatePayee, Reached, BookingInv, BookingTypeOK, BookedOnce
    <3>2. /\ pc' = [pc EXCEPT ![x] = "updateJournal"]
          /\ UpdateBalance(x, To[x], Change(x, To[x]))
      BY <2>3 DEF UpdatePayee, Change
    <3>3. "updateJournal" \in Statements /\ From[x] # To[x]
      BY DEF Statements
    <3> QED BY <3>1, <3>2, <3>3, UpdateInv
  <2>4. CASE Commit(x)
    BY <2>4, CommitInv
  <2> QED BY <1>2, <2>1, <2>2, <2>3, <2>4 DEF Proceed
<1>3. ASSUME NEW x \in Transactions, Fail(x)
      PROVE  BookingInv'
  BY <1>3, RollbackInv DEF Fail
<1>4. ASSUME NEW j \in Disputed, Cancel(j)
      PROVE  BookingInv'
  BY <1>4, CancelInv
<1>5. ASSUME Detect
      PROVE  BookingInv'
  BY <1>5, RollbackInv DEF Detect, Deadlocked
<1>6. ASSUME NEW a \in Closing, Close(a)
      PROVE  BookingInv'
  BY <1>6, CloseInv
<1> QED BY <1>1, <1>2, <1>3, <1>4, <1>5, <1>6 DEF Book

LEMMA NextInv == BookingInv /\ [BalanceNext]_balanceVars => BookingInv'
<1> SUFFICES ASSUME BookingInv, [BalanceNext]_balanceVars PROVE BookingInv'
  OBVIOUS
<1>1. CASE Booked
  BY <1>1, BookInv DEF Booked
<1>2. CASE UNCHANGED <<account, status, done, pc, written>>
  BY <1>2 DEF BookingInv, BookingTypeOK, RowsWritten, Reached, BalancesFresh, Change, RowsLocked, BookedOnce
<1> QED BY <1>1, <1>2 DEF BalanceNext, Pass, Slip, CreatePosting, StartCheck, Finish, CheckFailed,
      balanceVars, bookingVars, checkVars

-----------------------------------------------------------------------------
AccountRows == [live : BOOLEAN, balance : Int]

\* A credit, as a table.
LEMMA CreditTable ==
    ASSUME NEW accounts \in [Accounts -> AccountRows], NEW a \in Accounts, NEW amount \in Int
    PROVE  /\ Tables!Credit(accounts, a, amount) \in [Accounts -> AccountRows]
           /\ \A b \in Accounts :
                 Tables!Credit(accounts, a, amount)[b] =
                    IF b = a /\ accounts[b].live
                    THEN [accounts[b] EXCEPT !.balance = accounts[b].balance + amount]
                    ELSE accounts[b]
<1>1. [accounts[a] EXCEPT !.balance = accounts[a].balance + amount] \in AccountRows
  BY DEF AccountRows
<1>2. CASE accounts[a].live
  <2>1. Tables!Credit(accounts, a, amount) = [accounts EXCEPT ![a].balance = accounts[a].balance + amount]
    BY <1>2 DEF Tables!Credit
  <2> QED BY <1>1, <1>2, <2>1
<1>3. CASE ~accounts[a].live
  BY <1>3 DEF Tables!Credit
<1> QED BY <1>2, <1>3

\* The journals and the number of times each was booked, as tables.
JournalRows == [j \in Journals |->
                  [status |-> status[j], initiator |-> From[Reader(j)],
                   from |-> From[Reader(j)], to |-> To[Reader(j)], amount |-> Amount[Reader(j)]]]

Bookings == [j \in Journals |-> Cardinality({x \in done : Journal[x] = j})]

LEMMA CommitAccepts ==
    ASSUME BookingInv, NEW x \in Transactions, Commit(x)
    PROVE  Tables!JournalAccept(Journal[x], From[x], To[x], Amount[x])
<1> DEFINE paid == Tables!Credit(account, From[x], -Amount[x])
           settled == Tables!Credit(paid, To[x], Amount[x])
<1>1. pc[x] = "commit" /\ x \notin done
  BY DEF Commit, BookingInv, BookedOnce
<1>2. /\ From[x] \in Accounts /\ To[x] \in Accounts /\ From[x] # To[x]
      /\ Amount[x] \in Int /\ -Amount[x] \in Int
      /\ account \in [Accounts -> AccountRows]
  BY BookingAssumption DEF BookingInv, BookingTypeOK, AccountRows
<1>3. account' = settled
  <2> HIDE DEF settled, paid
  <2>1. DOMAIN written[x] = {a \in {From[x], To[x]} : account[a].live}
    BY <1>1 DEF BookingInv, RowsWritten, Reached
  <2>2. /\ paid \in [Accounts -> AccountRows]
        /\ \A b \in Accounts : paid[b] = IF b = From[x] /\ account[b].live
                                         THEN [account[b] EXCEPT !.balance = account[b].balance - Amount[x]]
                                         ELSE account[b]
    BY <1>2, CreditTable DEF paid
  <2>3. /\ settled \in [Accounts -> AccountRows]
        /\ \A b \in Accounts : settled[b] = IF b = To[x] /\ paid[b].live
                                            THEN [paid[b] EXCEPT !.balance = paid[b].balance + Amount[x]]
                                            ELSE paid[b]
    BY <1>2, <2>2, CreditTable DEF settled
  <2>4. account' = [a \in Accounts |-> IF a \in DOMAIN written[x]
                                       THEN [account[a] EXCEPT !.balance = written[x][a]] ELSE account[a]]
    BY DEF Commit
  <2>5. \A a \in DOMAIN written[x] : written[x][a] = account[a].balance + Change(x, a)
    BY DEF BookingInv, BalancesFresh
  <2>6. ASSUME NEW a \in Accounts
        PROVE  account'[a] = settled[a]
    <3>1. CASE a = From[x] /\ account[a].live
      BY <1>2, <2>1, <2>2, <2>3, <2>4, <2>5, <3>1 DEF Change
    <3>2. CASE a = To[x] /\ account[a].live
      BY <1>2, <2>1, <2>2, <2>3, <2>4, <2>5, <3>2 DEF Change
    <3>3. CASE a \notin {From[x], To[x]} \/ ~account[a].live
      BY <1>2, <2>1, <2>2, <2>3, <2>4, <3>3
    <3> QED BY <3>1, <3>2, <3>3
  <2> QED BY <2>3, <2>4, <2>6
<1>4. Bookings' = [Bookings EXCEPT ![Journal[x]] = @ + 1]
  <2> DEFINE of(j) == {y \in done : Journal[y] = j}
  <2>1. done' = done \cup {x} /\ Journal[x] \in Journals
    BY DEF Commit, Journals
  <2>2. ASSUME NEW j \in Journals, j # Journal[x]
        PROVE  Bookings'[j] = Bookings[j]
    <3>1. of(j)' = of(j)
      BY <2>1, <2>2
    <3> QED BY <2>2, <3>1 DEF Bookings
  <2>3. Bookings'[Journal[x]] = Bookings[Journal[x]] + 1
    <3>1. of(Journal[x])' = of(Journal[x]) \cup {x} /\ x \notin of(Journal[x])
      BY <1>1, <2>1
    <3>2. IsFiniteSet(of(Journal[x]))
      BY FS_Subset DEF BookingInv, BookedOnce
    <3>3. Cardinality(of(Journal[x]) \cup {x}) = Cardinality(of(Journal[x])) + 1
      BY <3>1, <3>2, FS_AddElement
    <3> QED BY <2>1, <3>1, <3>3 DEF Bookings
  <2> QED BY <2>1, <2>2, <2>3 DEF Bookings
<1>5. JournalRows' = [JournalRows EXCEPT ![Journal[x]].status = "completed"]
  BY DEF Commit, BookingInv, BookingTypeOK, JournalRows, Journals
<1> QED BY <1>3, <1>4, <1>5 DEF Tables!JournalAccept, Tables!Settle, Bookings, JournalRows

LEMMA CancelCancels ==
    ASSUME BookingInv, NEW j \in Journals, Cancel(j)
    PROVE  Tables!JournalCancel(j)
<1>1. JournalRows' = [JournalRows EXCEPT ![j].status = "cancelled"]
  BY DEF Cancel, BookingInv, BookingTypeOK, JournalRows
<1>2. Bookings' = Bookings
  BY DEF Cancel, Bookings
<1> QED BY <1>1, <1>2 DEF Cancel, Tables!JournalCancel, JournalRows, Bookings

\* Every step of the transactions is a whole operation of Ledger, or changes
\* nothing that is committed.
LEMMA StepAtomic ==
    ASSUME BookingInv, [BalanceNext]_balanceVars
    PROVE  [ \/ \E x \in Transactions : Tables!JournalAccept(Journal[x], From[x], To[x], Amount[x])
             \/ \E j \in Journals : Tables!JournalCancel(j)
             \/ \E a \in Accounts : Tables!AccountDelete(a) ]_<<account, status, done>>
<1> DEFINE same == UNCHANGED <<account, status, done>>
<1> USE BookingAssumption
<1>1. ASSUME NEW x \in Transactions, NEW at, Begin(x) \/ Proceed(x, at) \/ Fail(x)
      PROVE  same \/ Tables!JournalAccept(Journal[x], From[x], To[x], Amount[x])
  <2>1. CASE Commit(x)
    BY <2>1, CommitAccepts
  <2> QED BY <1>1, <2>1 DEF Begin, Proceed, CreateDebit, CreateCredit, CreatePosting, UpdatePayer,
               UpdatePayee, UpdateBalance, UpdateJournal, Fail, Rollback
<1>2. ASSUME NEW a \in Accounts, Close(a)
      PROVE  Tables!AccountDelete(a)
  BY <1>2 DEF Close, Tables!AccountDelete
<1>3. Detect => same
  BY DEF Detect, Rollback
<1>4. CASE Booked
  BY <1>1, <1>2, <1>3, <1>4, CancelCancels DEF Booked, Book
<1>5. CASE same
  BY <1>5
<1> QED BY <1>4, <1>5 DEF BalanceNext, Pass, Slip, CreatePosting, StartCheck, Finish, CheckFailed,
      balanceVars, bookingVars, checkVars

-----------------------------------------------------------------------------
\* However many transactions are open at once and whatever they wait for, the
\* balance a transaction of journal.Accept has written is the committed one and
\* its amount until it commits, and each commits at most once.
THEOREM LocksHeld == BalanceSpec => []BookingInv
  BY InitInv, NextInv, PTL DEF BalanceSpec

\* What is committed changes by whole operations of Ledger: the transaction of
\* journal.Accept implements the one step that Transfers takes it for.
THEOREM AcceptAtomic == BalanceSpec => LedgerAtomic
  BY LocksHeld, StepAtomic, PTL DEF BalanceSpec, LedgerAtomic

-----------------------------------------------------------------------------
(***************************************************************************)
(* Sums over finite sets, as written in SumFunctionOnSet, and with each    *)
(* step rounded, as in Sum.  What both have in common is stated once:      *)
(* rounded says which of the two is meant, f gives the summands of the one *)
(* that is not.                                                            *)
(***************************************************************************)
\* If a set is among U whenever all smaller ones are, then every finite set is.
LEMMA FiniteSetInduction ==
    ASSUME NEW S, IsFiniteSet(S), NEW U,
           \A T \in SUBSET S : (\A R \in SUBSET T : R # T => R \in U) => T \in U
    PROVE  S \in U
<1> SUFFICES ASSUME S \notin U PROVE FALSE
  OBVIOUS
<1> DEFINE Others == (SUBSET S) \ U
<1>1. Others \subseteq FiniteSubsetsOf(S) /\ Others # {}
  BY FS_FiniteSubsetsOfFinite
<1>2. PICK T \in Others : \A R \in Others : <<R, T>> \notin StrictSubsetOrdering(S)
  <2> HIDE DEF Others
  <2> QED
    BY <1>1, FS_StrictSubsetOrderingWellFounded, WFMin
<1>3. \A R \in SUBSET T : R # T => R \in U
  BY <1>2 DEF StrictSubsetOrdering
<1> QED
  BY <1>2, <1>3

Any(S) == CHOOSE x \in S : TRUE
Taken(rounded, S) == IF rounded THEN Oldest(S) ELSE Any(S)
Rest(rounded, S) == S \ {Taken(rounded, S)}
Plus(rounded, f, S, v) == IF rounded THEN Round(v + Oldest(S).amount) ELSE f[Any(S)] + v

\* The sum of S, s being the sums of the smaller sets.
FoldStep(rounded, f, s, S) == IF S = {} THEN 0 ELSE Plus(rounded, f, S, s[Rest(rounded, S)])

\* The sums of all subsets of S.
AreFolds(rounded, f, s, S) == s = [T \in SUBSET S |-> FoldStep(rounded, f, s, T)]
FoldsOf(rounded, f, S) == CHOOSE s : AreFolds(rounded, f, s, S)

Takes(rounded, S) == \A T \in SUBSET S : T # {} => Taken(rounded, T) \in T

\* What remains when an element is taken out.
LEMMA RestSmaller ==
    ASSUME NEW k, NEW S, Takes(k, S), NEW T \in SUBSET S, T # {}
    PROVE  Rest(k, T) \in SUBSET T /\ Rest(k, T) # T
BY DEF Rest, Takes

\* The sum of one subset.
LEMMA FoldsAt ==
    ASSUME NEW k, NEW f, NEW S, NEW s, AreFolds(k, f, s, S), NEW T \in SUBSET S
    PROVE  s[T] = FoldStep(k, f, s, T)
BY DEF AreFolds

\* The sums of subsets do not depend on the set they are subsets of.
LEMMA FoldsAgree ==
    ASSUME NEW k, NEW f, NEW A, NEW B, NEW s, NEW t, AreFolds(k, f, s, A), AreFolds(k, f, t, B),
           NEW S, IsFiniteSet(S), S \subseteq A, S \subseteq B, Takes(k, S)
    PROVE  s[S] = t[S]
<1> DEFINE U == {T \in SUBSET S : s[T] = t[T]}
<1>1. ASSUME NEW T \in SUBSET S, \A R \in SUBSET T : R # T => R \in U
      PROVE  T \in U
  <2>1. s[T] = FoldStep(k, f, s, T) /\ t[T] = FoldStep(k, f, t, T)
    BY FoldsAt
  <2>2. T # {} => s[Rest(k, T)] = t[Rest(k, T)]
    BY <1>1, RestSmaller
  <2> QED
    BY <2>1, <2>2 DEF FoldStep
<1> HIDE DEF U
<1>2. S \in U
  BY <1>1, FiniteSetInduction
<1> QED
  BY <1>2 DEF U

\* A function with the property that defines the sums exists: put together from
\* those of the smaller sets.
LEMMA FoldsExist ==
    ASSUME NEW k, NEW f, NEW S, IsFiniteSet(S), Takes(k, S)
    PROVE  AreFolds(k, f, FoldsOf(k, f, S), S)
<1> DEFINE U == {T \in SUBSET S : AreFolds(k, f, FoldsOf(k, f, T), T)}
<1>1. ASSUME NEW T \in SUBSET S, \A R \in SUBSET T : R # T => R \in U
      PROVE  T \in U
  <2> DEFINE Left(R) == Rest(k, R)
             s == [R \in SUBSET T |-> IF R = {} THEN 0
                                      ELSE Plus(k, f, R, FoldsOf(k, f, Left(R))[Left(R)])]
  <2>0. ASSUME NEW R \in SUBSET T
        PROVE  Takes(k, R) /\ IsFiniteSet(R) /\ (R # {} => Left(R) \in SUBSET R /\ Left(R) # R)
    BY FS_Subset, RestSmaller DEF Takes
  <2>1. ASSUME NEW R \in SUBSET T, R # T
        PROVE  s[R] = FoldsOf(k, f, R)[R]
    <3>1. AreFolds(k, f, FoldsOf(k, f, R), R)
          /\ FoldsOf(k, f, R)[R] = FoldStep(k, f, FoldsOf(k, f, R), R)
      BY <1>1, <2>1, FoldsAt
    <3>2. CASE R = {}
      BY <3>1, <3>2 DEF FoldStep
    <3>3. CASE R # {}
      <4>1. Left(R) \subseteq R /\ Left(R) # T /\ Left(R) \in SUBSET T
            /\ IsFiniteSet(Left(R)) /\ Takes(k, Left(R))
        BY <2>0, <2>1, <3>3
      <4>2. FoldsOf(k, f, R)[Left(R)] = FoldsOf(k, f, Left(R))[Left(R)]
        BY <3>1, <4>1, <1>1, FoldsAgree
      <4> QED
        BY <3>1, <3>3, <4>2 DEF FoldStep
    <3> QED
      BY <3>2, <3>3
  <2>2. ASSUME NEW R \in SUBSET T
        PROVE  s[R] = FoldStep(k, f, s, R)
    <3>1. CASE R = {}
      BY <3>1 DEF FoldStep
    <3>2. CASE R # {}
      <4>1. Left(R) \in SUBSET T /\ Left(R) # T
        BY <2>0, <3>2
      <4>2. s[Left(R)] = FoldsOf(k, f, Left(R))[Left(R)]
            /\ s[R] = Plus(k, f, R, FoldsOf(k, f, Left(R))[Left(R)])
        BY <4>1, <2>1, <3>2
      <4> HIDE DEF s
      <4> QED
        BY <4>2, <3>2 DEF FoldStep
    <3> QED
      BY <3>1, <3>2
  <2>3. s = [R \in SUBSET T |-> s[R]]
    OBVIOUS
  <2> HIDE DEF s
  <2>4. AreFolds(k, f, s, T)
    BY <2>2, <2>3 DEF AreFolds
  <2> QED
    BY <2>4 DEF FoldsOf
<1> HIDE DEF U
<1>2. S \in U
  BY <1>1, FiniteSetInduction
<1> QED
  BY <1>2 DEF U

\* The equation of a fold.
LEMMA FoldEquation ==
    ASSUME NEW k, NEW f, NEW S, IsFiniteSet(S), Takes(k, S),
           NEW s, AreFolds(k, f, s, S), NEW R, R = Rest(k, S), NEW t, AreFolds(k, f, t, R), S # {}
    PROVE  s[S] = Plus(k, f, S, t[R])
<1>1. /\ Rest(k, S) \subseteq S /\ IsFiniteSet(Rest(k, S)) /\ Takes(k, Rest(k, S))
  BY FS_Subset DEF Takes, Rest
<1>2. s[Rest(k, S)] = t[Rest(k, S)]
  BY <1>1, FoldsAgree
<1>3. s[S] = FoldStep(k, f, s, S)
  BY FoldsAt
<1> QED
  BY <1>2, <1>3 DEF FoldStep

\* The functions in SumFunctionOnSet and Sum, as they are when the community
\* modules' definitions are expanded.
SumsOf(f, S) == CHOOSE s : s = [T \in SUBSET S |-> IF T = {} THEN 0 ELSE f[Any(T)] + s[T \ {Any(T)}]]
RoundedOf(S) == CHOOSE s : s = [T \in SUBSET S |-> IF T = {} THEN 0
                                                  ELSE Round(s[T \ {Oldest(T)}] + Oldest(T).amount)]

\* They are these functions.
LEMMA SumIsOf == ASSUME NEW f, NEW S PROVE SumFunctionOnSet(f, S) = SumsOf(f, S)[S]
BY DEF SumFunctionOnSet, FoldFunctionOnSet, MapThenFoldSet, SumsOf, Any

LEMMA RoundedIsOf == ASSUME NEW S PROVE Sum(S) = RoundedOf(S)[S]
BY DEF Sum, MapThenFoldSet, RoundedOf

\* CHOOSE takes an element of a set that has one.
LEMMA AnyTaken == \A S : Takes(FALSE, S)
BY DEF Takes, Taken, Any

\* Such functions exist, so CHOOSE returns one.
LEMMA SumsAreFolds ==
    ASSUME NEW f, NEW S, IsFiniteSet(S)
    PROVE  AreFolds(FALSE, f, SumsOf(f, S), S)
<1>1. \A s : AreFolds(FALSE, f, s, S)
               <=> s = [T \in SUBSET S |-> IF T = {} THEN 0 ELSE f[Any(T)] + s[T \ {Any(T)}]]
  BY DEF AreFolds, FoldStep, Plus, Rest, Taken
<1>2. \E s : s = [T \in SUBSET S |-> IF T = {} THEN 0 ELSE f[Any(T)] + s[T \ {Any(T)}]]
  BY <1>1, AnyTaken, FoldsExist
<1> QED
  BY <1>1, <1>2 DEF SumsOf

\* So do those of Sum, if there is an oldest row.
LEMMA RoundedAreFolds ==
    ASSUME NEW S, IsFiniteSet(S), Takes(TRUE, S)
    PROVE  AreFolds(TRUE, 0, RoundedOf(S), S)
<1>1. \A s : AreFolds(TRUE, 0, s, S)
               <=> s = [T \in SUBSET S |-> IF T = {} THEN 0
                                           ELSE Round(s[T \ {Oldest(T)}] + Oldest(T).amount)]
  BY DEF AreFolds, FoldStep, Plus, Rest, Taken
<1>2. \E s : s = [T \in SUBSET S |-> IF T = {} THEN 0
                                     ELSE Round(s[T \ {Oldest(T)}] + Oldest(T).amount)]
  BY <1>1, FoldsExist
<1> QED
  BY <1>1, <1>2 DEF RoundedOf

\* The equation of a sum.
LEMMA SumEquation ==
    ASSUME NEW f, NEW S, IsFiniteSet(S)
    PROVE  SumFunctionOnSet(f, S) =
             IF S = {} THEN 0 ELSE f[Any(S)] + SumFunctionOnSet(f, S \ {Any(S)})
<1>1. PICK k, R, s, t : k = FALSE /\ R = S \ {Any(S)} /\ s = SumsOf(f, S) /\ t = SumsOf(f, R)
  OBVIOUS
<1>2. IsFiniteSet(R) /\ R = Rest(k, S) /\ Takes(k, S)
  BY <1>1, FS_Subset, AnyTaken DEF Rest, Taken
<1>3. AreFolds(k, f, s, S) /\ AreFolds(k, f, t, R)
  BY <1>1, <1>2, SumsAreFolds
<1>4. SumFunctionOnSet(f, S) = s[S] /\ SumFunctionOnSet(f, R) = t[R]
  BY <1>1, SumIsOf
<1>5. s[S] = IF S = {} THEN 0 ELSE Plus(k, f, S, t[R])
  <2>1. s[S] = FoldStep(k, f, s, S)
    BY <1>3, FoldsAt
  <2>2. S # {} => s[S] = Plus(k, f, S, t[R])
    BY <1>2, <1>3, FoldEquation
  <2> QED
    BY <2>1, <2>2 DEF FoldStep
<1> QED
  BY <1>1, <1>4, <1>5 DEF Plus

\* The equation of Sum, whose steps are rounded.
LEMMA RoundedEquation ==
    ASSUME NEW S, IsFiniteSet(S), Takes(TRUE, S)
    PROVE  Sum(S) = IF S = {} THEN 0 ELSE Round(Sum(S \ {Oldest(S)}) + Oldest(S).amount)
<1>1. PICK k, f, R, s, t : /\ k = TRUE /\ f = 0 /\ R = S \ {Oldest(S)}
                           /\ s = RoundedOf(S) /\ t = RoundedOf(R)
  OBVIOUS
<1>2. IsFiniteSet(R) /\ R = Rest(k, S) /\ Takes(k, S) /\ Takes(k, R)
  BY <1>1, FS_Subset DEF Rest, Taken, Takes
<1>3. AreFolds(k, f, s, S) /\ AreFolds(k, f, t, R)
  BY <1>1, <1>2, RoundedAreFolds
<1>4. Sum(S) = s[S] /\ Sum(R) = t[R]
  BY <1>1, RoundedIsOf
<1>5. s[S] = IF S = {} THEN 0 ELSE Plus(k, f, S, t[R])
  <2>1. s[S] = FoldStep(k, f, s, S)
    BY <1>3, FoldsAt
  <2>2. S # {} => s[S] = Plus(k, f, S, t[R])
    BY <1>2, <1>3, FoldEquation
  <2> QED
    BY <2>1, <2>2 DEF FoldStep
<1> QED
  BY <1>1, <1>4, <1>5 DEF Plus

\* A sum of integers is one.
LEMMA SumInteger ==
    ASSUME NEW S, IsFiniteSet(S), NEW f, \A x \in S : f[x] \in Int
    PROVE  SumFunctionOnSet(f, S) \in Int
<1> DEFINE U == {T \in SUBSET S : SumFunctionOnSet(f, T) \in Int}
<1>1. ASSUME NEW T \in SUBSET S, \A R \in SUBSET T : R # T => R \in U
      PROVE  T \in U
  <2>1. SumFunctionOnSet(f, T) =
          IF T = {} THEN 0 ELSE f[Any(T)] + SumFunctionOnSet(f, T \ {Any(T)})
    BY FS_Subset, SumEquation
  <2>2. T # {} => Any(T) \in T
    BY DEF Any
  <2>3. T # {} => SumFunctionOnSet(f, T \ {Any(T)}) \in Int /\ f[Any(T)] \in Int
    BY <1>1, <2>2
  <2> QED
    BY <2>1, <2>3
<1> HIDE DEF U
<1>2. S \in U
  BY <1>1, FiniteSetInduction
<1> QED
  BY <1>2 DEF U

\* Any summand may be taken out.
LEMMA SumWithout ==
    ASSUME NEW S, IsFiniteSet(S), NEW f, \A x \in S : f[x] \in Int, NEW x \in S
    PROVE  SumFunctionOnSet(f, S) = f[x] + SumFunctionOnSet(f, S \ {x})
<1> DEFINE F(T) == SumFunctionOnSet(f, T)
           U == {T \in SUBSET S : \A y \in T : F(T) = f[y] + F(T \ {y})}
<1>1. ASSUME NEW T \in SUBSET S, \A R \in SUBSET T : R # T => R \in U
      PROVE  T \in U
  <2> SUFFICES ASSUME NEW y \in T PROVE F(T) = f[y] + F(T \ {y})
    OBVIOUS
  <2> DEFINE z == Any(T)
             left == (T \ {y}) \ {z}
  <2>1. z \in T
    BY DEF Any
  <2>2. /\ IsFiniteSet(T) /\ IsFiniteSet(left)
        /\ \A R \in SUBSET T : R # T => \A v \in R : F(R) = f[v] + F(R \ {v})
    BY <1>1, FS_Subset
  <2>3. F(T) = f[z] + F(T \ {z})
    BY <2>1, <2>2, SumEquation
  <2>4. CASE y = z
    BY <2>3, <2>4
  <2>5. CASE y # z
    <3>1. left = (T \ {z}) \ {y}
      OBVIOUS
    <3>2. F(T \ {z}) = f[y] + F(left)
      BY <2>1, <2>2, <2>5, <3>1
    <3>3. F(T \ {y}) = f[z] + F(left)
      BY <2>1, <2>2, <2>5
    <3>4. F(left) \in Int /\ f[y] \in Int /\ f[z] \in Int
      BY <2>1, <2>2, SumInteger
    <3> QED
      BY <2>3, <3>2, <3>3, <3>4
  <2> QED
    BY <2>4, <2>5
<1> HIDE DEF U
<1>2. S \in U
  BY <1>1, FiniteSetInduction
<1> QED
  BY <1>2 DEF U

\* The sum of some amounts is at most the sum of all.
LEMMA SumBelow ==
    ASSUME NEW S, IsFiniteSet(S), NEW f, \A x \in S : f[x] \in Nat, NEW R \in SUBSET S
    PROVE  0 <= SumFunctionOnSet(f, R) /\ SumFunctionOnSet(f, R) <= SumFunctionOnSet(f, S)
<1> DEFINE F(T) == SumFunctionOnSet(f, T)
           U == {T \in SUBSET S : \A Q \in SUBSET T : 0 <= F(Q) /\ F(Q) <= F(T)}
<1>1. ASSUME NEW T \in SUBSET S, \A Q \in SUBSET T : Q # T => Q \in U
      PROVE  T \in U
  <2>1. /\ IsFiniteSet(T) /\ \A x \in T : f[x] \in Int
        /\ \A Q \in SUBSET T : F(Q) \in Int
    BY FS_Subset, SumInteger
  <2>2. CASE T = {}
    <3>1. F({}) = 0
      BY FS_EmptySet, SumEquation
    <3> QED
      BY <2>2, <3>1
  <2>3. CASE T # {}
    <3>1. 0 <= F(T)
      <4>1. Any(T) \in T
        BY <2>3 DEF Any
      <4>2. F(T) = f[Any(T)] + F(T \ {Any(T)}) /\ 0 <= F(T \ {Any(T)})
        BY <1>1, <2>1, <4>1, SumWithout
      <4> QED
        BY <2>1, <4>1, <4>2
    <3>2. ASSUME NEW Q \in SUBSET T, Q # T
          PROVE  0 <= F(Q) /\ F(Q) <= F(T)
      <4>1. PICK x \in T : x \notin Q
        BY <3>2
      <4>2. F(T) = f[x] + F(T \ {x})
        BY <2>1, <4>1, SumWithout
      <4>3. 0 <= F(Q) /\ F(Q) <= F(T \ {x})
        BY <1>1, <4>1
      <4> QED
        BY <2>1, <4>1, <4>2, <4>3
    <3> QED
      BY <2>1, <3>1, <3>2
  <2> QED
    BY <2>2, <2>3
<1> HIDE DEF U
<1>2. S \in U
  BY <1>1, FiniteSetInduction
<1> QED
  BY <1>2 DEF U

\* A sum of amounts that has any is more than zero.
LEMMA SumPositive ==
    ASSUME NEW S, IsFiniteSet(S), NEW f, \A x \in S : f[x] \in Nat \ {0}
    PROVE  SumFunctionOnSet(f, S) = 0 <=> S = {}
<1>1. CASE S = {}
  BY <1>1, FS_EmptySet, SumEquation
<1>2. CASE S # {}
  <2>1. PICK x \in S : TRUE
    BY <1>2
  <2>2. SumFunctionOnSet(f, S) = f[x] + SumFunctionOnSet(f, S \ {x})
    BY SumWithout
  <2>3. 0 <= SumFunctionOnSet(f, S \ {x}) /\ SumFunctionOnSet(f, S \ {x}) \in Int
    <3>1. \A y \in S : f[y] \in Nat
      OBVIOUS
    <3>2. IsFiniteSet(S \ {x}) /\ \A y \in S \ {x} : f[y] \in Int
      BY <3>1, FS_Subset
    <3>3. SumFunctionOnSet(f, S \ {x}) \in Int
      BY <3>2, SumInteger
    <3> QED
      BY <3>1, <3>3, SumBelow
  <2> QED
    BY <1>2, <2>2, <2>3
<1> QED
  BY <1>1, <1>2

\* Below 2^53 no number is rounded.
LEMMA RoundSmall ==
    ASSUME NEW n \in Nat, n < Significands
    PROVE  Round(n) = n
<1> USE BalanceCheckAssumption
<1> DEFINE U == 1..(n + 1)
           IsUnit(u) == /\ IsPower(u) /\ n < u * Significands
                        /\ u = 1 \/ n >= (u \div 2) * Significands
<1>1. 1 \in U /\ IsUnit(1)
  <2>1. 1 = 2^0 /\ 0 \in 0..1
    OBVIOUS
  <2>2. IsPower(1)
    BY <2>1 DEF IsPower
  <2> QED
    BY <2>2
<1>2. ASSUME NEW u \in U, IsUnit(u)
      PROVE  u = 1
  <2> SUFFICES ASSUME u # 1 PROVE FALSE
    OBVIOUS
  <2> DEFINE h == u \div 2
  <2>1. h \in Nat /\ h >= 1
    OBVIOUS
  <2> HIDE DEF h
  <2>2. h * Significands >= Significands
    BY <2>1
  <2>3. n >= h * Significands
    BY <1>2 DEF h
  <2> QED
    BY <2>1, <2>2, <2>3
<1>3. Unit(n) = 1
  <2> HIDE DEF U, IsUnit
  <2>1. (CHOOSE u \in U : IsUnit(u)) = 1
    BY <1>1, <1>2
  <2> QED
    BY <2>1 DEF Unit, U, IsUnit
<1>4. n \div 1 = n /\ 2 * (n % 1) = 0 /\ n * 1 = n /\ ~(n < 0)
  OBVIOUS
<1> QED
  BY <1>3, <1>4 DEF Round

-----------------------------------------------------------------------------
(* What is in the postings table.                                          *)

\* Rows are those of the transfers and the slips, of each at most one by its amount.
RowsTyped ==
    /\ IsFiniteSet(posting) /\ now \in Nat
    /\ \A p \in posting : /\ p.of \in Transactions \cup Slips
                          /\ p.amount = Amount[p.of] \/ (p.of \in Transactions /\ p.amount = -Amount[p.of])
    /\ \A p, q \in posting : p.of = q.of /\ p.amount = q.amount => p = q

\* Of any two one is older.
RowsOrdered ==
    /\ older \subseteq posting \X posting
    /\ \A p \in posting : <<p, p>> \notin older
    /\ \A p, q \in posting : p # q => <<p, q>> \in older \/ <<q, p>> \in older
    /\ \A p, q, r \in posting : <<p, q>> \in older /\ <<q, r>> \in older => <<p, r>> \in older

IsDebit(p, x) == p.of = x /\ p.amount = -Amount[x]
IsCredit(p, x) == p.of = x /\ p.amount = Amount[x]

\* A transfer that is booked has a debit and a younger credit, and so has a
\* transaction that is past both.
RowsOf(x) ==
    \/ pc[x] \in {"idle", "createDebit"} /\ x \notin done /\ Rows(x) = {}
    \/ pc[x] = "createCredit" /\ x \notin done /\ \E d \in Rows(x) : IsDebit(d, x) /\ Rows(x) = {d}
    \/ /\ pc[x] \in {"updatePayer", "updatePayee", "updateJournal", "commit"} \/ x \in done
       /\ \E d, c \in Rows(x) : IsDebit(d, x) /\ IsCredit(c, x) /\ <<d, c>> \in older

RowsComplete == \A x \in Transactions : RowsOf(x)

RowsInv == RowsTyped /\ RowsOrdered /\ RowsComplete /\ done \subseteq Transactions

\* What a reader sees of the table.
Committed == {p \in posting : p.of \in done \cup Slips}

\* Nothing of what was committed is lost or changes its order, and what slips is
\* dated now.
CommittedKept ==
    /\ Committed \subseteq Committed'
    /\ older \cap (Committed \X Committed) \subseteq older'
    /\ \A x \in Slips : Rows(x) \subseteq Rows(x)' /\ \A p \in Rows(x)' \ Rows(x) : p.at = now

\* No rows at first.
LEMMA RowsInit == BalanceInit => RowsInv
BY FS_EmptySet DEF BalanceInit, BookingInit, RowsInv, RowsTyped, RowsOrdered, RowsComplete, RowsOf, Rows

\* A row that is new is younger than all others.
LEMMA RowCreated ==
    ASSUME RowsTyped, RowsOrdered, NEW x, NEW amount, NEW at, CreatePosting(x, amount, at), now' = now,
           x \in Transactions \cup Slips,
           amount = Amount[x] \/ (x \in Transactions /\ amount = -Amount[x]),
           \A p \in Rows(x) : p.amount # amount
    PROVE  \E row : /\ row.of = x /\ row.amount = amount /\ row.at = at /\ row \notin posting
                    /\ posting' = posting \cup {row} /\ older' = older \cup (posting \X {row})
                    /\ RowsTyped' /\ RowsOrdered'
<1>1. PICK row : row = [of |-> x, amount |-> amount, at |-> at]
  OBVIOUS
<1>2. /\ row.of = x /\ row.amount = amount /\ row.at = at
      /\ posting' = posting \cup {row} /\ older' = older \cup (posting \X {row})
  BY <1>1 DEF CreatePosting
<1>3. row \notin posting
  BY <1>2 DEF Rows
<1>4. RowsTyped'
  <2>1. IsFiniteSet(posting')
    BY <1>2, FS_AddElement DEF RowsTyped
  <2> QED
    BY <1>2, <1>3, <2>1 DEF RowsTyped, Rows
<1>5. RowsOrdered'
  BY <1>2, <1>3 DEF RowsOrdered
<1> QED
  BY <1>2, <1>3, <1>4, <1>5

\* A transfer that a step is not about.
LEMMA RowsOfOther ==
    ASSUME NEW y \in Transactions, RowsOf(y), pc'[y] = pc[y], Rows(y)' = Rows(y), y \in done' <=> y \in done,
           older \cap (Rows(y) \X Rows(y)) \subseteq older'
    PROVE  RowsOf(y)'
<1>1. \A d, c \in Rows(y) : <<d, c>> \in older => <<d, c>> \in older'
  OBVIOUS
<1> QED
  BY <1>1 DEF RowsOf, IsDebit, IsCredit

\* A transaction that rolls back takes its own rows with it.
LEMMA RowsRolledBack ==
    ASSUME BookingInv, RowsInv, NEW x \in Transactions, x \notin done, Rollback(x), now' = now
    PROVE  RowsInv' /\ CommittedKept
<1>1. /\ posting' = {p \in posting : p.of # x}
      /\ older' = older \cap (posting' \X posting')
      /\ pc' = [pc EXCEPT ![x] = "idle"] /\ done' = done
  BY DEF Rollback, Rows, Goto
<1>2. RowsTyped'
  <2>1. IsFiniteSet(posting')
    BY <1>1, FS_Subset DEF RowsInv, RowsTyped
  <2> QED
    BY <1>1, <2>1 DEF RowsInv, RowsTyped
<1>3. RowsOrdered'
  BY <1>1 DEF RowsInv, RowsOrdered
<1>4. RowsComplete'
  <2> SUFFICES ASSUME NEW y \in Transactions PROVE RowsOf(y)'
    BY DEF RowsComplete
  <2>1. CASE y = x
    BY <1>1, <2>1 DEF Rows, RowsOf, BookingInv, BookingTypeOK
  <2>2. CASE y # x
    <3>1. pc'[y] = pc[y] /\ Rows(y)' = Rows(y)
      BY <1>1, <2>2 DEF Rows, BookingInv, BookingTypeOK
    <3>2. older \cap (Rows(y) \X Rows(y)) \subseteq older'
      BY <1>1, <2>2 DEF Rows
    <3> QED
      BY <1>1, <3>1, <3>2, RowsOfOther DEF RowsInv, RowsComplete
  <2> QED
    BY <2>1, <2>2
<1>5. CommittedKept
  BY <1>1, BalanceCheckAssumption DEF CommittedKept, Committed, Rows
<1> QED
  BY <1>1, <1>2, <1>3, <1>4, <1>5 DEF RowsInv

\* The first statement: the transfer has its debit.
LEMMA DebitCreated ==
    ASSUME BookingInv, RowsInv, NEW x \in Transactions, CreateDebit(x, now), now' = now
    PROVE  RowsInv' /\ CommittedKept
<1> USE BalanceCheckAssumption, BookingAssumption
<1>1. /\ CreatePosting(x, -Amount[x], now) /\ pc[x] = "createDebit" /\ Rows(x) = {} /\ x \notin done
      /\ pc' = [pc EXCEPT ![x] = "createCredit"] /\ done' = done
  BY DEF CreateDebit, CreatePosting, Goto, RowsInv, RowsComplete, RowsOf, BookingInv, BookedOnce
<1>2. PICK row : /\ row.of = x /\ row.amount = -Amount[x] /\ row.at = now /\ row \notin posting
                 /\ posting' = posting \cup {row} /\ older' = older \cup (posting \X {row})
                 /\ RowsTyped' /\ RowsOrdered'
  BY <1>1, RowCreated DEF RowsInv
<1>3. RowsComplete'
  <2> SUFFICES ASSUME NEW y \in Transactions PROVE RowsOf(y)'
    BY DEF RowsComplete
  <2>1. CASE y = x
    <3>1. pc'[x] = "createCredit" /\ Rows(x)' = {row}
      BY <1>1, <1>2 DEF Rows, BookingInv, BookingTypeOK
    <3> QED
      BY <1>1, <1>2, <2>1, <3>1 DEF RowsOf, IsDebit
  <2>2. CASE y # x
    <3>1. pc'[y] = pc[y] /\ Rows(y)' = Rows(y)
      BY <1>1, <1>2, <2>2 DEF Rows, BookingInv, BookingTypeOK
    <3> QED
      BY <1>1, <1>2, <3>1, RowsOfOther DEF RowsInv, RowsComplete
  <2> QED
    BY <2>1, <2>2
<1>4. CommittedKept
  BY <1>1, <1>2 DEF CommittedKept, Committed, Rows
<1> QED
  BY <1>1, <1>2, <1>3, <1>4 DEF RowsInv

\* The second statement: the credit is younger than the debit.
LEMMA CreditCreated ==
    ASSUME BookingInv, RowsInv, NEW x \in Transactions, CreateCredit(x, now), now' = now
    PROVE  RowsInv' /\ CommittedKept
<1> USE BalanceCheckAssumption, BookingAssumption
<1>1. /\ CreatePosting(x, Amount[x], now) /\ pc[x] = "createCredit" /\ x \notin done
      /\ pc' = [pc EXCEPT ![x] = "updatePayer"] /\ done' = done
  BY DEF CreateCredit, CreatePosting, Goto, BookingInv, BookedOnce
<1>2. PICK d \in Rows(x) : IsDebit(d, x) /\ Rows(x) = {d}
  BY <1>1 DEF RowsInv, RowsComplete, RowsOf
<1>3. \A p \in Rows(x) : p.amount # Amount[x]
  BY <1>2 DEF IsDebit
<1>4. PICK row : /\ row.of = x /\ row.amount = Amount[x] /\ row.at = now /\ row \notin posting
                 /\ posting' = posting \cup {row} /\ older' = older \cup (posting \X {row})
                 /\ RowsTyped' /\ RowsOrdered'
  BY <1>1, <1>3, RowCreated DEF RowsInv
<1>5. RowsComplete'
  <2> SUFFICES ASSUME NEW y \in Transactions PROVE RowsOf(y)'
    BY DEF RowsComplete
  <2>1. CASE y = x
    <3>1. pc'[x] = "updatePayer" /\ d \in Rows(x)' /\ row \in Rows(x)' /\ <<d, row>> \in older'
      BY <1>1, <1>2, <1>4 DEF Rows, BookingInv, BookingTypeOK
    <3> QED
      BY <1>1, <1>2, <1>4, <2>1, <3>1 DEF RowsOf, IsDebit, IsCredit
  <2>2. CASE y # x
    <3>1. pc'[y] = pc[y] /\ Rows(y)' = Rows(y)
      BY <1>1, <1>4, <2>2 DEF Rows, BookingInv, BookingTypeOK
    <3> QED
      BY <1>1, <1>4, <3>1, RowsOfOther DEF RowsInv, RowsComplete
  <2> QED
    BY <2>1, <2>2
<1>6. CommittedKept
  BY <1>1, <1>4 DEF CommittedKept, Committed, Rows
<1> QED
  BY <1>1, <1>4, <1>5, <1>6 DEF RowsInv

\* The other statements leave the postings as they are; a commit shows them.
LEMMA RowsOfStatement ==
    ASSUME BookingInv, RowsInv, NEW x \in Transactions, UNCHANGED <<postings, now>>,
           NEW next, pc' = [pc EXCEPT ![x] = next],
           \/ pc[x] = "idle" /\ x \notin done /\ next = "createDebit" /\ done' = done
           \/ /\ pc[x] \in {"updatePayer", "updatePayee", "updateJournal"}
              /\ next \in {"updatePayee", "updateJournal", "commit"} /\ done' = done
           \/ pc[x] = "commit" /\ done' = done \cup {x}
    PROVE  RowsInv' /\ CommittedKept
<1>1. posting' = posting /\ older' = older /\ done \subseteq done'
  BY DEF postings
<1>2. RowsTyped' /\ RowsOrdered'
  BY <1>1 DEF RowsInv, RowsTyped, RowsOrdered
<1>3. RowsComplete'
  <2> SUFFICES ASSUME NEW y \in Transactions PROVE RowsOf(y)'
    BY DEF RowsComplete
  <2>1. Rows(y)' = Rows(y)
    BY <1>1 DEF Rows
  <2>2. CASE y = x
    <3>1. pc'[x] = next /\ RowsOf(x)
      BY DEF RowsInv, RowsComplete, BookingInv, BookingTypeOK
    <3> QED
      BY <1>1, <2>1, <2>2, <3>1 DEF RowsOf, IsDebit, IsCredit
  <2>3. CASE y # x
    <3>1. pc'[y] = pc[y] /\ (y \in done' <=> y \in done)
      BY <2>3 DEF BookingInv, BookingTypeOK
    <3> QED
      BY <1>1, <2>1, <3>1, RowsOfOther DEF RowsInv, RowsComplete
  <2> QED
    BY <2>2, <2>3
<1>4. CommittedKept
  BY <1>1 DEF CommittedKept, Committed, Rows
<1> QED
  BY <1>2, <1>3, <1>4 DEF RowsInv

\* A slip is committed at once.
LEMMA RowSlipped ==
    ASSUME BookingInv, RowsInv, NEW x \in Slips, Slip(x)
    PROVE  RowsInv' /\ CommittedKept
<1> USE BalanceCheckAssumption
<1>1. /\ CreatePosting(x, Amount[x], now) /\ Rows(x) = {} /\ UNCHANGED <<pc, done, now>>
      /\ x \notin Transactions
  BY DEF Slip, CreatePosting
<1>2. PICK row : /\ row.of = x /\ row.amount = Amount[x] /\ row.at = now /\ row \notin posting
                 /\ posting' = posting \cup {row} /\ older' = older \cup (posting \X {row})
                 /\ RowsTyped' /\ RowsOrdered'
  BY <1>1, RowCreated DEF RowsInv
<1>3. RowsComplete'
  <2> SUFFICES ASSUME NEW y \in Transactions PROVE RowsOf(y)'
    BY DEF RowsComplete
  <2>1. pc'[y] = pc[y] /\ Rows(y)' = Rows(y)
    BY <1>1, <1>2 DEF Rows
  <2> QED
    BY <1>1, <1>2, <2>1, RowsOfOther DEF RowsInv, RowsComplete
<1>4. CommittedKept
  BY <1>1, <1>2 DEF CommittedKept, Committed, Rows
<1> QED
  BY <1>1, <1>2, <1>3, <1>4 DEF RowsInv

\* Steps that leave postings and transactions as they are.
LEMMA RowsUnchanged ==
    ASSUME RowsInv, UNCHANGED <<postings, done, pc>>, now' \in Nat
    PROVE  RowsInv' /\ CommittedKept
<1>1. posting' = posting /\ older' = older /\ done' = done /\ pc' = pc
  BY DEF postings
<1>2. RowsTyped' /\ RowsOrdered'
  BY <1>1 DEF RowsInv, RowsTyped, RowsOrdered
<1>3. RowsComplete'
  BY <1>1 DEF RowsInv, RowsComplete, RowsOf, Rows, IsDebit, IsCredit
<1>4. CommittedKept
  BY <1>1 DEF CommittedKept, Committed, Rows
<1> QED
  BY <1>1, <1>2, <1>3, <1>4 DEF RowsInv

\* Every step of a transaction, and of those beside it.
LEMMA RowsBook ==
    ASSUME BookingInv, RowsInv, Book(now), now' = now
    PROVE  RowsInv' /\ CommittedKept
<1>1. now \in Nat
  BY DEF RowsInv, RowsTyped
<1>2. ASSUME NEW x \in Transactions, Begin(x) PROVE RowsInv' /\ CommittedKept
  BY <1>2, RowsOfStatement DEF Begin, Goto, BookingInv, BookedOnce
<1>3. ASSUME NEW x \in Transactions, UpdatePayer(x) \/ UpdatePayee(x) \/ UpdateJournal(x)
      PROVE  RowsInv' /\ CommittedKept
  <2>1. PICK next : /\ pc' = [pc EXCEPT ![x] = next]
                    /\ next \in {"updatePayee", "updateJournal", "commit"}
    BY <1>3 DEF UpdatePayer, UpdatePayee, UpdateJournal, Goto
  <2>2. /\ pc[x] \in {"updatePayer", "updatePayee", "updateJournal"} /\ done' = done
        /\ UNCHANGED postings
    BY <1>3 DEF UpdatePayer, UpdatePayee, UpdateJournal, UpdateBalance
  <2> QED
    BY <2>1, <2>2, RowsOfStatement
<1>4. ASSUME NEW x \in Transactions, Commit(x) PROVE RowsInv' /\ CommittedKept
  BY <1>4, RowsOfStatement DEF Commit, Goto
<1>5. ASSUME NEW x \in Transactions, Rollback(x), pc[x] # "idle" PROVE RowsInv' /\ CommittedKept
  BY <1>5, RowsRolledBack DEF BookingInv, BookedOnce
<1>6. ASSUME NEW x \in Transactions, Proceed(x, now) PROVE RowsInv' /\ CommittedKept
  BY <1>3, <1>4, <1>6, DebitCreated, CreditCreated DEF Proceed
<1>7. ASSUME Detect PROVE RowsInv' /\ CommittedKept
  <2>1. PICK x \in Transactions : Rollback(x) /\ WaitsFor(x) # {}
    BY <1>7 DEF Detect, Deadlocked
  <2>2. pc[x] # "idle"
    BY <2>1 DEF WaitsFor
  <2> QED
    BY <1>5, <2>1, <2>2
<1>8. ASSUME \/ \E j \in Disputed : Cancel(j)
             \/ \E a \in Closing : Close(a)
      PROVE  RowsInv' /\ CommittedKept
  BY <1>1, <1>8, RowsUnchanged DEF Cancel, Close
<1> QED
  BY <1>2, <1>5, <1>6, <1>7, <1>8 DEF Book, Fail

LEMMA RowsStep ==
    ASSUME BookingInv, RowsInv, [BalanceNext]_balanceVars
    PROVE  RowsInv' /\ CommittedKept
<1>1. now \in Nat /\ now + 1 \in Nat
  BY DEF RowsInv, RowsTyped
<1>2. CASE Booked
  BY <1>2, RowsBook DEF Booked
<1>3. CASE Pass \/ StartCheck \/ Finish \/ CheckFailed \/ UNCHANGED balanceVars
  BY <1>1, <1>3, RowsUnchanged DEF Pass, StartCheck, Finish, CheckFailed, balanceVars, bookingVars
<1> QED
  BY <1>2, <1>3, RowSlipped DEF BalanceNext

-----------------------------------------------------------------------------
(* What a check found stays true of its timespan.                          *)

\* CheckTrue, said of what was committed: this does not change any more, except
\* that transfers are booked later and may then be cut, or alternate with others.
CutThen(to) == \E p, q \in Committed : p.of = q.of /\ Dated(p, to) /\ ~Dated(q, to)
MixedThen(to) == \E p, q, r \in Committed : /\ <<p, q>> \in older /\ <<q, r>> \in older
                                            /\ Dated(p, to) /\ p.of = r.of /\ q.of \in Transactions
FitsThen(to) == /\ SumFunctionOnSet(Amount, Slipped(to)) < Significands
                /\ \A p \in Committed : Dated(p, to) /\ p.of \in Transactions
                     => SumFunctionOnSet(Amount, Slipped(to)) + Amount[p.of] < Significands

Accounted(to) == \/ CutThen(to) \/ MixedThen(to)
                 \/ /\ to \in mails => Slipped(to) # {}
                    /\ Slipped(to) # {} /\ FitsThen(to) => to \in mails

\* A check is of a timespan that has ended.
ChecksInv == /\ running \in Int /\ running < now
             /\ mails \subseteq checks
             /\ \A to \in checks : to \in Int /\ to < now /\ Accounted(to)

\* Nothing slips any more into a timespan that has ended.
LEMMA SlippedKept ==
    ASSUME RowsInv, CommittedKept, NEW to \in Int, to < now
    PROVE  Slipped(to)' = Slipped(to)
<1>1. ASSUME NEW x \in Slips
      PROVE  (\E p \in Rows(x)' : Dated(p, to)) <=> (\E p \in Rows(x) : Dated(p, to))
  <2>1. Rows(x) \subseteq Rows(x)' /\ \A p \in Rows(x)' \ Rows(x) : p.at = now
    BY DEF CommittedKept
  <2>2. now \in Nat
    BY DEF RowsInv, RowsTyped
  <2>3. \A p \in Rows(x)' \ Rows(x) : ~Dated(p, to)
    BY <2>1, <2>2 DEF Dated
  <2> QED
    BY <2>1, <2>3
<1> QED
  BY <1>1 DEF Slipped, Dated

\* What is committed grows: what is cut stays cut, what alternates goes on to,
\* and what does not fit does not fit later.
LEMMA AccountedKept ==
    ASSUME RowsInv, CommittedKept, NEW to \in Int, to < now, to \in mails' <=> to \in mails, Accounted(to)
    PROVE  Accounted(to)'
<1>1. \A p \in Committed : p \in Committed'
  BY DEF CommittedKept
<1>2. \A p, q \in Committed : <<p, q>> \in older => <<p, q>> \in older'
  BY DEF CommittedKept
<1>3. CutThen(to) => CutThen(to)'
  BY <1>1 DEF CutThen, Dated
<1>4. MixedThen(to) => MixedThen(to)'
  BY <1>1, <1>2 DEF MixedThen, Dated
<1>5. Slipped(to)' = Slipped(to)
  BY SlippedKept
<1>6. FitsThen(to)' => FitsThen(to)
  BY <1>1, <1>5 DEF FitsThen, Dated
<1> QED
  BY <1>3, <1>4, <1>5, <1>6 DEF Accounted

\* What was checked implies what CheckTrue says of it.
LEMMA AccountedTrue ==
    ASSUME RowsInv, ChecksInv
    PROVE  CheckTrue
<1> SUFFICES ASSUME NEW to \in checks, Cut(to) = {}, ~Mixed(to)
             PROVE  /\ to \in mails => Slipped(to) # {}
                    /\ Slipped(to) # {} /\ Fits(to) => to \in mails
  BY DEF CheckTrue
<1>1. Accounted(to)
  BY DEF ChecksInv
<1>2. ~CutThen(to)
  <2> SUFFICES ASSUME NEW p \in posting, NEW q \in posting, p.of = q.of, Dated(p, to), ~Dated(q, to)
               PROVE  FALSE
    BY DEF CutThen, Committed
  <2>1. p.of \in Transactions
    <3> SUFFICES ASSUME p.of \notin Transactions PROVE FALSE
      OBVIOUS
    <3>1. p.amount = Amount[p.of] /\ q.amount = Amount[q.of]
      BY DEF RowsInv, RowsTyped
    <3> QED
      BY <3>1 DEF RowsInv, RowsTyped
  <2> QED
    BY <2>1 DEF Cut, Rows
<1>3. ~MixedThen(to)
  BY DEF MixedThen, Mixed, Committed
<1>4. Fits(to) => FitsThen(to)
  BY DEF Fits, FitsThen, Committed
<1> QED
  BY <1>1, <1>2, <1>3, <1>4 DEF Accounted

-----------------------------------------------------------------------------
(* The sum of a check.                                                     *)

\* Of some rows one is the oldest.
LEMMA OldestTaken ==
    ASSUME RowsInv, NEW S \in SUBSET posting
    PROVE  /\ IsFiniteSet(S) /\ Takes(TRUE, S)
           /\ S # {} => Oldest(S) \in S /\ \A q \in S \ {Oldest(S)} : <<Oldest(S), q>> \in older
<1> DEFINE First(T) == \E p \in T : \A q \in T \ {p} : <<p, q>> \in older
<1>1. ASSUME NEW B \in SUBSET posting
      PROVE  IsFiniteSet(B) /\ (B # {} => First(B))
  <2> DEFINE U == {T \in SUBSET B : T # {} => First(T)}
  <2>1. ASSUME NEW T \in SUBSET B, \A R \in SUBSET T : R # T => R \in U
        PROVE  T \in U
    <3> SUFFICES ASSUME T # {} PROVE First(T)
      OBVIOUS
    <3>1. PICK x \in T : TRUE
      OBVIOUS
    <3>2. CASE T = {x}
      BY <3>2
    <3>3. CASE T # {x}
      <4>0. T \ {x} \in U /\ T \ {x} # {}
        BY <2>1, <3>1, <3>3
      <4>1. PICK p \in T \ {x} : \A q \in (T \ {x}) \ {p} : <<p, q>> \in older
        BY <4>0
      <4>2. /\ p \in posting /\ x \in posting /\ \A q \in T : q \in posting
            /\ <<p, x>> \in older \/ <<x, p>> \in older
        BY <3>1, <4>1 DEF RowsInv, RowsOrdered
      <4>3. CASE <<p, x>> \in older
        BY <4>1, <4>3
      <4>4. CASE <<x, p>> \in older
        <5>1. \A q \in T \ {x} : <<x, q>> \in older
          BY <4>1, <4>2, <4>4 DEF RowsInv, RowsOrdered
        <5> QED
          BY <5>1
      <4> QED
        BY <4>2, <4>3, <4>4
    <3> QED
      BY <3>2, <3>3
  <2> HIDE DEF U
  <2>2. IsFiniteSet(B)
    BY FS_Subset DEF RowsInv, RowsTyped
  <2>3. B \in U
    BY <2>1, <2>2, FiniteSetInduction
  <2> QED
    BY <2>2, <2>3 DEF U
<1>2. ASSUME NEW B \in SUBSET posting, B # {}
      PROVE  Oldest(B) \in B /\ \A q \in B \ {Oldest(B)} : <<Oldest(B), q>> \in older
  BY <1>1, <1>2 DEF Oldest
<1>3. Takes(TRUE, S)
  BY <1>2 DEF Takes, Taken
<1> QED
  BY <1>1, <1>2, <1>3

\* Rows of a check that lack no younger ones.
Latest(T, to) == /\ T \subseteq FindInRange(to)
                 /\ \A p \in T, q \in FindInRange(to) : <<p, q>> \in older => q \in T

\* What these add up to: what slipped, and the transfer whose credit is among
\* them and whose debit is not.
SlipsIn(T) == {x \in Slips : \E p \in T : p.of = x}
OpenIn(T) == {x \in Transactions : (\E p \in T : IsCredit(p, x)) /\ \A p \in T : ~IsDebit(p, x)}
Outstanding(T) == SlipsIn(T) \cup OpenIn(T)

\* A check sees both postings of a transfer.
LEMMA BothSeen ==
    ASSUME RowsInv, NEW to, ~CutThen(to), NEW p \in FindInRange(to), NEW x \in Transactions, p.of = x
    PROVE  /\ \E d, c \in FindInRange(to) : IsDebit(d, x) /\ IsCredit(c, x) /\ <<d, c>> \in older
           /\ IsDebit(p, x) \/ IsCredit(p, x)
<1>1. p \in Committed /\ Dated(p, to) /\ x \in done /\ p \in posting
  BY BalanceCheckAssumption DEF FindInRange, Committed
<1>2. PICK d, c \in Rows(x) : IsDebit(d, x) /\ IsCredit(c, x) /\ <<d, c>> \in older
  BY <1>1 DEF RowsInv, RowsComplete, RowsOf
<1>3. d \in Committed /\ c \in Committed /\ d.of = p.of /\ c.of = p.of
  BY <1>1, <1>2 DEF Rows, Committed
<1>4. Dated(d, to) /\ Dated(c, to)
  BY <1>1, <1>3 DEF CutThen
<1>5. d \in FindInRange(to) /\ c \in FindInRange(to)
  BY <1>3, <1>4 DEF FindInRange, Committed
<1>6. IsDebit(p, x) \/ IsCredit(p, x)
  BY <1>1 DEF IsDebit, IsCredit, RowsInv, RowsTyped
<1> QED
  BY <1>2, <1>5, <1>6

\* A row is one of the two, and there is one of each.
LEMMA OneOfEach ==
    ASSUME RowsInv, NEW x \in Transactions, NEW p \in posting, NEW q \in posting
    PROVE  /\ IsDebit(p, x) /\ IsDebit(q, x) => p = q
           /\ IsCredit(p, x) /\ IsCredit(q, x) => p = q
           /\ ~(IsDebit(p, x) /\ IsCredit(p, x))
<1>1. Amount[x] \in Nat \ {0}
  BY BookingAssumption
<1> QED
  BY <1>1 DEF IsDebit, IsCredit, RowsInv, RowsTyped

\* Postings that do not alternate: at most one transfer at a time is open.
LEMMA OneOpen ==
    ASSUME RowsInv, NEW to, ~CutThen(to), ~MixedThen(to), NEW T, Latest(T, to),
           NEW x \in OpenIn(T), NEW y \in OpenIn(T)
    PROVE  x = y
<1>1. ASSUME NEW u \in OpenIn(T), NEW v \in OpenIn(T), NEW p \in T, NEW q \in T,
             IsCredit(p, u), IsCredit(q, v), <<p, q>> \in older
      PROVE  FALSE
  <2>1. /\ u \in Transactions /\ v \in Transactions /\ p.of = u /\ q.of = v
        /\ p \in FindInRange(to) /\ q \in FindInRange(to)
        /\ \A r \in T : ~IsDebit(r, v)
    BY <1>1 DEF OpenIn, IsCredit, Latest
  <2>2. PICK d, c \in FindInRange(to) : IsDebit(d, v) /\ IsCredit(c, v) /\ <<d, c>> \in older
    BY <2>1, BothSeen
  <2>3. /\ p \in posting /\ q \in posting /\ d \in posting /\ c \in posting
        /\ p \in Committed /\ q \in Committed /\ d \in Committed /\ Dated(d, to)
    BY <2>1, <2>2 DEF FindInRange, Committed
  <2>4. c = q
    BY <1>1, <2>1, <2>2, <2>3, OneOfEach
  <2>5. d \notin T
    BY <2>1, <2>2
  <2>6. <<p, d>> \notin older /\ p # d
    BY <2>1, <2>2, <2>5 DEF Latest
  <2>7. <<d, p>> \in older
    BY <2>3, <2>6 DEF RowsInv, RowsOrdered
  <2>8. d.of = q.of
    BY <2>1, <2>2 DEF IsDebit
  <2> QED
    BY <1>1, <2>1, <2>3, <2>7, <2>8 DEF MixedThen
<1>2. PICK p \in T, q \in T : IsCredit(p, x) /\ IsCredit(q, y)
  BY DEF OpenIn
<1>3. p \in posting /\ q \in posting
  BY <1>2 DEF Latest, FindInRange
<1>4. p = q
  BY <1>1, <1>2, <1>3 DEF RowsInv, RowsOrdered
<1> QED
  BY <1>2, <1>4 DEF IsCredit

\* The rows but the oldest.
LEMMA LatestRest ==
    ASSUME RowsInv, NEW to, NEW T, Latest(T, to), T # {}
    PROVE  Latest(T \ {Oldest(T)}, to)
<1>1. T \subseteq posting
  BY DEF Latest, FindInRange
<1>2. Oldest(T) \in T /\ \A q \in T \ {Oldest(T)} : <<Oldest(T), q>> \in older
  BY <1>1, OldestTaken
<1>3. \A q \in T \ {Oldest(T)} : <<q, Oldest(T)>> \notin older
  BY <1>1, <1>2 DEF RowsInv, RowsOrdered
<1> QED
  BY <1>3 DEF Latest

\* The rows of a check are the younger ones and the oldest, whose amount is added
\* to what these add up to: it opens a transfer, settles the open one, or slipped.
LEMMA OutstandingStep ==
    ASSUME RowsInv, NEW to, ~CutThen(to), NEW T, Latest(T, to), T # {},
           NEW e, e = Oldest(T), NEW R, R = T \ {e}
    PROVE  \/ /\ e.of \in Outstanding(T) /\ Outstanding(R) = Outstanding(T) \ {e.of}
              /\ e.amount = Amount[e.of]
           \/ /\ e.of \in Outstanding(R) /\ Outstanding(T) = Outstanding(R) \ {e.of}
              /\ e.amount = -Amount[e.of]
<1> DEFINE x == e.of
<1>1. T \subseteq posting /\ T \subseteq FindInRange(to)
  BY DEF Latest, FindInRange
<1>2. e \in T /\ \A q \in T \ {e} : <<e, q>> \in older
  BY <1>1, OldestTaken
<1>3. x \in Transactions \cup Slips /\ Transactions \cap Slips = {}
  BY <1>1, <1>2, BalanceCheckAssumption DEF RowsInv, RowsTyped
<1>4. ASSUME NEW y, y # x
      PROVE  y \in Outstanding(T) <=> y \in Outstanding(R)
  BY <1>4 DEF Outstanding, SlipsIn, OpenIn, IsDebit, IsCredit
<1>5. CASE x \in Slips
  <2>1. e.amount = Amount[x]
    BY <1>1, <1>2, <1>3, <1>5 DEF RowsInv, RowsTyped
  <2>2. x \in Outstanding(T)
    BY <1>2, <1>5 DEF Outstanding, SlipsIn
  <2>3. x \notin Outstanding(R)
    <3>1. \A q \in posting : q.of = x => q = e
      BY <1>1, <1>2, <1>3, <1>5, <2>1 DEF RowsInv, RowsTyped
    <3> QED
      BY <1>1, <1>3, <1>5, <3>1 DEF Outstanding, SlipsIn, OpenIn
  <2> QED
    BY <1>4, <2>1, <2>2, <2>3
<1>6. CASE x \in Transactions
  <2>1. PICK d, c \in FindInRange(to) : IsDebit(d, x) /\ IsCredit(c, x) /\ <<d, c>> \in older
    BY <1>1, <1>2, <1>6, BothSeen
  <2>2. d \in posting /\ c \in posting /\ e \in posting /\ <<c, d>> \notin older /\ d # c
    BY <1>1, <1>2, <2>1 DEF FindInRange, RowsInv, RowsOrdered
  <2>3. x \notin SlipsIn(T) /\ x \notin SlipsIn(R)
    BY <1>3, <1>6 DEF SlipsIn
  <2>4. CASE IsCredit(e, x)
    <3>1. e = c /\ d \notin T
      BY <1>2, <1>6, <2>1, <2>2, <2>4, OneOfEach
    <3>2. \A q \in T : ~IsDebit(q, x)
      BY <1>1, <1>6, <2>1, <2>2, <3>1, OneOfEach
    <3>3. \A q \in R : ~IsCredit(q, x)
      BY <1>1, <1>6, <2>2, <2>4, OneOfEach
    <3>4. x \in Outstanding(T) /\ x \notin Outstanding(R)
      BY <1>2, <1>6, <2>3, <2>4, <3>2, <3>3 DEF Outstanding, OpenIn
    <3> QED
      BY <1>4, <2>4, <3>4 DEF IsCredit
  <2>5. CASE IsDebit(e, x)
    <3>1. e = d
      BY <1>6, <2>1, <2>2, <2>5, OneOfEach
    <3>2. c \in R
      BY <1>2, <2>1, <2>2, <3>1 DEF Latest
    <3>3. \A q \in R : ~IsDebit(q, x)
      BY <1>1, <1>6, <2>2, <2>5, OneOfEach
    <3>4. x \in Outstanding(R) /\ x \notin Outstanding(T)
      BY <1>2, <1>6, <2>1, <2>3, <2>5, <3>2, <3>3 DEF Outstanding, OpenIn
    <3> QED
      BY <1>4, <2>5, <3>4 DEF IsDebit
  <2> QED
    BY <1>1, <1>2, <1>6, <2>4, <2>5, BothSeen
<1> QED
  BY <1>3, <1>5, <1>6

\* What is outstanding are amounts, of finitely many.
LEMMA OutstandingAmounts ==
    ASSUME RowsInv, NEW T \in SUBSET posting
    PROVE  /\ IsFiniteSet(Outstanding(T)) /\ IsFiniteSet(SlipsIn(T)) /\ IsFiniteSet(OpenIn(T))
           /\ \A x \in Outstanding(T) : Amount[x] \in Nat \ {0} /\ Amount[x] \in Int
<1>1. IsFiniteSet(T)
  BY OldestTaken
<1>2. IsFiniteSet({p.of : p \in T})
  <2> DEFINE f == [p \in T |-> p.of]
  <2>1. f \in Surjection(T, {p.of : p \in T})
    BY DEF Surjection
  <2> QED
    BY <1>1, <2>1, FS_Surjection
<1>3. /\ Outstanding(T) \subseteq {p.of : p \in T}
      /\ SlipsIn(T) \subseteq {p.of : p \in T} /\ OpenIn(T) \subseteq {p.of : p \in T}
  BY DEF Outstanding, SlipsIn, OpenIn, IsCredit
<1>4. \A x \in Outstanding(T) : Amount[x] \in Nat \ {0}
  BY BookingAssumption, BalanceCheckAssumption DEF Outstanding, SlipsIn, OpenIn
<1> QED
  BY <1>2, <1>3, <1>4, FS_Subset

\* Nothing on the way is rounded.
LEMMA OutstandingExact ==
    ASSUME RowsInv, NEW to, ~CutThen(to), ~MixedThen(to), Slipped(to) = {} \/ FitsThen(to),
           NEW T, Latest(T, to)
    PROVE  Round(SumFunctionOnSet(Amount, Outstanding(T))) = SumFunctionOnSet(Amount, Outstanding(T))
<1> DEFINE F(S) == SumFunctionOnSet(Amount, S)
           All == FindInRange(to)
<1> USE BalanceCheckAssumption
<1>1. T \subseteq posting /\ All \subseteq posting /\ T \subseteq All
  BY DEF Latest, FindInRange
<1>2. /\ IsFiniteSet(Outstanding(T)) /\ IsFiniteSet(SlipsIn(T)) /\ IsFiniteSet(SlipsIn(All))
      /\ \A x \in Outstanding(T) : Amount[x] \in Nat \ {0} /\ Amount[x] \in Int
      /\ \A x \in SlipsIn(All) : Amount[x] \in Nat /\ Amount[x] \in Int
  <2>1. \A x \in SlipsIn(All) : Amount[x] \in Nat /\ Amount[x] \in Int
    BY DEF SlipsIn
  <2> QED
    BY <1>1, <2>1, OutstandingAmounts
<1>3. SlipsIn(All) = Slipped(to) /\ SlipsIn(T) \subseteq SlipsIn(All)
  BY <1>1 DEF SlipsIn, Slipped, FindInRange, Rows
<1>4. F({}) = 0 /\ Round(0) = 0
  <2>1. F({}) = 0
    BY FS_EmptySet, SumEquation
  <2>2. Round(0) = 0
    BY RoundSmall
  <2> QED
    BY <2>1, <2>2
<1>5. /\ F(SlipsIn(T)) \in Int /\ F(SlipsIn(All)) \in Int
      /\ 0 <= F(SlipsIn(T)) /\ F(SlipsIn(T)) <= F(SlipsIn(All))
  BY <1>2, <1>3, SumBelow, SumInteger
<1>6. CASE OpenIn(T) = {}
  <2>1. Outstanding(T) = SlipsIn(T)
    BY <1>6 DEF Outstanding
  <2>2. CASE Slipped(to) = {}
    BY <1>3, <1>4, <2>1, <2>2
  <2>3. CASE FitsThen(to)
    <3>1. F(SlipsIn(T)) < Significands
      BY <1>3, <1>5, <2>3 DEF FitsThen
    <3> QED
      BY <1>5, <2>1, <3>1, RoundSmall
  <2> QED
    BY <2>2, <2>3
<1>7. CASE OpenIn(T) # {}
  <2>1. PICK x \in OpenIn(T) : TRUE
    BY <1>7
  <2>2. OpenIn(T) = {x} /\ x \in Transactions /\ x \notin Slips
    BY <2>1, OneOpen DEF OpenIn
  <2>3. Outstanding(T) \ {x} = SlipsIn(T) /\ x \in Outstanding(T)
    BY <2>2 DEF Outstanding, SlipsIn
  <2>4. F(Outstanding(T)) = Amount[x] + F(SlipsIn(T))
    BY <1>2, <2>3, SumWithout
  <2>5. Amount[x] \in Nat
    BY <1>2, <2>3
  <2>6. CASE Slipped(to) = {}
    BY <1>3, <1>4, <2>2, <2>4, <2>5, <2>6, AmountsRepresented
  <2>7. CASE FitsThen(to)
    <3>1. PICK p \in T : p.of = x
      BY <2>1 DEF OpenIn, IsCredit
    <3>2. p \in Committed /\ Dated(p, to)
      BY <1>1, <3>1 DEF FindInRange, Committed
    <3>3. F(SlipsIn(All)) + Amount[x] < Significands
      BY <1>3, <2>2, <2>7, <3>1, <3>2 DEF FitsThen
    <3>4. F(Outstanding(T)) \in Nat /\ F(Outstanding(T)) < Significands
      BY <1>5, <2>4, <2>5, <3>3
    <3> QED
      BY <3>4, RoundSmall
  <2> QED
    BY <2>6, <2>7
<1> QED
  BY <1>6, <1>7

\* As the rows are added up, latest first, the sum is what is outstanding.
LEMMA SumOutstanding ==
    ASSUME RowsInv, NEW to, ~CutThen(to), ~MixedThen(to), Slipped(to) = {} \/ FitsThen(to)
    PROVE  Sum(FindInRange(to)) = SumFunctionOnSet(Amount, Outstanding(FindInRange(to)))
<1> DEFINE All == FindInRange(to)
           F(S) == SumFunctionOnSet(Amount, S)
           U == {T \in SUBSET All : Latest(T, to) => Sum(T) = F(Outstanding(T))}
<1>1. ASSUME NEW T \in SUBSET All, \A R \in SUBSET T : R # T => R \in U
      PROVE  T \in U
  <2> SUFFICES ASSUME Latest(T, to) PROVE Sum(T) = F(Outstanding(T))
    OBVIOUS
  <2>1. T \subseteq posting
    BY DEF FindInRange
  <2>2. IsFiniteSet(T) /\ Takes(TRUE, T)
    BY <2>1, OldestTaken
  <2>3. Sum(T) = IF T = {} THEN 0 ELSE Round(Sum(T \ {Oldest(T)}) + Oldest(T).amount)
    BY <2>2, RoundedEquation
  <2>4. CASE T = {}
    <3>1. Outstanding(T) = {}
      BY <2>4 DEF Outstanding, SlipsIn, OpenIn
    <3> QED
      BY <2>3, <2>4, <3>1, FS_EmptySet, SumEquation
  <2>5. CASE T # {}
    <3>1. PICK e, R : e = Oldest(T) /\ R = T \ {e}
      OBVIOUS
    <3>2. e \in T /\ R \in SUBSET T /\ R # T /\ R \subseteq posting
      BY <2>1, <2>5, <3>1, OldestTaken
    <3>3. Sum(R) = F(Outstanding(R))
      BY <1>1, <2>5, <3>1, <3>2, LatestRest
    <3>4. /\ IsFiniteSet(Outstanding(T)) /\ IsFiniteSet(Outstanding(R))
          /\ \A x \in Outstanding(T) : Amount[x] \in Int
          /\ \A x \in Outstanding(R) : Amount[x] \in Int
      BY <2>1, <3>2, OutstandingAmounts
    <3>5. F(Outstanding(T)) \in Int /\ F(Outstanding(R)) \in Int
      BY <3>4, SumInteger
    <3>6. F(Outstanding(R)) + e.amount = F(Outstanding(T))
      <4>1. CASE /\ e.of \in Outstanding(T) /\ Outstanding(R) = Outstanding(T) \ {e.of}
                 /\ e.amount = Amount[e.of]
        <5>1. F(Outstanding(T)) = Amount[e.of] + F(Outstanding(R)) /\ Amount[e.of] \in Int
          BY <3>4, <4>1, SumWithout
        <5> QED
          BY <3>5, <4>1, <5>1
      <4>2. CASE /\ e.of \in Outstanding(R) /\ Outstanding(T) = Outstanding(R) \ {e.of}
                 /\ e.amount = -Amount[e.of]
        <5>1. F(Outstanding(R)) = Amount[e.of] + F(Outstanding(T)) /\ Amount[e.of] \in Int
          BY <3>4, <4>2, SumWithout
        <5> QED
          BY <3>5, <4>2, <5>1
      <4> QED
        BY <2>5, <3>1, <4>1, <4>2, OutstandingStep
    <3>7. Round(F(Outstanding(T))) = F(Outstanding(T))
      BY OutstandingExact
    <3> QED
      BY <2>3, <2>5, <3>1, <3>3, <3>6, <3>7
  <2> QED
    BY <2>4, <2>5
<1>2. IsFiniteSet(All)
  <2>1. All \subseteq posting
    BY DEF FindInRange
  <2> QED
    BY <2>1, OldestTaken
<1>3. Latest(All, to)
  BY DEF Latest
<1> HIDE DEF U
<1>4. All \in U
  BY <1>1, <1>2, FiniteSetInduction
<1> QED
  BY <1>3, <1>4 DEF U

\* Whole transfers add up to zero: what remains is what slipped.
LEMMA CheckAccounted ==
    ASSUME RowsInv, NEW to, ~CutThen(to), ~MixedThen(to), Slipped(to) = {} \/ FitsThen(to)
    PROVE  Sum(FindInRange(to)) # 0 <=> Slipped(to) # {}
<1> DEFINE All == FindInRange(to)
<1>1. All \subseteq posting
  BY DEF FindInRange
<1>2. OpenIn(All) = {}
  BY BothSeen DEF OpenIn, IsCredit
<1>3. Outstanding(All) = Slipped(to)
  BY <1>2 DEF Outstanding, SlipsIn, Slipped, FindInRange, Rows
<1>4. /\ IsFiniteSet(Outstanding(All))
      /\ \A x \in Outstanding(All) : Amount[x] \in Nat \ {0}
  BY <1>1, OutstandingAmounts
<1> QED
  BY <1>3, <1>4, SumOutstanding, SumPositive

-----------------------------------------------------------------------------
\* A check finds what CheckTrue says of it; the other steps keep what it found.
LEMMA ChecksStep ==
    ASSUME RowsInv, CommittedKept, ChecksInv, [BalanceNext]_balanceVars
    PROVE  ChecksInv'
<1>1. now \in Nat /\ now' \in {now, now + 1}
  BY DEF RowsInv, RowsTyped, BalanceNext, Pass, Booked, Slip, StartCheck, Finish,
        CheckFailed, balanceVars
<1>2. CASE /\ UNCHANGED <<checks, mails>>
           /\ running' \in {running, now, -1} /\ (running' = now => now' = now + 1)
  <2>1. ASSUME NEW to \in checks PROVE to \in Int /\ to < now' /\ Accounted(to)'
    BY <1>1, <1>2, AccountedKept DEF ChecksInv
  <2> QED
    BY <1>1, <1>2, <2>1 DEF ChecksInv
<1>3. CASE Finish
  <2>1. /\ checks' = checks \cup {running} /\ running' = -1 /\ now' = now
        /\ mails' = IF Sum(FindInRange(running)) # 0 THEN mails \cup {running} ELSE mails
        /\ UNCHANGED <<posting, older, done>>
    BY <1>3 DEF Finish, Never, bookingVars, postings
  <2>2. PICK end : end = running
    OBVIOUS
  <2>3. ASSUME NEW to \in checks, to # end PROVE Accounted(to)'
    BY <2>1, <2>2, <2>3, AccountedKept DEF ChecksInv
  <2>4. Accounted(end)'
    <3>1. /\ CutThen(end)' <=> CutThen(end)
          /\ MixedThen(end)' <=> MixedThen(end)
          /\ Slipped(end)' = Slipped(end)
      BY <2>1 DEF CutThen, MixedThen, Slipped, Committed, Rows, Dated
    <3>2. FitsThen(end)' <=> FitsThen(end)
      BY <2>1, <3>1 DEF FitsThen, Committed, Dated
    <3>3. end \in mails => CutThen(end) \/ MixedThen(end) \/ Slipped(end) # {}
      BY DEF ChecksInv, Accounted
    <3>4. end \in mails' <=> end \in mails \/ Sum(FindInRange(end)) # 0
      BY <2>1, <2>2
    <3>5. CutThen(end) \/ MixedThen(end) \/ ~(Slipped(end) = {} \/ FitsThen(end))
          \/ (Sum(FindInRange(end)) # 0 <=> Slipped(end) # {})
      BY CheckAccounted
    <3> QED
      BY <3>1, <3>2, <3>3, <3>4, <3>5 DEF Accounted
  <2>5. end \in Int /\ end < now /\ mails' \subseteq checks' /\ \A to \in checks' : to = end \/ to \in checks
    BY <2>1, <2>2 DEF ChecksInv
  <2>6. \A to \in checks' : to \in Int /\ to < now' /\ Accounted(to)'
    BY <2>1, <2>3, <2>4, <2>5 DEF ChecksInv
  <2> QED
    BY <1>1, <2>1, <2>5, <2>6 DEF ChecksInv
<1> QED
  <2>1. Finish \/ (running' \in {running, now, -1} /\ (running' = now => now' = now + 1))
    <3>0. running < now /\ running \in Int
      BY <1>1 DEF ChecksInv
    <3>1. CASE Pass \/ Booked \/ (\E x \in Slips : Slip(x)) \/ UNCHANGED balanceVars
      <4>1. running' = running
        BY <3>1 DEF Pass, Booked, Slip, checkVars, balanceVars
      <4> QED
        BY <1>1, <3>0, <4>1
    <3>2. CASE StartCheck \/ CheckFailed
      BY <1>1, <3>2 DEF StartCheck, CheckFailed, ChecksInv, Never
    <3> QED
      BY <1>1, <3>1, <3>2 DEF BalanceNext
  <2>2. UNCHANGED <<checks, mails>> \/ Finish
    BY DEF BalanceNext, Pass, Booked, Slip, StartCheck, CheckFailed, balanceVars, checkVars
  <2> QED
    BY <1>2, <1>3, <2>1, <2>2

\* No check at first.
LEMMA ChecksInit == BalanceInit => ChecksInv
BY DEF BalanceInit, ChecksInv, Never

\* Whatever transfers are booked while checks run, however many and of whatever
\* amounts, and however many digits a floating-point number has: unless a
\* timespan begins or ends between the two postings of a transfer, or those of
\* several transfers alternate, a mail is sent only if there is something to
\* find, and it is sent then if nothing that is added up on the way is rounded.
THEOREM MailsTrue == BalanceSpec => []CheckTrue
<1> DEFINE Inv == BookingInv /\ RowsInv /\ ChecksInv
<1>1. BalanceInit => Inv
  BY InitInv, RowsInit, ChecksInit
<1>2. Inv /\ [BalanceNext]_balanceVars => Inv'
  BY NextInv, RowsStep, ChecksStep
<1>3. Inv => CheckTrue
  BY AccountedTrue
<1> QED
  BY <1>1, <1>2, <1>3, PTL DEF BalanceSpec

-----------------------------------------------------------------------------
(* The daily email.                                                        *)

Jobs == [step : Steps, entity : Entities \cup {NoEntity}, searches : SUBSET SUBSET Tags,
         found : SUBSET Tags, untold : SUBSET Tags]

TagsOfEach == [Entities -> SUBSET Tags]

\* A goroutine that is not free works for an entity, and its run is under way.
BusyTyped == \A r \in Runs, s \in Slots :
                slot[r][s].step # "free" => r \in open /\ slot[r][s].entity \in Entities

Typed == TypeOK /\ BusyTyped

StoreTyped == newer \in TagsOfEach /\ owed \in TagsOfEach /\ lost \in TagsOfEach /\ told \in TagsOfEach

LEMMA FreeJob == Free \in Jobs /\ Free.step = "free"
  BY DEF Free, Jobs, Steps

\* A goroutine turns to another job, or to another step of the one it has.
Turns(r, s, j) == j \in Jobs /\ slot' = [slot EXCEPT ![r][s] = j]

LEMMA OneSlot ==
  ASSUME TypeOK, NEW r \in Runs, NEW s \in Slots, NEW j, Turns(r, s, j)
  PROVE  /\ slot' \in [Runs -> [Slots -> Jobs]]
         /\ slot'[r][s] = j
         /\ \A x \in Runs, y \in Slots : <<x, y>> # <<r, s>> => slot'[x][y] = slot[x][y]
<1>1. slot \in [Runs -> [Slots -> Jobs]]
  BY DEF TypeOK, Jobs
<1>2. slot' = [slot EXCEPT ![r] = [slot[r] EXCEPT ![s] = j]] /\ j \in Jobs
  BY DEF Turns
<1> QED
  BY <1>1, <1>2

LEMMA BusyJob ==
  ASSUME Typed, NEW r \in Runs, NEW s \in Slots, slot[r][s].step # "free"
  PROVE  r \in open /\ slot[r][s] \in Jobs /\ slot[r][s].entity \in Entities
  BY DEF Typed, TypeOK, BusyTyped, Jobs

LEMMA StoreIsTyped == Typed => StoreTyped
  BY DEF Typed, TypeOK, StoreTyped, TagsOfEach

-----------------------------------------------------------------------------
(* What each statement makes of the job.                                   *)

\* An entity gets a job with nothing found.
LEMMA HandedJob ==
  ASSUME DailyEmailAssumption, Typed, NEW r \in Runs, NEW s \in Slots, Hand(r, s)
  PROVE  \E n \in queue[r], j \in Jobs :
            /\ Turns(r, s, j) /\ queue' = [queue EXCEPT ![r] = @ \ {n}]
            /\ n \in Entities /\ j.step = "search" /\ j.entity = n /\ j.searches = Searches[n]
            /\ j.found = {} /\ j.untold = {}
<1>1. PICK n \in queue[r] : /\ queue' = [queue EXCEPT ![r] = @ \ {n}]
                            /\ slot' = [slot EXCEPT ![r][s] =
                                 [Free EXCEPT !.step = "search", !.entity = n, !.searches = Searches[n]]]
  BY DEF Hand
<1>2. PICK j : j = [Free EXCEPT !.step = "search", !.entity = n, !.searches = Searches[n]]
  OBVIOUS
<1>3. n \in Entities
  BY DEF Typed, TypeOK
<1>4. /\ j \in Jobs /\ j.step = "search" /\ j.entity = n /\ j.searches = Searches[n]
      /\ j.found = {} /\ j.untold = {}
  BY <1>2, <1>3 DEF Jobs, Steps, Free, DailyEmailAssumption
<1> QED
  BY <1>1, <1>2, <1>3, <1>4 DEF Turns

\* A search returns some of what matches and is new, and leaves out the others.
LEMMA SearchedJob ==
  ASSUME Typed, NEW r \in Runs, NEW s \in Slots, Search(r, s)
  PROVE  \E q \in slot[r][s].searches, hits \in SUBSET Tags, j \in Jobs :
            /\ Turns(r, s, j) /\ j.step = "search" /\ j.entity = slot[r][s].entity
            /\ hits \subseteq since[r][j.entity]
            /\ j.searches = slot[r][s].searches \ {q} /\ j.found = slot[r][s].found \cup hits
            /\ j.untold = slot[r][s].untold \cup ((q \cap since[r][j.entity]) \ hits)
<1> DEFINE old == slot[r][s]
           n == old.entity
<1>1. old \in Jobs /\ n \in Entities /\ old.step = "search"
  BY BusyJob DEF Search
<1>a. PICK q \in old.searches : \E hits \in Hits(q \cap since[r][n]) :
          slot' = [slot EXCEPT ![r][s] = [old EXCEPT !.searches = @ \ {q}, !.found = @ \cup hits,
                                                     !.untold = @ \cup ((q \cap since[r][n]) \ hits)]]
  BY DEF Search
<1>2. PICK hits \in Hits(q \cap since[r][n]) :
          slot' = [slot EXCEPT ![r][s] = [old EXCEPT !.searches = @ \ {q}, !.found = @ \cup hits,
                                                     !.untold = @ \cup ((q \cap since[r][n]) \ hits)]]
  BY <1>a
<1>3. hits \subseteq q \cap since[r][n]
  BY DEF Hits, kSubset
<1>4. q \in SUBSET Tags
  BY <1>1 DEF Jobs
<1>5. PICK j : j = [old EXCEPT !.searches = @ \ {q}, !.found = @ \cup hits,
                               !.untold = @ \cup ((q \cap since[r][n]) \ hits)]
  OBVIOUS
<1>6. /\ j \in Jobs /\ j.step = "search" /\ j.entity = n
      /\ j.searches = old.searches \ {q} /\ j.found = old.found \cup hits
      /\ j.untold = old.untold \cup ((q \cap since[r][n]) \ hits)
  BY <1>1, <1>3, <1>4, <1>5 DEF Jobs
<1>7. hits \in SUBSET Tags /\ hits \subseteq since[r][j.entity] /\ Turns(r, s, j)
  BY <1>2, <1>3, <1>4, <1>5, <1>6 DEF Turns
<1> QED
  BY <1>6, <1>7

\* A job that found something goes on to the mail.
LEMMA FoundJob ==
  ASSUME Typed, NEW r \in Runs, NEW s \in Slots, Searched(r, s), ~Leave(r, s)
  PROVE  \E j \in Jobs :
            /\ Turns(r, s, j) /\ j.step = "mail" /\ j.entity = slot[r][s].entity
            /\ j.found = slot[r][s].found /\ j.untold = slot[r][s].untold
<1>1. slot[r][s] \in Jobs
  BY BusyJob DEF Searched
<1>2. PICK j : j = [slot[r][s] EXCEPT !.step = "mail"]
  OBVIOUS
<1>3. slot' = [slot EXCEPT ![r][s] = j]
  BY <1>2 DEF Searched, Typed, TypeOK
<1>4. /\ j \in Jobs /\ j.step = "mail" /\ j.entity = slot[r][s].entity
      /\ j.found = slot[r][s].found /\ j.untold = slot[r][s].untold
  BY <1>1, <1>2 DEF Jobs, Steps
<1> QED
  BY <1>3, <1>4 DEF Turns

\* The mail was sent, or nothing that was found is told.
LEMMA MailedJob ==
  ASSUME Typed, NEW r \in Runs, NEW s \in Slots, Mail(r, s)
  PROVE  \E j \in Jobs :
            /\ Turns(r, s, j) /\ j.step = "stamp" /\ j.entity = slot[r][s].entity
            /\ \/ /\ owed' = [owed EXCEPT ![j.entity] = @ \ slot[r][s].found]
                  /\ j.found = slot[r][s].found /\ j.untold = slot[r][s].untold
               \/ /\ owed' = owed
                  /\ j.found = {} /\ j.untold = slot[r][s].untold \cup slot[r][s].found
<1> DEFINE old == slot[r][s]
<1>1. old \in Jobs
  BY BusyJob DEF Mail
<1>2. CASE /\ owed' = [owed EXCEPT ![old.entity] = @ \ old.found]
           /\ slot' = [slot EXCEPT ![r][s].step = "stamp"]
  <2>1. PICK j : j = [old EXCEPT !.step = "stamp"]
    OBVIOUS
  <2>2. slot' = [slot EXCEPT ![r][s] = j]
    BY <1>2, <2>1 DEF Typed, TypeOK
  <2>3. /\ j \in Jobs /\ j.step = "stamp" /\ j.entity = old.entity
        /\ j.found = old.found /\ j.untold = old.untold
    BY <1>1, <2>1 DEF Jobs, Steps
  <2> QED
    BY <1>2, <2>2, <2>3 DEF Turns
<1>3. CASE /\ slot' = [slot EXCEPT ![r][s] = [old EXCEPT !.step = "stamp", !.found = {},
                                                         !.untold = @ \cup old.found]]
           /\ owed' = owed
  <2>1. PICK j : j = [old EXCEPT !.step = "stamp", !.found = {}, !.untold = @ \cup old.found]
    OBVIOUS
  <2>2. /\ j \in Jobs /\ j.step = "stamp" /\ j.entity = old.entity
        /\ j.found = {} /\ j.untold = old.untold \cup old.found
    BY <1>1, <2>1 DEF Jobs, Steps
  <2> QED
    BY <1>3, <2>1, <2>2 DEF Turns
<1> QED
  BY <1>2, <1>3 DEF Mail

\* The entity is stamped, which sets down what was told and what was lost, or not.
LEMMA StampedJob ==
  ASSUME Typed, NEW r \in Runs, NEW s \in Slots, Stamp(r, s)
  PROVE  /\ Turns(r, s, Free)
         /\ \E n \in Entities, found \in SUBSET Tags, untold \in SUBSET Tags :
               /\ n = slot[r][s].entity /\ found = slot[r][s].found /\ untold = slot[r][s].untold
               /\ \/ /\ newer' = [newer EXCEPT ![n] = {}]
                     /\ told' = [told EXCEPT ![n] = @ \cup found]
                     /\ lost' = [lost EXCEPT ![n] = @ \cup (untold \cap owed[n])]
                  \/ UNCHANGED <<newer, told, lost>>
<1>1. slot[r][s] \in Jobs /\ slot[r][s].entity \in Entities
  BY BusyJob DEF Stamp
<1>2. Turns(r, s, Free)
  BY FreeJob DEF Stamp, Leave, Turns
<1>3. PICK n \in Entities, found \in SUBSET Tags, untold \in SUBSET Tags :
        n = slot[r][s].entity /\ found = slot[r][s].found /\ untold = slot[r][s].untold
  BY <1>1 DEF Jobs
<1>4. \/ /\ newer' = [newer EXCEPT ![n] = {}]
         /\ told' = [told EXCEPT ![n] = @ \cup found]
         /\ lost' = [lost EXCEPT ![n] = @ \cup (untold \cap owed[n])]
      \/ UNCHANGED <<newer, told, lost>>
  BY <1>3 DEF Stamp, Note
<1> DEFINE Is(m, f, u) == m = slot[r][s].entity /\ f = slot[r][s].found /\ u = slot[r][s].untold
           Sets(m, f, u) == \/ /\ newer' = [newer EXCEPT ![m] = {}]
                               /\ told' = [told EXCEPT ![m] = @ \cup f]
                               /\ lost' = [lost EXCEPT ![m] = @ \cup (u \cap owed[m])]
                            \/ UNCHANGED <<newer, told, lost>>
<1>5. Is(n, found, untold) /\ Sets(n, found, untold)
  BY <1>3, <1>4
<1> HIDE DEF Is, Sets
<1>6. \E m \in Entities, f \in SUBSET Tags, u \in SUBSET Tags : Is(m, f, u) /\ Sets(m, f, u)
  BY <1>3, <1>5
<1> QED
  BY <1>2, <1>6 DEF Is, Sets

-----------------------------------------------------------------------------
(* Types.                                                                  *)

\* A step of one goroutine: it has a job for an entity or gets free.
LEMMA TurnTyped ==
  ASSUME Typed, NEW r \in open, NEW s \in Slots, NEW j, Turns(r, s, j),
         j.step # "free" => j.entity \in Entities,
         UNCHANGED <<read, open>>, StoreTyped', queue' \in [Runs -> SUBSET Entities]
  PROVE  Typed'
<1>1. r \in Runs /\ TypeOK
  BY DEF Typed, TypeOK
<1>2. /\ slot' \in [Runs -> [Slots -> Jobs]]
      /\ slot'[r][s] = j
      /\ \A x \in Runs, y \in Slots : <<x, y>> # <<r, s>> => slot'[x][y] = slot[x][y]
  BY <1>1, OneSlot
<1>3. TypeOK'
  BY <1>2 DEF Typed, TypeOK, StoreTyped, TagsOfEach, Jobs, read
<1>4. BusyTyped'
  BY <1>2 DEF Typed, BusyTyped
<1> QED
  BY <1>3, <1>4 DEF Typed

LEMMA HandTyped ==
  ASSUME DailyEmailAssumption, Typed, NEW r \in Runs, NEW s \in Slots, Hand(r, s)
  PROVE  Typed'
<1>1. PICK n \in queue[r], j \in Jobs :
            /\ Turns(r, s, j) /\ queue' = [queue EXCEPT ![r] = @ \ {n}]
            /\ n \in Entities /\ j.entity = n
  BY HandedJob
<1>2. r \in open /\ UNCHANGED <<store, read, open>>
  BY DEF Hand
<1>3. queue' \in [Runs -> SUBSET Entities]
  BY <1>1 DEF Typed, TypeOK
<1>4. StoreTyped'
  BY <1>2, StoreIsTyped DEF StoreTyped, store
<1> QED
  BY <1>1, <1>2, <1>3, <1>4, TurnTyped

LEMMA JobTyped ==
  ASSUME Typed, NEW r \in Runs, NEW s \in Slots, Job(r, s)
  PROVE  Typed'
<1>1. r \in open /\ slot[r][s] \in Jobs /\ slot[r][s].entity \in Entities
  BY BusyJob DEF Job, Search, SearchFailed, Searched, Mail, Stamp
<1>2. StoreTyped /\ queue \in [Runs -> SUBSET Entities]
  BY StoreIsTyped DEF Typed, TypeOK
<1>3. read' = read /\ open' = open /\ queue' = queue
  BY DEF Job, Search, SearchFailed, Searched, Mail, Stamp
<1>4. UNCHANGED store => StoreTyped'
  BY <1>2 DEF StoreTyped, store
<1>5. CASE Search(r, s)
  <2>1. PICK j \in Jobs : Turns(r, s, j) /\ j.entity = slot[r][s].entity
    BY <1>5, SearchedJob
  <2>2. StoreTyped'
    BY <1>4, <1>5 DEF Search
  <2> QED
    BY <1>1, <1>2, <1>3, <2>1, <2>2, TurnTyped
<1>6. CASE Leave(r, s) /\ UNCHANGED store
  BY <1>1, <1>2, <1>3, <1>4, <1>6, FreeJob, TurnTyped DEF Leave, Turns
<1>7. CASE Searched(r, s) /\ ~Leave(r, s)
  BY <1>1, <1>2, <1>3, <1>4, <1>7, FoundJob, TurnTyped DEF Searched
<1>8. CASE Mail(r, s)
  <2>1. PICK j \in Jobs : /\ Turns(r, s, j) /\ j.entity = slot[r][s].entity
                          /\ \/ owed' = [owed EXCEPT ![j.entity] = @ \ slot[r][s].found]
                             \/ owed' = owed
    BY <1>8, MailedJob
  <2>2. StoreTyped'
    BY <1>1, <1>2, <1>8, <2>1 DEF StoreTyped, TagsOfEach, Mail
  <2> QED
    BY <1>1, <1>2, <1>3, <2>1, <2>2, TurnTyped
<1>9. CASE Stamp(r, s)
  <2>1. PICK n \in Entities, found \in SUBSET Tags, untold \in SUBSET Tags :
           \/ /\ newer' = [newer EXCEPT ![n] = {}]
              /\ told' = [told EXCEPT ![n] = @ \cup found]
              /\ lost' = [lost EXCEPT ![n] = @ \cup (untold \cap owed[n])]
           \/ UNCHANGED <<newer, told, lost>>
    BY <1>9, StampedJob
  <2>2. StoreTyped'
    BY <1>2, <1>9, <2>1 DEF StoreTyped, TagsOfEach, Stamp
  <2>3. Turns(r, s, Free)
    BY <1>9, StampedJob
  <2> QED
    BY <1>1, <1>2, <1>3, <2>2, <2>3, FreeJob, TurnTyped
<1> QED
  BY <1>5, <1>6, <1>7, <1>8, <1>9 DEF Job, SearchFailed, Searched

LEMMA TagsTyped ==
  ASSUME NEW tags \in TagsOfEach, NEW t \in Tags, NEW ns
  PROVE  /\ Nothing \in TagsOfEach
         /\ Added(tags, t, ns) \in TagsOfEach /\ Removed(tags, t, ns) \in TagsOfEach
  BY DEF TagsOfEach, Nothing, Added, Removed

LEMMA TypedStep ==
  ASSUME DailyEmailAssumption, Typed, [Next]_vars
  PROVE  Typed'
<1>1. CASE UNCHANGED vars
  BY <1>1 DEF vars, store, read, Typed, TypeOK, BusyTyped
<1>2. ASSUME NEW t \in Tags, Announce(t) \/ Withdraw(t) PROVE Typed'
  <2>1. /\ StoreTyped
        /\ since \in [Runs -> TagsOfEach] /\ known \in [Runs -> TagsOfEach]
    BY StoreIsTyped DEF Typed, TypeOK, TagsOfEach
  <2>2. \A r \in Runs : since[r] \in TagsOfEach /\ known[r] \in TagsOfEach
    BY <2>1
  <2>3. StoreTyped'
    BY <1>2, <2>1, TagsTyped DEF Announce, Withdraw, StoreTyped
  <2>4. since' \in [Runs -> TagsOfEach] /\ known' \in [Runs -> TagsOfEach]
    BY <1>2, <2>2, TagsTyped DEF Announce, Withdraw
  <2>5. UNCHANGED <<queue, open, slot>>
    BY <1>2 DEF Announce, Withdraw
  <2> QED
    BY <2>3, <2>4, <2>5 DEF Typed, TypeOK, BusyTyped, StoreTyped, TagsOfEach
<1>3. ASSUME NEW r \in Runs, Start(r) PROVE Typed'
  <2>1. PICK listed \in SUBSET Entities : queue' = [queue EXCEPT ![r] = listed]
    BY <1>3 DEF Start
  <2>2. queue' \in [Runs -> SUBSET Entities]
    BY <2>1 DEF Typed, TypeOK
  <2> QED
    BY <1>3, <2>2 DEF Start, store, Typed, TypeOK, BusyTyped
<1>4. ASSUME NEW r \in Runs, Shutdown(r) PROVE Typed'
  BY <1>4 DEF Shutdown, store, Nothing, Typed, TypeOK, BusyTyped
<1>5. CASE Crash
  <2>1. \A r \in Runs, s \in Slots : slot'[r][s] = Free
    BY <1>5 DEF Crash, Idle
  <2>2. slot' \in [Runs -> [Slots -> Jobs]]
    BY <1>5, FreeJob DEF Crash, Idle
  <2>3. TypeOK'
    BY <1>5, <2>2 DEF Crash, Nothing, store, Typed, TypeOK, Jobs
  <2> QED
    BY <2>1, <2>3, FreeJob DEF Typed, BusyTyped
<1> QED
  BY <1>1, <1>2, <1>3, <1>4, <1>5, HandTyped, JobTyped DEF Next

LEMMA TypedStart == Init => Typed
<1> SUFFICES ASSUME Init PROVE Typed
  OBVIOUS
<1>1. \A r \in Runs, s \in Slots : slot[r][s] = Free
  BY DEF Init, Idle
<1>2. TypeOK
  BY FreeJob DEF Init, Idle, Nothing, TypeOK, Jobs
<1> QED
  BY <1>1, <1>2, FreeJob DEF Typed, BusyTyped

\* Every reachable state is well typed: a goroutine works for one of the entities
\* as long as its run is under way, whatever searches leave out.
THEOREM TypeCorrect ==
  ASSUME DailyEmailAssumption
  PROVE  Spec => []TypeOK
<1>1. Init => Typed
  BY TypedStart
<1>2. Typed /\ [Next]_vars => Typed'
  BY TypedStep
<1>3. Typed => TypeOK
  BY DEF Typed
<1> QED
  BY <1>1, <1>2, <1>3, PTL DEF Spec

-----------------------------------------------------------------------------
(* Nothing is missed.                                                      *)

\* A tag that one of the searches matches.
Sought(t, searches) == \E q \in searches : t \in q

\* What its entity is owed, and did not lose, a job has found or will find, or
\* keeps as what it will not tell; when it stamps the entity it has told the rest.
Covers(j, news) ==
    \/ j.step = "free"
    \/ /\ j.entity \in Entities
       /\ \/ /\ j.step = "search"
             /\ \A t \in owed[j.entity] \ lost[j.entity] :
                   t \in j.found \cup j.untold \/ (t \in news[j.entity] /\ Sought(t, j.searches))
          \/ j.step = "mail" /\ owed[j.entity] \subseteq j.found \cup j.untold \cup lost[j.entity]
          \/ j.step = "stamp" /\ owed[j.entity] \subseteq j.untold \cup lost[j.entity]

Covered == \A r \in Runs, s \in Slots : Covers(slot[r][s], since[r])

\* What is owed to an entity that waits for its job, and not lost, is new to the run.
WaitingCovered == \A r \in open : \A n \in queue[r] : owed[n] \subseteq since[r][n] \cup lost[n]

OwedMatch == \A n \in Entities : \A t \in owed[n] : Sought(t, Searches[n])

DailyInv == Typed /\ NothingMissed /\ Covered /\ WaitingCovered /\ OwedMatch

\* A step of one job, which may tell of what is owed, or lose it.
LEMMA TurnCovered ==
  ASSUME DailyInv, Typed', NEW r \in Runs, NEW s \in Slots, NEW j, Turns(r, s, j),
         UNCHANGED <<since, open>>, \A x \in Runs : queue'[x] \subseteq queue[x],
         \A n \in Entities : owed'[n] \subseteq owed[n] /\ lost[n] \subseteq lost'[n],
         NothingMissed', Covers(j, since[r])'
  PROVE  DailyInv'
<1>1. /\ slot'[r][s] = j
      /\ \A x \in Runs, y \in Slots : <<x, y>> # <<r, s>> => slot'[x][y] = slot[x][y]
  BY OneSlot DEF DailyInv, Typed
<1>2. Covered'
  <2> SUFFICES ASSUME NEW x \in Runs, NEW y \in Slots PROVE Covers(slot[x][y], since[x])'
    BY DEF Covered
  <2>1. CASE <<x, y>> = <<r, s>>
    BY <2>1, <1>1 DEF Covers
  <2>2. CASE <<x, y>> # <<r, s>>
    <3>1. PICK k : k = slot[x][y]
      OBVIOUS
    <3>2. slot'[x][y] = k /\ Covers(k, since[x]) /\ since' = since
      BY <1>1, <2>2, <3>1 DEF DailyInv, Covered
    <3>3. Covers(k, since[x])'
      BY <3>2 DEF Covers
    <3> QED
      BY <3>2, <3>3 DEF Covers
  <2> QED
    BY <2>1, <2>2
<1>3. WaitingCovered'
  <2> SUFFICES ASSUME NEW x \in open, NEW n \in queue'[x] PROVE owed'[n] \subseteq since[x][n] \cup lost'[n]
    BY DEF WaitingCovered
  <2>1. x \in Runs /\ n \in queue[x] /\ n \in Entities
    BY DEF DailyInv, Typed, TypeOK
  <2> QED
    BY <2>1 DEF DailyInv, WaitingCovered
<1>4. OwedMatch'
  BY DEF DailyInv, OwedMatch
<1> QED
  BY <1>2, <1>3, <1>4 DEF DailyInv

LEMMA FreeCovers == ASSUME NEW news PROVE Covers(Free, news)
  BY FreeJob DEF Covers

\* A job that ends without a stamp.
LEMMA LeaveStep ==
  ASSUME DailyInv, Typed', NEW r \in Runs, NEW s \in Slots, Leave(r, s), UNCHANGED <<store, read, open, queue>>
  PROVE  DailyInv'
<1>1. Turns(r, s, Free) /\ UNCHANGED <<newer, owed, lost, since, open, queue>>
  BY FreeJob DEF Leave, Turns, store, read
<1>2. NothingMissed'
  BY <1>1 DEF DailyInv, NothingMissed
<1>3. Covers(Free, since[r])'
  BY FreeJob DEF Covers, Free
<1> QED
  BY <1>1, <1>2, <1>3, TurnCovered

-----------------------------------------------------------------------------
(* One lemma for each kind of step.                                        *)

\* A tag is owed from now on to entities that have no job: a run that will
\* search for them finds it.
LEMMA AnnounceStep ==
  ASSUME DailyInv, Typed', NEW t \in Tags, Announce(t)
  PROVE  DailyInv'
<1>1. \A n \in Entities :
         /\ t \in Matches(n) => newer'[n] = newer[n] \cup {t}
         /\ t \notin Matches(n) => newer'[n] = newer[n]
         /\ Busy(n) => owed'[n] = owed[n] /\ lost'[n] = lost[n]
         /\ ~Busy(n) => /\ t \in Matches(n) => owed'[n] = owed[n] \cup {t}
                        /\ t \notin Matches(n) => owed'[n] = owed[n]
                        /\ lost'[n] = lost[n] \ {t}
  BY DEF Announce, Added, Removed
<1>2. \A r \in open : r \in Runs /\ \A n \in Entities :
         /\ t \in Matches(n) => since'[r][n] = since[r][n] \cup {t}
         /\ t \notin Matches(n) => since'[r][n] = since[r][n]
  BY DEF Announce, Added, DailyInv, Typed, TypeOK
<1>3. \A n \in Entities : t \in owed[n] => t \in Matches(n)
  BY DEF DailyInv, OwedMatch, Sought, Matches
<1>4. UNCHANGED <<queue, open, slot>>
  BY DEF Announce
<1>5. NothingMissed'
  BY <1>1, <1>3 DEF DailyInv, NothingMissed
<1>6. Covered'
  <2> SUFFICES ASSUME NEW r \in Runs, NEW s \in Slots PROVE Covers(slot[r][s], since[r])'
    BY DEF Covered
  <2>1. PICK j : j = slot[r][s]
    OBVIOUS
  <2>2. Covers(j, since[r]) /\ slot'[r][s] = j
    BY <1>4, <2>1 DEF DailyInv, Covered
  <2>3. CASE j.step = "free"
    BY <2>2, <2>3 DEF Covers
  <2>4. CASE j.step # "free"
    <3>1. j.entity \in Entities /\ Busy(j.entity) /\ r \in open
      BY <2>1, <2>4, BusyJob DEF DailyInv, Busy
    <3>2. /\ owed'[j.entity] = owed[j.entity] /\ lost'[j.entity] = lost[j.entity]
          /\ since[r][j.entity] \subseteq since'[r][j.entity]
      BY <1>1, <1>2, <3>1
    <3>3. Covers(j, since[r])'
      BY <2>2, <2>4, <3>1, <3>2 DEF Covers
    <3> QED
      BY <2>2, <3>3 DEF Covers
  <2> QED
    BY <2>3, <2>4
<1>7. WaitingCovered'
  <2> SUFFICES ASSUME NEW r \in open, NEW n \in queue[r] PROVE owed'[n] \subseteq since'[r][n] \cup lost'[n]
    BY <1>4 DEF WaitingCovered
  <2>1. n \in Entities /\ owed[n] \subseteq since[r][n] \cup lost[n]
    BY <1>2 DEF DailyInv, Typed, TypeOK, WaitingCovered
  <2> QED
    BY <1>1, <1>2, <1>3, <2>1
<1>8. OwedMatch'
  <2> SUFFICES ASSUME NEW n \in Entities, NEW x \in owed'[n] PROVE Sought(x, Searches[n])
    BY DEF OwedMatch
  <2>1. x \in owed[n] \/ x \in Matches(n)
    BY <1>1
  <2> QED
    BY <2>1 DEF DailyInv, OwedMatch, Sought, Matches
<1> QED
  BY <1>5, <1>6, <1>7, <1>8 DEF DailyInv

LEMMA WithdrawStep ==
  ASSUME DailyInv, Typed', NEW t \in Tags, Withdraw(t)
  PROVE  DailyInv'
<1>1. \A n \in Entities : /\ newer'[n] = newer[n] \ {t} /\ owed'[n] = owed[n] \ {t}
                          /\ lost'[n] = lost[n] \ {t}
  BY DEF Withdraw, Removed
<1>2. \A r \in Runs, n \in Entities : since'[r][n] = since[r][n] \ {t}
  BY DEF Withdraw, Removed
<1>3. UNCHANGED <<queue, open, slot>>
  BY DEF Withdraw
<1>4. NothingMissed' /\ OwedMatch'
  BY <1>1 DEF DailyInv, NothingMissed, OwedMatch
<1>5. Covered'
  <2> SUFFICES ASSUME NEW r \in Runs, NEW s \in Slots PROVE Covers(slot[r][s], since[r])'
    BY DEF Covered
  <2>1. PICK j : j = slot[r][s]
    OBVIOUS
  <2>2. Covers(j, since[r]) /\ slot'[r][s] = j
    BY <1>3, <2>1 DEF DailyInv, Covered
  <2>3. Covers(j, since[r])'
    BY <1>1, <1>2, <2>2 DEF Covers
  <2> QED
    BY <2>2, <2>3 DEF Covers
<1>6. WaitingCovered'
  <2> SUFFICES ASSUME NEW r \in open, NEW n \in queue[r] PROVE owed'[n] \subseteq since'[r][n] \cup lost'[n]
    BY <1>3 DEF WaitingCovered
  <2>1. r \in Runs /\ n \in Entities /\ owed[n] \subseteq since[r][n] \cup lost[n]
    BY DEF DailyInv, Typed, TypeOK, WaitingCovered
  <2> QED
    BY <1>1, <1>2, <2>1
<1> QED
  BY <1>4, <1>5, <1>6 DEF DailyInv

\* A run that starts reads the stamps as they are, and nothing owed is older.
LEMMA StartStep ==
  ASSUME DailyInv, Typed', NEW r \in Runs, Start(r)
  PROVE  DailyInv'
<1>1. UNCHANGED <<newer, owed, lost, slot>>
  BY DEF Start, store
<1>2. /\ open' = open \cup {r} /\ since'[r] = newer
      /\ \A x \in Runs \ {r} : queue'[x] = queue[x] /\ since'[x] = since[x]
  BY DEF Start, DailyInv, Typed, TypeOK
<1>3. NothingMissed' /\ OwedMatch'
  BY <1>1 DEF DailyInv, NothingMissed, OwedMatch
<1>4. Covered'
  <2> SUFFICES ASSUME NEW x \in Runs, NEW s \in Slots PROVE Covers(slot[x][s], since[x])'
    BY DEF Covered
  <2>1. CASE x = r
    BY <1>1, <2>1 DEF Start, DailyInv, Typed, BusyTyped, Covers
  <2>2. CASE x # r
    BY <1>1, <1>2, <2>2 DEF DailyInv, Covered, Covers
  <2> QED
    BY <2>1, <2>2
<1>5. WaitingCovered'
  <2> SUFFICES ASSUME NEW x \in open', NEW n \in queue'[x] PROVE owed[n] \subseteq since'[x][n] \cup lost[n]
    BY <1>1 DEF WaitingCovered
  <2>1. x \in Runs /\ n \in Entities
    BY DEF Typed, TypeOK
  <2>2. CASE x = r
    BY <1>2, <2>1, <2>2 DEF DailyInv, NothingMissed
  <2>3. CASE x # r
    BY <1>2, <2>1, <2>3 DEF DailyInv, WaitingCovered
  <2> QED
    BY <2>2, <2>3
<1> QED
  BY <1>3, <1>4, <1>5 DEF DailyInv

LEMMA ShutdownStep ==
  ASSUME DailyInv, Typed', NEW r \in Runs, Shutdown(r)
  PROVE  DailyInv'
<1>1. UNCHANGED <<newer, owed, lost, queue, slot>> /\ open' = open \ {r}
  BY DEF Shutdown, store
<1>2. \A x \in Runs \ {r} : since'[x] = since[x]
  BY DEF Shutdown, DailyInv, Typed, TypeOK
<1>3. NothingMissed' /\ OwedMatch'
  BY <1>1 DEF DailyInv, NothingMissed, OwedMatch
<1>4. WaitingCovered'
  BY <1>1, <1>2 DEF DailyInv, WaitingCovered, Typed, TypeOK
<1>5. Covered'
  <2> SUFFICES ASSUME NEW x \in Runs, NEW s \in Slots PROVE Covers(slot[x][s], since[x])'
    BY DEF Covered
  <2>1. CASE x = r
    BY <1>1, <2>1 DEF Shutdown, Covers
  <2>2. CASE x # r
    BY <1>1, <1>2, <2>2 DEF DailyInv, Covered, Covers
  <2> QED
    BY <2>1, <2>2
<1> QED
  BY <1>3, <1>4, <1>5 DEF DailyInv

\* A job starts out owing what its searches will find.
LEMMA HandStep ==
  ASSUME DailyEmailAssumption, DailyInv, Typed', NEW r \in Runs, NEW s \in Slots, Hand(r, s)
  PROVE  DailyInv'
<1>1. PICK n \in queue[r], j \in Jobs :
            /\ Turns(r, s, j) /\ queue' = [queue EXCEPT ![r] = @ \ {n}]
            /\ n \in Entities /\ j.step = "search" /\ j.entity = n /\ j.searches = Searches[n]
  BY HandedJob DEF DailyInv
<1>2. r \in open /\ UNCHANGED <<newer, owed, lost, since, open>>
  BY DEF Hand, store, read
<1>3. \A t \in owed[n] \ lost[n] : t \in since[r][n] /\ Sought(t, Searches[n])
  BY <1>1, <1>2 DEF DailyInv, WaitingCovered, OwedMatch
<1>4. Covers(j, since[r])'
  BY <1>1, <1>2, <1>3 DEF Covers
<1>5. NothingMissed'
  BY <1>2 DEF DailyInv, NothingMissed
<1>6. \A x \in Runs : queue'[x] \subseteq queue[x]
  BY <1>1 DEF DailyInv, Typed, TypeOK
<1> QED
  BY <1>1, <1>2, <1>4, <1>5, <1>6, TurnCovered

\* What a search matches it returns, or it is known as left out.
LEMMA SearchStep ==
  ASSUME DailyInv, Typed', NEW r \in Runs, NEW s \in Slots, Search(r, s)
  PROVE  DailyInv'
<1> DEFINE old == slot[r][s]
<1>1. PICK q \in old.searches, hits \in SUBSET Tags, j \in Jobs :
            /\ Turns(r, s, j) /\ j.step = "search" /\ j.entity = old.entity
            /\ j.searches = old.searches \ {q} /\ j.found = old.found \cup hits
            /\ j.untold = old.untold \cup ((q \cap since[r][j.entity]) \ hits)
  BY SearchedJob DEF DailyInv
<1>2. old.step = "search" /\ UNCHANGED <<newer, owed, lost, since, open, queue>>
  BY DEF Search, store, read
<1>3. /\ old.entity \in Entities
      /\ \A t \in owed[old.entity] \ lost[old.entity] :
            t \in old.found \cup old.untold \/ (t \in since[r][old.entity] /\ Sought(t, old.searches))
  BY <1>2 DEF DailyInv, Covered, Covers
<1>4. \A t \in owed[old.entity] \ lost[old.entity] :
         t \in j.found \cup j.untold \/ (t \in since[r][old.entity] /\ Sought(t, j.searches))
  BY <1>1, <1>3 DEF Sought
<1>5. Covers(j, since[r])'
  BY <1>1, <1>2, <1>3, <1>4 DEF Covers
<1>6. NothingMissed'
  BY <1>2 DEF DailyInv, NothingMissed
<1> QED
  BY <1>1, <1>2, <1>5, <1>6, TurnCovered

\* A job that has searched for all knows all that is owed.
LEMMA SearchedStep ==
  ASSUME DailyInv, Typed', NEW r \in Runs, NEW s \in Slots, Searched(r, s)
  PROVE  DailyInv'
<1> DEFINE old == slot[r][s]
<1>1. CASE Leave(r, s)
  <2>1. UNCHANGED <<store, read, open, queue>>
    BY DEF Searched
  <2> QED
    BY <1>1, <2>1, LeaveStep
<1>2. CASE ~Leave(r, s)
  <2>1. PICK j \in Jobs : /\ Turns(r, s, j) /\ j.step = "mail" /\ j.entity = old.entity
                          /\ j.found = old.found /\ j.untold = old.untold
    BY <1>2, FoundJob DEF DailyInv
  <2>2. /\ old.step = "search" /\ old.searches = {}
        /\ UNCHANGED <<newer, owed, lost, since, open, queue>>
    BY DEF Searched, store, read
  <2>3. /\ old.entity \in Entities
        /\ owed[old.entity] \subseteq old.found \cup old.untold \cup lost[old.entity]
    BY <2>2 DEF DailyInv, Covered, Covers, Sought
  <2>4. Covers(j, since[r])'
    BY <2>1, <2>2, <2>3 DEF Covers
  <2>5. NothingMissed'
    BY <2>2 DEF DailyInv, NothingMissed
  <2> QED
    BY <2>1, <2>2, <2>4, <2>5, TurnCovered
<1> QED
  BY <1>1, <1>2

\* The mail tells what was found, or what was found remains owed and untold.
LEMMA MailStep ==
  ASSUME DailyInv, Typed', NEW r \in Runs, NEW s \in Slots, Mail(r, s)
  PROVE  DailyInv'
<1> DEFINE old == slot[r][s]
<1>1. PICK j \in Jobs :
            /\ Turns(r, s, j) /\ j.step = "stamp" /\ j.entity = old.entity
            /\ \/ /\ owed' = [owed EXCEPT ![j.entity] = @ \ old.found]
                  /\ j.found = old.found /\ j.untold = old.untold
               \/ /\ owed' = owed
                  /\ j.found = {} /\ j.untold = old.untold \cup old.found
  BY MailedJob DEF DailyInv
<1>2. old.step = "mail" /\ UNCHANGED <<newer, lost, since, open, queue>>
  BY DEF Mail, read
<1>3. /\ old.entity \in Entities
      /\ owed[old.entity] \subseteq old.found \cup old.untold \cup lost[old.entity]
  BY <1>2 DEF DailyInv, Covered, Covers
<1>4. owed \in TagsOfEach
  BY StoreIsTyped DEF StoreTyped, DailyInv
<1>5. /\ \A n \in Entities : owed'[n] \subseteq owed[n]
      /\ owed'[old.entity] \subseteq j.untold \cup lost[old.entity]
  BY <1>1, <1>3, <1>4 DEF TagsOfEach
<1>6. Covers(j, since[r])'
  BY <1>1, <1>2, <1>3, <1>5 DEF Covers
<1>7. NothingMissed'
  BY <1>2, <1>5 DEF DailyInv, NothingMissed
<1> QED
  BY <1>1, <1>2, <1>5, <1>6, <1>7, TurnCovered

\* The stamp hides what is dated before it: what is still owed of that is lost.
LEMMA StampStep ==
  ASSUME DailyInv, Typed', NEW r \in Runs, NEW s \in Slots, Stamp(r, s)
  PROVE  DailyInv'
<1>1. PICK n \in Entities, found \in SUBSET Tags, untold \in SUBSET Tags :
               /\ n = slot[r][s].entity /\ untold = slot[r][s].untold
               /\ \/ /\ newer' = [newer EXCEPT ![n] = {}]
                     /\ lost' = [lost EXCEPT ![n] = @ \cup (untold \cap owed[n])]
                  \/ UNCHANGED <<newer, lost>>
  BY StampedJob DEF DailyInv
<1>2. /\ slot[r][s].step = "stamp" /\ UNCHANGED <<owed, since, open, queue>>
  BY DEF Stamp, read
<1>3. owed[n] \subseteq untold \cup lost[n]
  BY <1>1, <1>2 DEF DailyInv, Covered, Covers
<1>4. newer \in TagsOfEach /\ lost \in TagsOfEach
  BY StoreIsTyped DEF StoreTyped, DailyInv
<1>5. \A m \in Entities : lost[m] \subseteq lost'[m]
  BY <1>1, <1>4 DEF TagsOfEach
<1>6. NothingMissed'
  BY <1>1, <1>2, <1>3, <1>4 DEF DailyInv, NothingMissed, TagsOfEach
<1>7. Turns(r, s, Free)
  BY StampedJob DEF DailyInv
<1>8. Covers(Free, since[r])'
  BY FreeJob DEF Covers, Free
<1> QED
  BY <1>2, <1>5, <1>6, <1>7, <1>8, TurnCovered

\* A crash leaves entities as they were.
LEMMA CrashStep ==
  ASSUME DailyInv, Typed', Crash
  PROVE  DailyInv'
<1>1. \A r \in Runs, s \in Slots : slot'[r][s] = Free
  BY DEF Crash, Idle
<1>2. Covered'
  BY <1>1, FreeJob DEF Covered, Covers
<1>3. NothingMissed' /\ WaitingCovered' /\ OwedMatch'
  BY DEF Crash, store, DailyInv, NothingMissed, WaitingCovered, OwedMatch
<1> QED
  BY <1>2, <1>3 DEF DailyInv

LEMMA DailyStep ==
  ASSUME DailyEmailAssumption, DailyInv, [Next]_vars
  PROVE  DailyInv'
<1>0. Typed'
  BY TypedStep DEF DailyInv
<1>1. CASE UNCHANGED vars
  BY <1>0, <1>1 DEF vars, store, read, DailyInv, NothingMissed, Covered, Covers, WaitingCovered, OwedMatch
<1>2. ASSUME NEW t \in Tags, Announce(t) \/ Withdraw(t) PROVE DailyInv'
  BY <1>0, <1>2, AnnounceStep, WithdrawStep
<1>3. ASSUME NEW r \in Runs, Start(r) \/ Shutdown(r) PROVE DailyInv'
  BY <1>0, <1>3, StartStep, ShutdownStep
<1>4. ASSUME NEW r \in Runs, NEW s \in Slots, Hand(r, s) \/ Job(r, s) PROVE DailyInv'
  <2>1. ASSUME SearchFailed(r, s) PROVE DailyInv'
    BY <1>0, <2>1, LeaveStep DEF SearchFailed
  <2> QED
    BY <1>0, <1>4, <2>1, HandStep, SearchStep, SearchedStep, MailStep, StampStep DEF Job
<1>5. CASE Crash
  BY <1>0, <1>5, CrashStep
<1> QED
  BY <1>1, <1>2, <1>3, <1>4, <1>5 DEF Next

LEMMA DailyStart == Init => DailyInv
<1> SUFFICES ASSUME Init PROVE DailyInv
  OBVIOUS
<1>1. \A r \in Runs, s \in Slots : slot[r][s] = Free
  BY DEF Init, Idle
<1>2. Covered
  BY <1>1, FreeJob DEF Covered, Covers
<1>3. NothingMissed /\ WaitingCovered /\ OwedMatch
  BY DEF Init, Nothing, NothingMissed, WaitingCovered, OwedMatch
<1> QED
  BY <1>2, <1>3, TypedStart DEF DailyInv

\* However many runs overlap, however large their pools are, whatever order the
\* goroutines take, whatever fails and however few documents a search returns: a
\* match that is announced while an entity has no job is in its next email, unless
\* the entity is stamped after a mail that was not sent or a search that left the
\* match out.
THEOREM Complete ==
  ASSUME DailyEmailAssumption
  PROVE  Spec => []NothingMissed
<1>1. Init => DailyInv
  BY DailyStart
<1>2. DailyInv /\ [Next]_vars => DailyInv'
  BY DailyStep
<1>3. DailyInv => NothingMissed
  BY DEF DailyInv
<1> QED
  BY <1>1, <1>2, <1>3, PTL DEF Spec

-----------------------------------------------------------------------------
(* Nobody is mailed twice of the same news.                                *)

\* What an entity was told of is older than its stamp, ...
ToldIsOld == \A n \in Entities : told[n] \cap newer[n] = {}

\* ... and so it is for the stamp that a run has read, ...
KnownIsOld == \A r \in Runs : \A n \in Entities : known[r][n] \cap since[r][n] = {}

\* ... so that no job finds it.
FindsNews(j, before) == j.step # "free" => j.found \cap before[j.entity] = {}

JobsFindNews == \A r \in Runs, s \in Slots : FindsNews(slot[r][s], known[r])

NewsInv == Typed /\ ToldIsOld /\ KnownIsOld /\ JobsFindNews

LEMMA TurnNews ==
  ASSUME NewsInv, Typed', NEW r \in Runs, NEW s \in Slots, NEW j, Turns(r, s, j),
         UNCHANGED read, ToldIsOld', FindsNews(j, known[r])
  PROVE  NewsInv'
<1>1. /\ slot'[r][s] = j
      /\ \A x \in Runs, y \in Slots : <<x, y>> # <<r, s>> => slot'[x][y] = slot[x][y]
  BY OneSlot DEF NewsInv, Typed
<1>2. since' = since /\ known' = known
  BY DEF read
<1>3. KnownIsOld'
  BY <1>2 DEF NewsInv, KnownIsOld
<1>4. JobsFindNews'
  BY <1>1, <1>2 DEF NewsInv, JobsFindNews, FindsNews
<1> QED
  BY <1>3, <1>4 DEF NewsInv

LEMMA JobNews ==
  ASSUME NewsInv, Typed', NEW r \in Runs, NEW s \in Slots, Job(r, s)
  PROVE  NewsInv'
<1> DEFINE old == slot[r][s]
<1>1. /\ old.step # "free" /\ UNCHANGED read
      /\ old.entity \in Entities /\ old.found \cap known[r][old.entity] = {}
  BY BusyJob DEF Job, Search, SearchFailed, Searched, Mail, Stamp, NewsInv, JobsFindNews, FindsNews
<1>2. UNCHANGED <<newer, told>> => ToldIsOld'
  BY DEF NewsInv, ToldIsOld
<1>3. CASE Search(r, s)
  <2>0. PICK q \in old.searches : \E hits \in SUBSET Tags, j \in Jobs :
            /\ Turns(r, s, j) /\ j.step = "search" /\ j.entity = old.entity
            /\ hits \subseteq since[r][j.entity]
            /\ j.searches = old.searches \ {q} /\ j.found = old.found \cup hits
            /\ j.untold = old.untold \cup ((q \cap since[r][j.entity]) \ hits)
    BY <1>3, SearchedJob DEF NewsInv
  <2>1. PICK hits \in SUBSET Tags, j \in Jobs :
            /\ Turns(r, s, j) /\ j.entity = old.entity /\ hits \subseteq since[r][j.entity]
            /\ j.found = old.found \cup hits
    BY <2>0
  <2>2. known[r][old.entity] \cap since[r][old.entity] = {}
    BY <1>1 DEF NewsInv, KnownIsOld
  <2>3. FindsNews(j, known[r])
    BY <1>1, <2>1, <2>2 DEF FindsNews
  <2>4. ToldIsOld'
    BY <1>2, <1>3 DEF Search, store
  <2> QED
    BY <1>1, <2>1, <2>3, <2>4, TurnNews
<1>4. CASE Leave(r, s) /\ UNCHANGED store
  <2>1. Turns(r, s, Free) /\ FindsNews(Free, known[r]) /\ ToldIsOld'
    BY <1>2, <1>4, FreeJob DEF Leave, Turns, FindsNews, store
  <2> QED
    BY <1>1, <2>1, TurnNews
<1>5. CASE Searched(r, s) /\ ~Leave(r, s)
  <2>1. PICK j \in Jobs : Turns(r, s, j) /\ j.entity = old.entity /\ j.found = old.found
    BY <1>5, FoundJob DEF NewsInv
  <2>2. FindsNews(j, known[r]) /\ ToldIsOld'
    BY <1>1, <1>2, <1>5, <2>1 DEF FindsNews, Searched, store
  <2> QED
    BY <1>1, <2>1, <2>2, TurnNews
<1>6. CASE Mail(r, s)
  <2>1. PICK j \in Jobs : Turns(r, s, j) /\ j.entity = old.entity /\ j.found \subseteq old.found
    BY <1>6, MailedJob DEF NewsInv
  <2>2. FindsNews(j, known[r]) /\ ToldIsOld'
    BY <1>1, <1>2, <1>6, <2>1 DEF FindsNews, Mail
  <2> QED
    BY <1>1, <2>1, <2>2, TurnNews
<1>7. CASE Stamp(r, s)
  <2>1. PICK n \in Entities, found \in SUBSET Tags :
           \/ newer' = [newer EXCEPT ![n] = {}] /\ told' = [told EXCEPT ![n] = @ \cup found]
           \/ UNCHANGED <<newer, told>>
    BY <1>7, StampedJob DEF NewsInv
  <2>2. newer \in TagsOfEach /\ told \in TagsOfEach
    BY StoreIsTyped DEF StoreTyped, NewsInv
  <2>3. ToldIsOld'
    BY <1>2, <2>1, <2>2 DEF NewsInv, ToldIsOld, TagsOfEach
  <2>4. Turns(r, s, Free) /\ FindsNews(Free, known[r])
    BY <1>7, StampedJob, FreeJob DEF FindsNews, NewsInv
  <2> QED
    BY <1>1, <2>3, <2>4, TurnNews
<1> QED
  BY <1>3, <1>4, <1>5, <1>6, <1>7 DEF Job, SearchFailed, Searched

LEMMA HandNews ==
  ASSUME DailyEmailAssumption, NewsInv, Typed', NEW r \in Runs, NEW s \in Slots, Hand(r, s)
  PROVE  NewsInv'
<1>1. PICK j \in Jobs : Turns(r, s, j) /\ j.found = {}
  BY HandedJob DEF NewsInv
<1>2. FindsNews(j, known[r]) /\ UNCHANGED read
  BY <1>1 DEF FindsNews, Hand
<1>3. ToldIsOld'
  BY DEF Hand, store, NewsInv, ToldIsOld
<1> QED
  BY <1>1, <1>2, <1>3, TurnNews

\* What is announced is news again, and what is withdrawn is nothing.
LEMMA AnnounceNews ==
  ASSUME NewsInv, Typed', NEW t \in Tags, Announce(t) \/ Withdraw(t)
  PROVE  NewsInv'
<1>1. \A n \in Entities : told'[n] = told[n] \ {t} /\ newer'[n] \subseteq newer[n] \cup {t}
  BY DEF Announce, Withdraw, Added, Removed
<1>2. \A r \in Runs, n \in Entities : /\ known'[r][n] = known[r][n] \ {t}
                                      /\ since'[r][n] \subseteq since[r][n] \cup {t}
  <2>1. CASE Announce(t)
    <3>1. \A r \in Runs : /\ known'[r] = Removed(known[r], t, Entities)
                          /\ since'[r] = Added(since[r], t, Entities) \/ since'[r] = since[r]
      BY <2>1 DEF Announce
    <3> QED
      BY <3>1 DEF Added, Removed
  <2>2. CASE Withdraw(t)
    <3>a. /\ since' = [r \in Runs |-> Removed(since[r], t, Entities)]
          /\ known' = [r \in Runs |-> Removed(known[r], t, Entities)]
      BY <2>2, Zenon DEF Withdraw
    <3>1. \A r \in Runs : /\ known'[r] = Removed(known[r], t, Entities)
                          /\ since'[r] = Removed(since[r], t, Entities)
      BY <3>a
    <3>2. \A tags : \A n \in Entities : Removed(tags, t, Entities)[n] = tags[n] \ {t}
      BY DEF Removed
    <3>3. TAKE r \in Runs, n \in Entities
    <3>4. known'[r][n] = known[r][n] \ {t} /\ since'[r][n] = since[r][n] \ {t}
      BY <3>1, <3>2
    <3> QED
      BY <3>4
  <2> QED
    BY <2>1, <2>2
<1>3. ToldIsOld' /\ KnownIsOld'
  BY <1>1, <1>2 DEF NewsInv, ToldIsOld, KnownIsOld
<1>4. slot' = slot
  BY DEF Announce, Withdraw
<1>5. JobsFindNews'
  BY <1>2, <1>4, BusyJob DEF NewsInv, JobsFindNews, FindsNews
<1> QED
  BY <1>3, <1>5 DEF NewsInv

LEMMA NewsStep ==
  ASSUME DailyEmailAssumption, NewsInv, [Next]_vars
  PROVE  NewsInv'
<1>0. Typed'
  BY TypedStep DEF NewsInv
<1>1. CASE UNCHANGED vars
  BY <1>0, <1>1 DEF vars, store, read, NewsInv, ToldIsOld, KnownIsOld, JobsFindNews, FindsNews
<1>2. ASSUME NEW r \in Runs, Start(r) \/ Shutdown(r) PROVE NewsInv'
  <2>1. /\ \/ since'[r] = newer /\ known'[r] = told
           \/ since'[r] = Nothing /\ known'[r] = Nothing
        /\ \A x \in Runs \ {r} : since'[x] = since[x] /\ known'[x] = known[x]
        /\ UNCHANGED <<newer, told, slot>> /\ \A s \in Slots : slot[r][s].step = "free"
    BY <1>2 DEF Start, Shutdown, store, NewsInv, Typed, TypeOK, BusyTyped
  <2>2. ToldIsOld' /\ KnownIsOld' /\ JobsFindNews'
    BY <2>1 DEF NewsInv, ToldIsOld, KnownIsOld, JobsFindNews, FindsNews, Nothing
  <2> QED
    BY <1>0, <2>2 DEF NewsInv
<1>3. CASE Crash
  <2>1. \A r \in Runs, s \in Slots : slot'[r][s] = Free
    BY <1>3 DEF Crash, Idle
  <2>2. ToldIsOld' /\ KnownIsOld'
    BY <1>3 DEF Crash, Nothing, store, NewsInv, ToldIsOld, KnownIsOld
  <2>3. JobsFindNews'
    BY <2>1, FreeJob DEF JobsFindNews, FindsNews
  <2> QED
    BY <1>0, <2>2, <2>3 DEF NewsInv
<1> QED
  BY <1>0, <1>1, <1>2, <1>3, AnnounceNews, HandNews, JobNews DEF Next

LEMMA NewsStart == Init => NewsInv
<1> SUFFICES ASSUME Init PROVE NewsInv
  OBVIOUS
<1>1. \A r \in Runs, s \in Slots : slot[r][s] = Free
  BY DEF Init, Idle
<1>2. JobsFindNews
  BY <1>1, FreeJob DEF JobsFindNews, FindsNews
<1>3. ToldIsOld /\ KnownIsOld
  BY DEF Init, Nothing, ToldIsOld, KnownIsOld
<1> QED
  BY <1>2, <1>3, TypedStart DEF NewsInv

\* Whatever fails, however many runs overlap, however many goroutines work, and
\* wherever the process stops: a run mails no entity what it was mailed and stamped
\* for before the run, unless somebody announced it again, be it the entity itself.
THEOREM NoNewsTwice ==
  ASSUME DailyEmailAssumption
  PROVE  Spec => []MailsTellNews
<1>1. Init => NewsInv
  BY NewsStart
<1>2. NewsInv /\ [Next]_vars => NewsInv'
  BY NewsStep
<1>3. NewsInv => MailsTellNews
  BY DEF NewsInv, JobsFindNews, FindsNews, MailsTellNews
<1> QED
  BY <1>1, <1>2, <1>3, PTL DEF Spec
=============================================================================
