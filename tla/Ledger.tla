------------------------------- MODULE Ledger -------------------------------
(***************************************************************************)
(* The PostgreSQL side of MCCS: accounts, balance limits, journals and     *)
(* postings, and the operations of repository/pg on them.  Each operation  *)
(* is one statement or one transaction of the code and is atomic here.     *)
(* Amounts are whole cents: gorm stores them as exact numerics.            *)
(***************************************************************************)
EXTENDS Integers, FiniteSetsExt

CONSTANTS Accounts,    \* account numbers, one per entity
          Journals,    \* the transfer ids that may be drawn (bound)
          NoAccount,   \* the empty account number
          LimitRows,   \* the limits an admin may set (bound)
          DefaultLimit \* max_neg_bal and max_pos_bal of the configuration

ASSUME LedgerAssumption ==
    /\ NoAccount \notin Accounts
    /\ LimitRows \subseteq [neg : Nat, pos : Nat]
    /\ DefaultLimit \in LimitRows

VARIABLES account,     \* accounts table: live is deleted_at IS NULL
          limit,       \* balance_limits table, deleted with its account
          journal,     \* journals table
          posted       \* postings table: pairs of postings of each journal

ledgerVars == <<account, limit, journal, posted>>

Statuses == {"none", "initiated", "completed", "cancelled"}

JournalRows == [status : Statuses, initiator : Accounts \cup {NoAccount},
                from : Accounts \cup {NoAccount}, to : Accounts \cup {NoAccount},
                amount : Nat]

\* The row of a transfer id that was not drawn yet.
NoRow == [status |-> "none", initiator |-> NoAccount,
          from |-> NoAccount, to |-> NoAccount, amount |-> 0]

LedgerInit ==
    /\ account = [a \in Accounts |-> [live |-> TRUE, balance |-> 0]]
    /\ limit = [a \in Accounts |-> DefaultLimit]
    /\ journal = [j \in Journals |-> NoRow]
    /\ posted = [j \in Journals |-> 0]

-----------------------------------------------------------------------------
(* Reads.                                                                  *)

\* Would the account breach one of its limits at this balance?
IsExceedLimit(a, balance) == balance < -limit[a].neg \/ balance > limit[a].pos

\* Mutant: a debt passes for a zero balance.
IsZeroBalanceOrDebt(a) == account[a].live /\ account[a].balance <= 0

IsZeroBalance(a) == account[a].live /\ account[a].balance = 0

-----------------------------------------------------------------------------
(* Writes.                                                                 *)

\* gorm's soft delete: the balance of a deleted account is not updated, and
\* an update that matches no row is not an error.
Credit(accounts, a, amount) ==
    IF accounts[a].live THEN [accounts EXCEPT ![a].balance = @ + amount] ELSE accounts

\* Mutant: only the receiver's balance column is kept up.
SettleReceiver(j, from, to, amount) ==
    /\ posted' = [posted EXCEPT ![j] = @ + 1]
    /\ account' = Credit(account, to, amount)

\* Both postings and both balance updates of one transfer.
Settle(j, from, to, amount) ==
    /\ posted' = [posted EXCEPT ![j] = @ + 1]
    /\ account' = Credit(Credit(account, from, -amount), to, amount)

JournalPropose(j, initiator, from, to, amount) ==
    /\ journal[j].status = "none"
    /\ journal' = [journal EXCEPT ![j] =
                     [status |-> "initiated", initiator |-> initiator,
                      from |-> from, to |-> to, amount |-> amount]]
    /\ UNCHANGED <<account, limit, posted>>

\* The UPDATE names the transfer id only, whatever the row's status.
JournalCancel(j) ==
    /\ journal' = [journal EXCEPT ![j].status = "cancelled"]
    /\ UNCHANGED <<account, limit, posted>>

\* Also without a condition on the status.
JournalAccept(j, from, to, amount) ==
    /\ Settle(j, from, to, amount)
    /\ journal' = [journal EXCEPT ![j].status = "completed"]
    /\ UNCHANGED limit

\* Mutant: the status that propose has set is left.
JournalCreateInitiated(j, from, to, amount) ==
    /\ journal[j].status = "none"
    /\ Settle(j, from, to, amount)
    /\ journal' = [journal EXCEPT ![j] =
                     [status |-> "initiated", initiator |-> NoAccount,
                      from |-> from, to |-> to, amount |-> amount]]
    /\ UNCHANGED limit

\* propose and accept in one transaction; no initiator is recorded.
JournalCreate(j, from, to, amount) ==
    /\ journal[j].status = "none"
    /\ Settle(j, from, to, amount)
    /\ journal' = [journal EXCEPT ![j] =
                     [status |-> "completed", initiator |-> NoAccount,
                      from |-> from, to |-> to, amount |-> amount]]
    /\ UNCHANGED limit

LimitAdminUpdate(a, row) ==
    /\ limit' = IF account[a].live THEN [limit EXCEPT ![a] = row] ELSE limit
    /\ UNCHANGED <<account, journal, posted>>

\* Account and limit rows together; the balance is not looked at again.
AccountDelete(a) ==
    /\ account' = [account EXCEPT ![a].live = FALSE]
    /\ UNCHANGED <<limit, journal, posted>>

-----------------------------------------------------------------------------
(* What the rows say of one another.                                       *)

LedgerTypeOK ==
    /\ account \in [Accounts -> [live : BOOLEAN, balance : Int]]
    /\ limit \in [Accounts -> LimitRows]
    /\ journal \in [Journals -> JournalRows]
    /\ posted \in [Journals -> Nat]

\* What the postings of each transfer have moved, ...
Moved == [j \in Journals |-> posted[j] * journal[j].amount]

\* ... and what all postings on an account add up to.
PostingTotal(a) == SumFunctionOnSet(Moved, {j \in Journals : journal[j].to = a})
                 - SumFunctionOnSet(Moved, {j \in Journals : journal[j].from = a})

\* A live account's balance is the sum of its postings: the balance column that
\* accept keeps beside the postings table never drifts from it, whatever the
\* requests in flight do to each other.
BalanceIsPostingTotal ==
    \A a \in Accounts : account[a].live => account[a].balance = PostingTotal(a)

\* The status and the postings of a journal agree: an initiated transfer has
\* moved nothing yet, a completed one has moved its amount.
StatusMatchesPostings ==
    \A j \in Journals : /\ journal[j].status \in {"none", "initiated"} => posted[j] = 0
                        /\ journal[j].status = "completed" => posted[j] > 0
=============================================================================
