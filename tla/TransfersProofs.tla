-------------------------- MODULE TransfersProofs --------------------------
(***************************************************************************)
(* Proofs about Transfers, for any accounts, users, journals, limits and   *)
(* any number of concurrent requests.                                      *)
(***************************************************************************)
EXTENDS Transfers, FiniteSetTheorems, TLAPS

-----------------------------------------------------------------------------
(***************************************************************************)
(* Sums over finite sets.  The library proves induction over finite sets   *)
(* for predicates, which the provers cannot instantiate; here it is over   *)
(* the set of those for which something holds, from the fact that finite   *)
(* sets are well-founded by inclusion.                                     *)
(***************************************************************************)

\* If a set is among U whenever all smaller ones are, then every finite set is.
LEMMA FiniteSetInduction ==
    ASSUME NEW S, IsFiniteSet(S), NEW U,
           \A T \in SUBSET S : (\A R \in SUBSET T : R # T => R \in U) => T \in U
    PROVE  S \in U
<1> SUFFICES ASSUME S \notin U PROVE FALSE
  OBVIOUS
<1> DEFINE Others == (SUBSET S) \ U
<1>1. Others \subseteq FiniteSubsetsOf(S) /\ Others # {}
  BY FS_FiniteSubsetsOfFinite
<1>2. PICK T \in Others : \A R \in Others : <<R, T>> \notin StrictSubsetOrdering(S)
  <2> HIDE DEF Others
  <2> QED
    BY <1>1, FS_StrictSubsetOrderingWellFounded, WFMin
<1>3. \A R \in SUBSET T : R # T => R \in U
  BY <1>2 DEF StrictSubsetOrdering
<1> QED
  BY <1>2, <1>3

\* The element that a sum takes next, and what it then is, s being the sums of
\* the smaller sets.
Next1(S) == CHOOSE x \in S : TRUE
SumStep(f, s, S) == IF S = {} THEN 0 ELSE f[Next1(S)] + s[S \ {Next1(S)}]

\* The sums of all subsets of S.
AreSums(f, s, S) == s = [T \in SUBSET S |-> SumStep(f, s, T)]
Sums(f, S) == CHOOSE s : AreSums(f, s, S)

LEMMA NextElement == \A S : S # {} => Next1(S) \in S
BY DEF Next1

LEMMA SumIsOfSums ==
    ASSUME NEW f, NEW S
    PROVE  SumFunctionOnSet(f, S) = Sums(f, S)[S]
BY DEF SumFunctionOnSet, FoldFunctionOnSet, MapThenFoldSet, Sums, AreSums, SumStep, Next1

LEMMA SumsAt ==
    ASSUME NEW f, NEW S, NEW s, AreSums(f, s, S), NEW T \in SUBSET S
    PROVE  s[T] = SumStep(f, s, T)
BY DEF AreSums

\* The sums of subsets do not depend on the set they are subsets of.
LEMMA SumsAgree ==
    ASSUME NEW f, NEW A, NEW B, NEW s, NEW t, AreSums(f, s, A), AreSums(f, t, B),
           NEW S, IsFiniteSet(S), S \subseteq A, S \subseteq B
    PROVE  s[S] = t[S]
<1> DEFINE U == {T \in SUBSET S : s[T] = t[T]}
<1>1. ASSUME NEW T \in SUBSET S, \A R \in SUBSET T : R # T => R \in U
      PROVE  T \in U
  <2>1. s[T] = SumStep(f, s, T) /\ t[T] = SumStep(f, t, T)
    BY SumsAt
  <2>2. T # {} => s[T \ {Next1(T)}] = t[T \ {Next1(T)}]
    BY <1>1, NextElement
  <2> QED
    BY <2>1, <2>2 DEF SumStep
<1> HIDE DEF U
<1>2. S \in U
  BY <1>1, FiniteSetInduction
<1> QED
  BY <1>2 DEF U

\* A function with the property that defines the sums exists: put together from
\* those of the smaller sets.
LEMMA SumsExist ==
    ASSUME NEW f, NEW S, IsFiniteSet(S)
    PROVE  AreSums(f, Sums(f, S), S)
<1> DEFINE U == {T \in SUBSET S : AreSums(f, Sums(f, T), T)}
<1>1. ASSUME NEW T \in SUBSET S, \A R \in SUBSET T : R # T => R \in U
      PROVE  T \in U
  <2> DEFINE Rest(R) == R \ {Next1(R)}
             s == [R \in SUBSET T |-> IF R = {} THEN 0
                                      ELSE f[Next1(R)] + Sums(f, Rest(R))[Rest(R)]]
  <2>1. ASSUME NEW R \in SUBSET T, R # T
        PROVE  s[R] = Sums(f, R)[R]
    <3>1. AreSums(f, Sums(f, R), R) /\ Sums(f, R)[R] = SumStep(f, Sums(f, R), R)
      BY <1>1, <2>1, SumsAt
    <3>2. CASE R = {}
      BY <3>1, <3>2 DEF SumStep
    <3>3. CASE R # {}
      <4>1. Rest(R) \subseteq R /\ Rest(R) # T /\ Rest(R) \in SUBSET T /\ IsFiniteSet(Rest(R))
        BY <2>1, <3>3, NextElement, FS_Subset
      <4>2. Sums(f, R)[Rest(R)] = Sums(f, Rest(R))[Rest(R)]
        BY <3>1, <4>1, <1>1, SumsAgree
      <4> QED
        BY <3>1, <3>3, <4>2 DEF SumStep
    <3> QED
      BY <3>2, <3>3
  <2>2. ASSUME NEW R \in SUBSET T
        PROVE  s[R] = SumStep(f, s, R)
    <3>1. CASE R = {}
      BY <3>1 DEF SumStep
    <3>2. CASE R # {}
      <4>1. Rest(R) \in SUBSET T /\ Rest(R) # T
        BY <3>2, NextElement
      <4>2. s[Rest(R)] = Sums(f, Rest(R))[Rest(R)] /\ s[R] = f[Next1(R)] + Sums(f, Rest(R))[Rest(R)]
        BY <4>1, <2>1, <3>2
      <4> HIDE DEF s
      <4> QED
        BY <4>2, <3>2 DEF SumStep
    <3> QED
      BY <3>1, <3>2
  <2>3. s = [R \in SUBSET T |-> s[R]]
    OBVIOUS
  <2> HIDE DEF s
  <2>4. AreSums(f, s, T)
    BY <2>2, <2>3 DEF AreSums
  <2> QED
    BY <2>4 DEF Sums
<1> HIDE DEF U
<1>2. S \in U
  BY <1>1, FiniteSetInduction
<1> QED
  BY <1>2 DEF U

\* The equation of a sum.
LEMMA SumEquation ==
    ASSUME NEW f, NEW S, IsFiniteSet(S)
    PROVE  SumFunctionOnSet(f, S) =
             IF S = {} THEN 0 ELSE f[Next1(S)] + SumFunctionOnSet(f, S \ {Next1(S)})
<1> DEFINE R == S \ {Next1(S)}
<1>1. SumFunctionOnSet(f, S) = SumStep(f, Sums(f, S), S)
  BY SumsExist, SumsAt, SumIsOfSums
<1>2. Sums(f, S)[R] = Sums(f, R)[R]
  <2>1. IsFiniteSet(R)
    BY FS_Subset
  <2> QED
    BY <2>1, SumsExist, SumsAgree
<1> QED
  BY <1>1, <1>2, SumIsOfSums DEF SumStep

LEMMA SumInteger ==
    ASSUME NEW S, IsFiniteSet(S), NEW f, \A x \in S : f[x] \in Int
    PROVE  SumFunctionOnSet(f, S) \in Int
<1> DEFINE U == {T \in SUBSET S : SumFunctionOnSet(f, T) \in Int}
<1>1. ASSUME NEW T \in SUBSET S, \A R \in SUBSET T : R # T => R \in U
      PROVE  T \in U
  <2>1. SumFunctionOnSet(f, T) =
          IF T = {} THEN 0 ELSE f[Next1(T)] + SumFunctionOnSet(f, T \ {Next1(T)})
    BY FS_Subset, SumEquation
  <2>2. T # {} => SumFunctionOnSet(f, T \ {Next1(T)}) \in Int /\ f[Next1(T)] \in Int
    BY <1>1, NextElement
  <2> QED
    BY <2>1, <2>2
<1> HIDE DEF U
<1>2. S \in U
  BY <1>1, FiniteSetInduction
<1> QED
  BY <1>2 DEF U

\* A sum depends on nothing but its summands.
LEMMA SumSame ==
    ASSUME NEW S, IsFiniteSet(S), NEW f, NEW g, \A x \in S : f[x] = g[x]
    PROVE  SumFunctionOnSet(f, S) = SumFunctionOnSet(g, S)
<1> DEFINE U == {T \in SUBSET S : SumFunctionOnSet(f, T) = SumFunctionOnSet(g, T)}
<1>1. ASSUME NEW T \in SUBSET S, \A R \in SUBSET T : R # T => R \in U
      PROVE  T \in U
  <2> DEFINE R == T \ {Next1(T)}
  <2>1. IsFiniteSet(T)
    BY FS_Subset
  <2>2. /\ SumFunctionOnSet(f, T) = IF T = {} THEN 0 ELSE f[Next1(T)] + SumFunctionOnSet(f, R)
        /\ SumFunctionOnSet(g, T) = IF T = {} THEN 0 ELSE g[Next1(T)] + SumFunctionOnSet(g, R)
    BY <2>1, SumEquation
  <2>3. T # {} => SumFunctionOnSet(f, R) = SumFunctionOnSet(g, R) /\ f[Next1(T)] = g[Next1(T)]
    BY <1>1, NextElement
  <2> QED
    BY <2>2, <2>3
<1> HIDE DEF U
<1>2. S \in U
  BY <1>1, FiniteSetInduction
<1> QED
  BY <1>2 DEF U

\* Any element may be taken out of a sum.
LEMMA SumWithout ==
    ASSUME NEW S, IsFiniteSet(S), NEW f, \A x \in S : f[x] \in Int, NEW x \in S
    PROVE  SumFunctionOnSet(f, S) = f[x] + SumFunctionOnSet(f, S \ {x})
<1> DEFINE Sum(T) == SumFunctionOnSet(f, T)
           U == {T \in SUBSET S : \A y \in T : Sum(T) = f[y] + Sum(T \ {y})}
<1>1. ASSUME NEW T \in SUBSET S, \A R \in SUBSET T : R # T => R \in U
      PROVE  T \in U
  <2> SUFFICES ASSUME NEW y \in T PROVE Sum(T) = f[y] + Sum(T \ {y})
    OBVIOUS
  <2> DEFINE z == Next1(T)
             rest == (T \ {y}) \ {z}
  <2>1. z \in T
    BY NextElement
  <2>2. /\ IsFiniteSet(T) /\ IsFiniteSet(rest)
        /\ \A R \in SUBSET T : R # T => \A v \in R : Sum(R) = f[v] + Sum(R \ {v})
    BY <1>1, FS_Subset
  <2>3. Sum(T) = f[z] + Sum(T \ {z})
    BY <2>1, <2>2, SumEquation
  <2>4. CASE y = z
    BY <2>3, <2>4
  <2>5. CASE y # z
    <3>1. rest = (T \ {z}) \ {y}
      OBVIOUS
    <3>2. Sum(T \ {z}) = f[y] + Sum(rest)
      BY <2>1, <2>2, <2>5, <3>1
    <3>3. Sum(T \ {y}) = f[z] + Sum(rest)
      BY <2>1, <2>2, <2>5
    <3>4. Sum(rest) \in Int /\ f[y] \in Int /\ f[z] \in Int
      BY <2>1, <2>2, SumInteger
    <3> QED
      BY <2>3, <3>2, <3>3, <3>4
  <2> QED
    BY <2>4, <2>5
<1> HIDE DEF U
<1>2. S \in U
  BY <1>1, FiniteSetInduction
<1> QED
  BY <1>2 DEF U

-----------------------------------------------------------------------------
(* What each ledger operation preserves, whoever calls it and in whatever   *)
(* order: the facts the proofs about the requests rest on.                  *)

AccountRows == [live : BOOLEAN, balance : Int]

Final == {"completed", "cancelled"}

\* A drawn transfer is between two accounts, and its status agrees with its
\* postings.
LedgerInv ==
    /\ LedgerTypeOK
    /\ \A j \in Journals : journal[j].status # "none" =>
          /\ journal[j].from \in Accounts /\ journal[j].to \in Accounts
          /\ journal[j].from # journal[j].to
    /\ StatusMatchesPostings

\* What no operation does to a journal: erase it, rewrite its terms, reopen it
\* or remove a posting.
JournalKept ==
    \A j \in Journals :
       /\ journal[j].status # "none" =>
             /\ journal'[j].status # "none"
             /\ journal'[j].initiator = journal[j].initiator
             /\ journal'[j].from = journal[j].from
             /\ journal'[j].to = journal[j].to
             /\ journal'[j].amount = journal[j].amount
       /\ journal[j].status \in Final => journal'[j].status \in Final
       /\ posted'[j] >= posted[j]

-----------------------------------------------------------------------------
\* A credit keeps the accounts table well typed, whoever is credited.
LEMMA CreditType ==
    ASSUME NEW accounts \in [Accounts -> AccountRows], NEW a, NEW amount \in Int
    PROVE  Credit(accounts, a, amount) \in [Accounts -> AccountRows]
<1>1. ASSUME a \in Accounts
      PROVE  [accounts[a] EXCEPT !.balance = @ + amount] \in AccountRows
  BY <1>1 DEF AccountRows
<1>2. [accounts EXCEPT ![a].balance = @ + amount] \in [Accounts -> AccountRows]
  BY <1>1
<1> QED
  BY <1>2 DEF Credit

\* The two postings of a transfer keep the tables well typed and are counted.
LEMMA SettleType ==
    ASSUME LedgerTypeOK, NEW j \in Journals, NEW from, NEW to, NEW amount \in Nat,
           Settle(j, from, to, amount)
    PROVE  /\ account' \in [Accounts -> AccountRows]
           /\ posted' \in [Journals -> Nat]
           /\ posted'[j] = posted[j] + 1
           /\ \A k \in Journals : k # j => posted'[k] = posted[k]
<1>1. account \in [Accounts -> AccountRows]
  BY DEF LedgerTypeOK, AccountRows
<1>2. Credit(account, from, -amount) \in [Accounts -> AccountRows]
  BY <1>1, CreditType
<1>3. Credit(Credit(account, from, -amount), to, amount) \in [Accounts -> AccountRows]
  BY <1>2, CreditType
<1>4. posted \in [Journals -> Nat]
  BY DEF LedgerTypeOK
<1> QED
  BY <1>3, <1>4 DEF Settle

\* Initially the ledger is consistent.
LEMMA LedgerInitInv == LedgerInit => LedgerInv
BY LedgerAssumption
   DEF LedgerAssumption, LedgerInit, LedgerInv, LedgerTypeOK, StatusMatchesPostings,
       JournalRows, NoRow, Statuses

\* The terms of one row, and that a change of the row keeps them.
SameTerms(row, new) ==
    /\ new.status # "none" /\ new.initiator = row.initiator
    /\ new.from = row.from /\ new.to = row.to /\ new.amount = row.amount
    /\ row.status \in Final => new.status \in Final

\* An operation that changes one journal only has to keep that one consistent.
LEMMA OneJournalInv ==
    ASSUME LedgerInv, NEW j \in Journals, UNCHANGED limit,
           account' \in [Accounts -> AccountRows],
           journal' \in [Journals -> JournalRows], posted' \in [Journals -> Nat],
           \A k \in Journals : k # j => journal'[k] = journal[k] /\ posted'[k] = posted[k],
           journal[j].status = "none" \/ SameTerms(journal[j], journal'[j]),
           journal'[j].from \in Accounts, journal'[j].to \in Accounts,
           journal'[j].from # journal'[j].to,
           posted'[j] >= posted[j],
           journal'[j].status \in {"none", "initiated"} => posted'[j] = 0,
           journal'[j].status = "completed" => posted'[j] > 0
    PROVE  LedgerInv' /\ JournalKept
<1>1. LedgerTypeOK'
  BY DEF LedgerInv, LedgerTypeOK, AccountRows
<1>2. ASSUME NEW k \in Journals
      PROVE  /\ journal'[k].status # "none" =>
                   /\ journal'[k].from \in Accounts /\ journal'[k].to \in Accounts
                   /\ journal'[k].from # journal'[k].to
             /\ journal'[k].status \in {"none", "initiated"} => posted'[k] = 0
             /\ journal'[k].status = "completed" => posted'[k] > 0
  <2>1. CASE k = j
    BY <2>1
  <2>2. CASE k # j
    BY <2>2 DEF LedgerInv, StatusMatchesPostings
  <2> QED
    BY <2>1, <2>2
<1>3. ASSUME NEW k \in Journals
      PROVE  /\ journal[k].status # "none" => SameTerms(journal[k], journal'[k])
             /\ journal[k].status \in Final => journal'[k].status \in Final
             /\ posted'[k] >= posted[k]
  <2>1. CASE k = j
    BY <2>1 DEF SameTerms, Final
  <2>2. CASE k # j
    BY <2>2 DEF SameTerms, LedgerInv, LedgerTypeOK
  <2> QED
    BY <2>1, <2>2
<1>4. JournalKept
  BY <1>3 DEF JournalKept, SameTerms
<1> QED
  BY <1>1, <1>2, <1>4 DEF LedgerInv, StatusMatchesPostings

\* Drawing a transfer id keeps the ledger consistent.
LEMMA ProposeInv ==
    ASSUME LedgerInv, NEW j \in Journals, NEW initiator \in Accounts,
           NEW from \in Accounts, NEW to \in Accounts, from # to, NEW amount \in Nat,
           JournalPropose(j, initiator, from, to, amount)
    PROVE  LedgerInv' /\ JournalKept
<1> DEFINE row == [status |-> "initiated", initiator |-> initiator,
                   from |-> from, to |-> to, amount |-> amount]
<1>1. row \in JournalRows
  BY DEF JournalRows, Statuses
<1>2. /\ journal' \in [Journals -> JournalRows] /\ journal'[j] = row
      /\ \A k \in Journals : k # j => journal'[k] = journal[k]
  BY <1>1 DEF JournalPropose, LedgerInv, LedgerTypeOK
<1>3. journal[j].status = "none" /\ UNCHANGED <<account, limit, posted>>
  BY DEF JournalPropose
<1>4. /\ account \in [Accounts -> AccountRows] /\ posted \in [Journals -> Nat]
      /\ posted[j] = 0
  BY <1>3 DEF LedgerInv, LedgerTypeOK, AccountRows, StatusMatchesPostings
<1> QED
  BY <1>2, <1>3, <1>4, OneJournalInv

\* Setting the status of a drawn transfer touches nothing else of its row.
LEMMA StatusType ==
    ASSUME LedgerTypeOK, NEW j \in Journals, NEW status \in Statuses,
           journal' = [journal EXCEPT ![j].status = status]
    PROVE  /\ journal' \in [Journals -> JournalRows]
           /\ journal'[j].status = status
           /\ journal'[j].initiator = journal[j].initiator
           /\ journal'[j].from = journal[j].from
           /\ journal'[j].to = journal[j].to
           /\ journal'[j].amount = journal[j].amount
           /\ \A k \in Journals : k # j => journal'[k] = journal[k]
<1>1. journal \in [Journals -> JournalRows]
  BY DEF LedgerTypeOK
<1>2. journal'[j] = [journal[j] EXCEPT !.status = status]
  BY <1>1
<1>3. journal[j] \in JournalRows
  BY <1>1
<1>4. [journal[j] EXCEPT !.status = status] \in JournalRows
  BY <1>3 DEF JournalRows
<1>5. journal' \in [Journals -> JournalRows]
  BY <1>1, <1>4
<1>6. \A k \in Journals : k # j => journal'[k] = journal[k]
  BY <1>1
<1> QED
  BY <1>2, <1>3, <1>5, <1>6 DEF JournalRows

\* Cancelling keeps the ledger consistent, whatever the status was.
LEMMA CancelInv ==
    ASSUME LedgerInv, NEW j \in Journals, journal[j].status # "none", JournalCancel(j)
    PROVE  LedgerInv' /\ JournalKept
<1>1. "cancelled" \in Statuses
  BY DEF Statuses
<1>2. /\ journal' = [journal EXCEPT ![j].status = "cancelled"]
      /\ UNCHANGED <<account, limit, posted>>
  BY DEF JournalCancel
<1>3. /\ LedgerTypeOK
      /\ account \in [Accounts -> AccountRows] /\ posted \in [Journals -> Nat]
      /\ journal[j].from \in Accounts /\ journal[j].to \in Accounts
      /\ journal[j].from # journal[j].to
  BY DEF LedgerInv, LedgerTypeOK, AccountRows
<1>4. /\ journal' \in [Journals -> JournalRows] /\ journal'[j].status = "cancelled"
      /\ journal'[j].initiator = journal[j].initiator
      /\ journal'[j].from = journal[j].from /\ journal'[j].to = journal[j].to
      /\ journal'[j].amount = journal[j].amount
      /\ \A k \in Journals : k # j => journal'[k] = journal[k]
  BY <1>1, <1>2, <1>3, StatusType
<1>5. SameTerms(journal[j], journal'[j])
  BY <1>4 DEF SameTerms, Final
<1>6. posted'[j] >= posted[j]
  BY <1>2, <1>3
<1> QED
  BY <1>2, <1>3, <1>4, <1>5, <1>6, OneJournalInv

\* Accepting keeps the ledger consistent, whatever the status was.
LEMMA AcceptInv ==
    ASSUME LedgerInv, NEW j \in Journals, journal[j].status # "none",
           NEW from, NEW to, NEW amount \in Nat, JournalAccept(j, from, to, amount)
    PROVE  LedgerInv' /\ JournalKept
<1>1. "completed" \in Statuses
  BY DEF Statuses
<1>2. /\ Settle(j, from, to, amount)
      /\ journal' = [journal EXCEPT ![j].status = "completed"]
      /\ UNCHANGED limit
  BY DEF JournalAccept
<1>3. /\ LedgerTypeOK /\ posted[j] \in Nat
      /\ journal[j].from \in Accounts /\ journal[j].to \in Accounts
      /\ journal[j].from # journal[j].to
  BY DEF LedgerInv, LedgerTypeOK
<1>4. /\ journal' \in [Journals -> JournalRows] /\ journal'[j].status = "completed"
      /\ journal'[j].initiator = journal[j].initiator
      /\ journal'[j].from = journal[j].from /\ journal'[j].to = journal[j].to
      /\ journal'[j].amount = journal[j].amount
      /\ \A k \in Journals : k # j => journal'[k] = journal[k]
  BY <1>1, <1>2, <1>3, StatusType
<1>5. /\ account' \in [Accounts -> AccountRows] /\ posted' \in [Journals -> Nat]
      /\ posted'[j] = posted[j] + 1
      /\ \A k \in Journals : k # j => posted'[k] = posted[k]
  BY <1>2, <1>3, SettleType
<1>6. SameTerms(journal[j], journal'[j])
  BY <1>4 DEF SameTerms, Final
<1>7. posted'[j] >= posted[j] /\ posted'[j] > 0
  BY <1>3, <1>5
<1> QED
  BY <1>2, <1>3, <1>4, <1>5, <1>6, <1>7, OneJournalInv

\* Creating a completed transfer keeps the ledger consistent.
LEMMA CreateInv ==
    ASSUME LedgerInv, NEW j \in Journals, NEW from \in Accounts, NEW to \in Accounts,
           from # to, NEW amount \in Nat, JournalCreate(j, from, to, amount)
    PROVE  LedgerInv' /\ JournalKept
<1> DEFINE row == [status |-> "completed", initiator |-> NoAccount,
                   from |-> from, to |-> to, amount |-> amount]
<1>1. row \in JournalRows
  BY DEF JournalRows, Statuses
<1>2. /\ journal' \in [Journals -> JournalRows] /\ journal'[j] = row
      /\ \A k \in Journals : k # j => journal'[k] = journal[k]
  BY <1>1 DEF JournalCreate, LedgerInv, LedgerTypeOK
<1>3. journal[j].status = "none" /\ Settle(j, from, to, amount) /\ UNCHANGED limit
  BY DEF JournalCreate
<1>4. /\ account' \in [Accounts -> AccountRows] /\ posted' \in [Journals -> Nat]
      /\ posted[j] \in Nat /\ posted'[j] = posted[j] + 1
      /\ \A k \in Journals : k # j => posted'[k] = posted[k]
  BY <1>3, SettleType DEF LedgerInv, LedgerTypeOK
<1> QED
  BY <1>2, <1>3, <1>4, OneJournalInv

\* Changing a limit or deleting an account touches no journal.
LEMMA AdminInv ==
    ASSUME LedgerInv, NEW a \in Accounts,
           \/ \E row \in LimitRows : LimitAdminUpdate(a, row)
           \/ AccountDelete(a)
    PROVE  LedgerInv' /\ UNCHANGED <<journal, posted>>
<1>1. CASE AccountDelete(a)
  <2>1. account \in [Accounts -> AccountRows]
    BY DEF LedgerInv, LedgerTypeOK, AccountRows
  <2>2. [account[a] EXCEPT !.live = FALSE] \in AccountRows
    BY <2>1 DEF AccountRows
  <2>3. account' \in [Accounts -> AccountRows]
    BY <1>1, <2>1, <2>2 DEF AccountDelete
  <2> QED
    BY <1>1, <2>3
       DEF AccountDelete, LedgerInv, LedgerTypeOK, AccountRows, StatusMatchesPostings
<1>2. CASE \E row \in LimitRows : LimitAdminUpdate(a, row)
  BY <1>2 DEF LimitAdminUpdate, LedgerInv, LedgerTypeOK, StatusMatchesPostings
<1> QED
  BY <1>1, <1>2

-----------------------------------------------------------------------------
(* The inductive invariant: types, the ledger, what each handler holds, and *)
(* the index.                                                              *)

CheckSteps == {"balances", "limits", "commit"}
IndexSteps == {"readBack", "index"}
MirrorSteps == {"readFrom", "writeFrom", "readTo", "writeTo"}
EntitySteps == {"unindex", "unlist", "close", "setLimits", "setStatus"}

Decisions == Cancellations \cup {"accept"}

\* What a handler about to take this step knows of the journal it read, J and P
\* being the journals and postings as they are now: the row may have been
\* decided since, but it exists and its terms are those that were read.
RequestOK(step, r, J, P) ==
    /\ step \in CheckSteps \cup IndexSteps \cup MirrorSteps =>
          r.from \in Accounts /\ r.to \in Accounts /\ r.from # r.to
    /\ step \in EntitySteps => r.from \in Accounts
    /\ step \in CheckSteps =>
          /\ r.kind \in Decisions \cup {"propose", "create"}
          /\ r.kind = "propose" => r.initiator \in Accounts
          /\ r.kind \in Decisions =>
                /\ r.j \in Journals /\ J[r.j].status # "none"
                /\ J[r.j].from = r.from /\ J[r.j].to = r.to
                /\ J[r.j].initiator = r.initiator /\ J[r.j].amount = r.amount
          /\ r.kind = "accept" =>
                r.user \in (Members[r.from] \cup Members[r.to]) \ Members[r.initiator]
    /\ step \in IndexSteps => r.j \in Journals /\ J[r.j].status # "none"
    /\ step = "readBack" => J[r.j].status \in Final
    /\ step = "index" => /\ r.status = "completed" => P[r.j] > 0
                         /\ r.status = "cancelled" => J[r.j].status \in Final

RequestsOK == \A w \in Workers : RequestOK(pc[w], req[w], journal, posted)

Inv == TypeOK /\ LedgerInv /\ RequestsOK /\ IndexNeverAhead

\* The stores' part of the invariant.
StoresOK == /\ LedgerInv
            /\ entity \in [Accounts -> EntityStatuses]
            /\ entityDoc \in [Accounts -> [present : BOOLEAN, balance : Int]]
            /\ journalDoc \in [Journals -> Statuses]
            /\ IndexNeverAhead

\* A step of one worker that keeps the invariant: the stores stay consistent, no
\* journal is rewritten, and what the worker holds fits its next step.
Advance(w) == /\ StoresOK' /\ JournalKept
              /\ \E step \in Steps, r \in Requests :
                    Go(w, step, r) /\ RequestOK(step, r, journal', posted')

-----------------------------------------------------------------------------
(* Moving a worker.                                                        *)

LEMMA NoReqType == NoReq \in Requests
BY DEF NoReq, Requests, Kinds, Statuses

\* The invariant consists of the stores' part and the workers' part.
LEMMA InvParts ==
    Inv <=> /\ StoresOK
            /\ pc \in [Workers -> Steps] /\ req \in [Workers -> Requests]
            /\ RequestsOK
BY DEF Inv, StoresOK, TypeOK, LedgerInv

\* What a waiting handler knows stays true while other requests run.
LEMMA RequestStable ==
    ASSUME StoresOK, StoresOK', JournalKept, NEW step, NEW r \in Requests,
           RequestOK(step, r, journal, posted)
    PROVE  RequestOK(step, r, journal', posted')
<1>1. CASE r.j \notin Journals
  BY <1>1 DEF RequestOK, IndexSteps
<1>2. CASE r.j \in Journals
  <2> DEFINE k == r.j
             row == journal[k]
             new == journal'[k]
  <2>1. /\ row.status # "none" =>
              /\ new.status # "none" /\ new.initiator = row.initiator
              /\ new.from = row.from /\ new.to = row.to /\ new.amount = row.amount
        /\ row.status \in Final => new.status \in Final
    BY <1>2 DEF JournalKept
  <2>2. posted[k] > 0 => posted'[k] > 0
    <3>1. posted[k] \in Nat /\ posted'[k] \in Nat /\ posted'[k] >= posted[k]
      BY <1>2 DEF JournalKept, StoresOK, LedgerInv, LedgerTypeOK
    <3> QED
      BY <3>1
  <2> QED
    BY <2>1, <2>2 DEF RequestOK
<1> QED
  BY <1>1, <1>2

\* A step that keeps the invariant for its own worker keeps it for all of them.
LEMMA AdvanceInv ==
    ASSUME Inv, NEW w \in Workers, Advance(w)
    PROVE  Inv'
<1>1. PICK step \in Steps, r \in Requests :
             Go(w, step, r) /\ RequestOK(step, r, journal', posted')
  BY DEF Advance
<1>2. /\ pc \in [Workers -> Steps] /\ req \in [Workers -> Requests] /\ RequestsOK
      /\ StoresOK
  BY InvParts
<1>3. /\ pc' \in [Workers -> Steps] /\ req' \in [Workers -> Requests]
      /\ pc'[w] = step /\ req'[w] = r
      /\ \A v \in Workers : v # w => pc'[v] = pc[v] /\ req'[v] = req[v]
  BY <1>1, <1>2 DEF Go
<1>4. ASSUME NEW v \in Workers
      PROVE  RequestOK(pc'[v], req'[v], journal', posted')
  <2>1. CASE v = w
    BY <2>1, <1>1, <1>3
  <2>2. CASE v # w
    <3>1. RequestOK(pc[v], req[v], journal, posted) /\ req[v] \in Requests
      BY <1>2 DEF RequestsOK
    <3>2. RequestOK(pc[v], req[v], journal', posted')
      BY <3>1, <1>2, RequestStable DEF Advance
    <3> QED
      BY <3>2, <2>2, <1>3
  <2> QED
    BY <2>1, <2>2
<1>5. RequestsOK'
  BY <1>4 DEF RequestsOK
<1>6. StoresOK'
  BY DEF Advance
<1> QED
  BY <1>3, <1>5, <1>6 DEF Inv, StoresOK, TypeOK, LedgerInv

\* A step that leaves the journals alone rewrites none.
LEMMA SameJournals ==
    ASSUME LedgerInv, UNCHANGED <<journal, posted>>
    PROVE  JournalKept
BY DEF JournalKept, LedgerInv, LedgerTypeOK

\* A step that leaves the stores alone keeps them consistent.
LEMMA SameStores ==
    ASSUME StoresOK, UNCHANGED stores
    PROVE  StoresOK' /\ JournalKept
<1>1. JournalKept
  BY SameJournals DEF StoresOK, stores
<1> QED
  BY <1>1 DEF StoresOK, stores, LedgerInv, LedgerTypeOK, StatusMatchesPostings, IndexNeverAhead

\* Responding to the request needs nothing of it.
LEMMA FinishAdvance ==
    ASSUME NEW w \in Workers, Finish(w), StoresOK', JournalKept
    PROVE  Advance(w)
<1>1. "idle" \in Steps /\ RequestOK("idle", NoReq, journal', posted')
  BY DEF Steps, RequestOK, CheckSteps, IndexSteps, MirrorSteps, EntitySteps
<1> QED
  BY <1>1, NoReqType DEF Finish, Advance

\* Another step of the handler, with a request that fits it.
LEMMA GoAdvance ==
    ASSUME NEW w, NEW step \in Steps, NEW r \in Requests, Go(w, step, r),
           RequestOK(step, r, journal', posted'), StoresOK', JournalKept
    PROVE  Advance(w)
BY DEF Advance

-----------------------------------------------------------------------------
(* Loading and validating a request.                                       *)

\* A request as it is loaded fits its first step; no store is changed yet.
LEMMA SubmitAdvance ==
    ASSUME NEW w \in Workers, NEW step \in Steps, NEW r \in Requests,
           Submit(w, step, r), StoresOK, RequestOK(step, r, journal, posted)
    PROVE  Advance(w)
<1>1. StoresOK' /\ JournalKept
  BY SameStores DEF Submit
<1>2. Go(w, step, r) /\ RequestOK(step, r, journal', posted')
  BY <1>1, RequestStable DEF Submit
<1> QED
  BY <1>1, <1>2, GoAdvance

LEMMA AdminTransferAdvance ==
    ASSUME Inv, NEW w \in Workers, NEW from \in Accounts, NEW to \in Accounts,
           NEW amount \in Amounts, SubmitAdminTransfer(w, from, to, amount)
    PROVE  Advance(w)
<1> DEFINE r == [NoReq EXCEPT !.kind = "create",
                              !.from = from, !.to = to, !.amount = amount]
<1>1. /\ r \in Requests /\ r.kind = "create" /\ r.from = from /\ r.to = to
      /\ from # to
  BY NoReqType, TransfersAssumption
     DEF TransfersAssumption, Requests, Kinds, SubmitAdminTransfer, MayTrade
<1>2. "balances" \in Steps /\ RequestOK("balances", r, journal, posted)
  BY <1>1 DEF Steps, RequestOK, CheckSteps, IndexSteps, MirrorSteps, EntitySteps,
              Decisions, Cancellations
<1>3. Submit(w, "balances", r)
  BY DEF SubmitAdminTransfer
<1> QED
  BY <1>1, <1>2, <1>3, SubmitAdvance, InvParts

LEMMA ProposalAdvance ==
    ASSUME Inv, NEW w \in Workers, NEW u \in Users, NEW from \in Accounts,
           NEW to \in Accounts, NEW amount \in Amounts, NEW initiator,
           SubmitProposal(w, u, initiator, from, to, amount)
    PROVE  Advance(w)
<1> DEFINE r == [NoReq EXCEPT !.kind = "propose", !.user = u, !.initiator = initiator,
                              !.from = from, !.to = to, !.amount = amount]
<1>1. /\ r \in Requests /\ r.kind = "propose" /\ r.from = from /\ r.to = to
      /\ from # to /\ r.initiator \in Accounts
  BY NoReqType, TransfersAssumption
     DEF TransfersAssumption, Requests, Kinds, SubmitProposal, MayTrade
<1>2. "balances" \in Steps /\ RequestOK("balances", r, journal, posted)
  BY <1>1 DEF Steps, RequestOK, CheckSteps, IndexSteps, MirrorSteps, EntitySteps,
              Decisions, Cancellations
<1>3. Submit(w, "balances", r)
  BY DEF SubmitProposal
<1> QED
  BY <1>1, <1>2, <1>3, SubmitAdvance, InvParts

LEMMA DecisionAdvance ==
    ASSUME Inv, NEW w \in Workers, NEW u \in Users, NEW j \in Journals,
           NEW kind \in {"accept", "reject", "cancel"}, SubmitDecision(w, u, j, kind)
    PROVE  Advance(w)
<1> DEFINE row == journal[j]
           r == [NoReq EXCEPT !.kind = kind, !.user = u, !.j = j,
                              !.initiator = row.initiator, !.from = row.from,
                              !.to = row.to, !.amount = row.amount]
<1>1. /\ row \in JournalRows /\ row.status # "none"
      /\ row.from \in Accounts /\ row.to \in Accounts /\ row.from # row.to
  BY DEF SubmitDecision, Decidable, Inv, LedgerInv, LedgerTypeOK
<1>2. r \in Requests
  BY <1>1, NoReqType DEF Requests, Kinds, Cancellations, JournalRows
<1>3. /\ r.kind = kind /\ r.user = u /\ r.j = j /\ r.initiator = row.initiator
      /\ r.from = row.from /\ r.to = row.to /\ r.amount = row.amount
  BY NoReqType DEF Requests
<1>4. kind = "accept" =>
        u \in (Members[row.from] \cup Members[row.to]) \ Members[row.initiator]
  BY DEF SubmitDecision, Permitted
<1>5. "balances" \in Steps /\ RequestOK("balances", r, journal, posted)
  BY <1>1, <1>3, <1>4 DEF Steps, RequestOK, CheckSteps, IndexSteps, MirrorSteps, EntitySteps,
                          Decisions, Cancellations
<1>6. Submit(w, "balances", r)
  BY DEF SubmitDecision
<1> QED
  BY <1>2, <1>5, <1>6, SubmitAdvance, InvParts

LEMMA EntityRequestAdvance ==
    ASSUME Inv, NEW w \in Workers, NEW a \in Accounts,
           SubmitDelete(w, a) \/ SubmitEntityUpdate(w, a)
    PROVE  Advance(w)
<1> DEFINE del == [NoReq EXCEPT !.kind = "delete", !.from = a]
           upd == [NoReq EXCEPT !.kind = "updateEntity", !.from = a]
<1>1. del \in Requests /\ del.from = a /\ upd \in Requests /\ upd.from = a
  BY NoReqType DEF Requests, Kinds
<1>2. /\ "unindex" \in Steps /\ "setLimits" \in Steps
      /\ RequestOK("unindex", del, journal, posted)
      /\ RequestOK("setLimits", upd, journal, posted)
  BY <1>1 DEF Steps, RequestOK, CheckSteps, IndexSteps, MirrorSteps, EntitySteps
<1>3. Submit(w, "unindex", del) \/ Submit(w, "setLimits", upd)
  BY DEF SubmitDelete, SubmitEntityUpdate
<1> QED
  BY <1>1, <1>2, <1>3, SubmitAdvance, InvParts

LEMMA SubmitAnyAdvance ==
    ASSUME Inv, NEW w \in Workers, SubmitAny(w)
    PROVE  Advance(w)
BY AdminTransferAdvance, ProposalAdvance, DecisionAdvance, EntityRequestAdvance
   DEF SubmitAny

LEMMA FailAdvance ==
    ASSUME Inv, NEW w \in Workers, Fail(w)
    PROVE  Advance(w)
BY InvParts, SameStores, FinishAdvance DEF Fail

-----------------------------------------------------------------------------
(* Checking the balances.                                                  *)

LEMMA ReadBalancesAdvance ==
    ASSUME Inv, NEW w \in Workers, ReadBalances(w)
    PROVE  Advance(w)
<1> DEFINE r == req[w]
           new == [r EXCEPT !.fromBal = account[r.from].balance,
                            !.toBal = account[r.to].balance]
<1>1. StoresOK' /\ JournalKept
  BY InvParts, SameStores DEF ReadBalances
<1>2. CASE Finish(w)
  BY <1>1, <1>2, FinishAdvance
<1>3. CASE Go(w, "limits", new)
  <2>1. r \in Requests /\ RequestOK("balances", r, journal, posted) /\ "limits" \in Steps
    BY InvParts DEF RequestsOK, ReadBalances, Steps
  <2>2. account[r.from].balance \in Int /\ account[r.to].balance \in Int
    BY <2>1 DEF RequestOK, CheckSteps, Inv, TypeOK, LedgerTypeOK
  <2>3. /\ new \in Requests /\ new.kind = r.kind /\ new.user = r.user /\ new.j = r.j
        /\ new.initiator = r.initiator /\ new.from = r.from /\ new.to = r.to
        /\ new.amount = r.amount
    BY <2>1, <2>2 DEF Requests
  <2>4. RequestOK("limits", new, journal, posted)
    BY <2>1, <2>3 DEF RequestOK, CheckSteps, IndexSteps, MirrorSteps, EntitySteps
  <2> QED
    BY <2>1, <2>3, <2>4, <1>1, <1>3, GoAdvance DEF ReadBalances, stores
<1> QED
  BY <1>2, <1>3 DEF ReadBalances

LEMMA CheckLimitsAdvance ==
    ASSUME Inv, NEW w \in Workers, CheckLimits(w)
    PROVE  Advance(w)
<1> DEFINE zero == 0
           r == [req[w] EXCEPT !.fromBal = zero, !.toBal = zero]
           sys == [r EXCEPT !.kind = "cancelBySystem"]
<1>0. zero \in Int
  OBVIOUS
<1> HIDE DEF zero
<1>1. StoresOK' /\ JournalKept /\ UNCHANGED <<journal, posted>>
  BY InvParts, SameStores DEF CheckLimits, stores
<1>2. /\ req[w] \in Requests /\ RequestOK("limits", req[w], journal, posted)
      /\ "commit" \in Steps
  BY InvParts DEF RequestsOK, CheckLimits, Steps
<1>3. /\ r \in Requests /\ r.kind = req[w].kind /\ r.user = req[w].user /\ r.j = req[w].j
      /\ r.initiator = req[w].initiator /\ r.from = req[w].from /\ r.to = req[w].to
      /\ r.amount = req[w].amount
  BY <1>0, <1>2 DEF Requests
<1>4. /\ sys \in Requests /\ sys.kind = "cancelBySystem" /\ sys.j = r.j
      /\ sys.initiator = r.initiator /\ sys.from = r.from /\ sys.to = r.to
      /\ sys.amount = r.amount
  BY <1>3 DEF Requests, Kinds, Cancellations
<1>5. CASE Go(w, "commit", r)
  <2>1. RequestOK("commit", r, journal, posted)
    BY <1>2, <1>3 DEF RequestOK, CheckSteps, IndexSteps, MirrorSteps, EntitySteps
  <2> QED
    BY <2>1, <1>1, <1>2, <1>3, <1>5, GoAdvance
<1>6. CASE req[w].kind \in Decisions /\ Go(w, "commit", sys)
  <2>1. RequestOK("commit", sys, journal, posted)
    BY <1>2, <1>3, <1>4, <1>6
       DEF RequestOK, CheckSteps, IndexSteps, MirrorSteps, EntitySteps,
           Decisions, Cancellations
  <2> QED
    BY <2>1, <1>1, <1>2, <1>4, <1>6, GoAdvance
<1>7. CASE Finish(w)
  BY <1>1, <1>7, FinishAdvance
<1>8. req[w].kind \in Decisions \cup {"propose", "create"}
  BY <1>2 DEF RequestOK, CheckSteps
<1> QED
  BY <1>5, <1>6, <1>7, <1>8 DEF CheckLimits, zero

-----------------------------------------------------------------------------
(* Changing the ledger.                                                    *)

\* The index, which reports less than the ledger holds, still does after any
\* ledger operation.
LEMMA IndexStable ==
    ASSUME StoresOK, LedgerInv', JournalKept, UNCHANGED <<entity, entityDoc, journalDoc>>
    PROVE  StoresOK'
<1>1. ASSUME NEW j \in Journals
      PROVE  posted[j] > 0 => posted'[j] > 0
  <2>1. posted[j] \in Nat /\ posted'[j] \in Nat /\ posted'[j] >= posted[j]
    BY DEF StoresOK, LedgerInv, LedgerTypeOK, JournalKept
  <2> QED
    BY <2>1
<1>2. IndexNeverAhead'
  BY <1>1 DEF StoresOK, IndexNeverAhead, JournalKept, Final
<1> QED
  BY <1>2 DEF StoresOK

LEMMA CommitProposalAdvance ==
    ASSUME Inv, NEW w \in Workers, CommitProposal(w)
    PROVE  Advance(w)
<1> DEFINE r == req[w]
<1>1. PICK j \in Journals :
             /\ JournalPropose(j, r.initiator, r.from, r.to, r.amount)
             /\ Go(w, "index", [r EXCEPT !.j = j, !.status = "initiated"])
  BY DEF CommitProposal
<1> DEFINE new == [r EXCEPT !.j = j, !.status = "initiated"]
<1>2. /\ r \in Requests /\ RequestOK("commit", r, journal, posted) /\ r.kind = "propose"
      /\ "index" \in Steps
  BY InvParts DEF RequestsOK, CommitProposal, Steps
<1>3. /\ r.from \in Accounts /\ r.to \in Accounts /\ r.from # r.to
      /\ r.initiator \in Accounts /\ r.amount \in Nat
  BY <1>2 DEF RequestOK, CheckSteps, Requests
<1>4. LedgerInv' /\ JournalKept
  BY <1>1, <1>3, ProposeInv DEF Inv
<1>5. StoresOK'
  BY <1>4, IndexStable, InvParts DEF CommitProposal
<1>6. /\ new \in Requests /\ new.j = j /\ new.status = "initiated"
      /\ new.from = r.from /\ new.to = r.to
  BY <1>2 DEF Requests, Statuses
<1>7. journal'[j].status # "none"
  BY <1>1 DEF JournalPropose, Inv, LedgerInv, LedgerTypeOK
<1>8. RequestOK("index", new, journal', posted')
  BY <1>3, <1>6, <1>7 DEF RequestOK, CheckSteps, IndexSteps, MirrorSteps, EntitySteps
<1> QED
  BY <1>1, <1>2, <1>4, <1>5, <1>6, <1>8, GoAdvance

LEMMA CommitAdminTransferAdvance ==
    ASSUME Inv, NEW w \in Workers, CommitAdminTransfer(w)
    PROVE  Advance(w)
<1> DEFINE r == req[w]
<1>1. PICK j \in Journals :
             /\ JournalCreate(j, r.from, r.to, r.amount)
             /\ Go(w, "index", [r EXCEPT !.j = j, !.status = "completed"])
  BY DEF CommitAdminTransfer
<1> DEFINE new == [r EXCEPT !.j = j, !.status = "completed"]
<1>2. /\ r \in Requests /\ RequestOK("commit", r, journal, posted) /\ "index" \in Steps
  BY InvParts DEF RequestsOK, CommitAdminTransfer, Steps
<1>3. /\ r.from \in Accounts /\ r.to \in Accounts /\ r.from # r.to /\ r.amount \in Nat
  BY <1>2 DEF RequestOK, CheckSteps, Requests
<1>4. LedgerInv' /\ JournalKept
  BY <1>1, <1>3, CreateInv DEF Inv
<1>5. StoresOK'
  BY <1>4, IndexStable, InvParts DEF CommitAdminTransfer
<1>6. /\ new \in Requests /\ new.j = j /\ new.status = "completed"
      /\ new.from = r.from /\ new.to = r.to
  BY <1>2 DEF Requests, Statuses
<1>7. journal'[j].status = "completed"
  BY <1>1 DEF JournalCreate, Inv, LedgerInv, LedgerTypeOK
<1>8. posted'[j] > 0
  BY <1>4, <1>7 DEF LedgerInv, StatusMatchesPostings
<1>9. RequestOK("index", new, journal', posted')
  BY <1>3, <1>6, <1>7, <1>8 DEF RequestOK, CheckSteps, IndexSteps, MirrorSteps, EntitySteps
<1> QED
  BY <1>1, <1>2, <1>4, <1>5, <1>6, <1>9, GoAdvance

LEMMA CommitAcceptAdvance ==
    ASSUME Inv, NEW w \in Workers, CommitAccept(w)
    PROVE  Advance(w)
<1> DEFINE r == req[w]
           new == [r EXCEPT !.status = "completed"]
<1>1. JournalAccept(r.j, r.from, r.to, r.amount) /\ Go(w, "index", new)
  BY DEF CommitAccept
<1>2. /\ r \in Requests /\ RequestOK("commit", r, journal, posted) /\ "index" \in Steps
      /\ r.kind = "accept"
  BY InvParts DEF RequestsOK, CommitAccept, Steps
<1>3. /\ r.from \in Accounts /\ r.to \in Accounts /\ r.from # r.to /\ r.amount \in Nat
      /\ r.j \in Journals /\ journal[r.j].status # "none"
  BY <1>2 DEF RequestOK, CheckSteps, Requests, Decisions
<1>4. LedgerInv' /\ JournalKept
  BY <1>1, <1>3, AcceptInv DEF Inv
<1>5. StoresOK'
  BY <1>4, IndexStable, InvParts DEF CommitAccept
<1>6. /\ new \in Requests /\ new.j = r.j /\ new.status = "completed"
      /\ new.from = r.from /\ new.to = r.to
  BY <1>2 DEF Requests, Statuses
<1>7. journal'[r.j].status = "completed"
  BY <1>1, <1>3, StatusType DEF JournalAccept, Inv, LedgerInv, Statuses
<1>8. posted'[r.j] > 0
  BY <1>3, <1>4, <1>7 DEF LedgerInv, StatusMatchesPostings
<1>9. RequestOK("index", new, journal', posted')
  BY <1>3, <1>6, <1>7, <1>8 DEF RequestOK, CheckSteps, IndexSteps, MirrorSteps, EntitySteps
<1> QED
  BY <1>1, <1>2, <1>4, <1>5, <1>6, <1>9, GoAdvance

LEMMA CommitCancelAdvance ==
    ASSUME Inv, NEW w \in Workers, CommitCancel(w)
    PROVE  Advance(w)
<1> DEFINE r == req[w]
<1>1. JournalCancel(r.j) /\ Go(w, "readBack", r)
  BY DEF CommitCancel
<1>2. /\ r \in Requests /\ RequestOK("commit", r, journal, posted) /\ "readBack" \in Steps
      /\ r.kind \in Decisions
  BY InvParts DEF RequestsOK, CommitCancel, Steps, Decisions
<1>3. /\ r.from \in Accounts /\ r.to \in Accounts /\ r.from # r.to
      /\ r.j \in Journals /\ journal[r.j].status # "none"
  BY <1>2 DEF RequestOK, CheckSteps
<1>4. LedgerInv' /\ JournalKept
  BY <1>1, <1>3, CancelInv DEF Inv
<1>5. StoresOK'
  BY <1>4, IndexStable, InvParts DEF CommitCancel
<1>6. journal'[r.j].status = "cancelled"
  BY <1>1, <1>3, StatusType DEF JournalCancel, Inv, LedgerInv, Statuses
<1>7. RequestOK("readBack", r, journal', posted')
  BY <1>3, <1>6 DEF RequestOK, CheckSteps, IndexSteps, MirrorSteps, EntitySteps, Final
<1> QED
  BY <1>1, <1>2, <1>4, <1>5, <1>7, GoAdvance

LEMMA ReadBackAdvance ==
    ASSUME Inv, NEW w \in Workers, ReadBack(w)
    PROVE  Advance(w)
<1> DEFINE r == req[w]
           new == [r EXCEPT !.status = journal[r.j].status]
<1>1. StoresOK' /\ JournalKept
  BY InvParts, SameStores DEF ReadBack
<1>2. r \in Requests /\ RequestOK("readBack", r, journal, posted) /\ "index" \in Steps
  BY InvParts DEF RequestsOK, ReadBack, Steps
<1>3. /\ r.from \in Accounts /\ r.to \in Accounts /\ r.from # r.to
      /\ r.j \in Journals /\ journal[r.j].status \in Final /\ journal[r.j].status # "none"
  BY <1>2 DEF RequestOK, IndexSteps
<1>4. /\ journal[r.j].status \in Statuses
      /\ journal[r.j].status = "completed" => posted[r.j] > 0
  BY <1>3 DEF Inv, LedgerInv, LedgerTypeOK, StatusMatchesPostings, JournalRows
<1>5. /\ new \in Requests /\ new.j = r.j /\ new.status = journal[r.j].status
      /\ new.from = r.from /\ new.to = r.to
  BY <1>2, <1>4 DEF Requests
<1>6. RequestOK("index", new, journal, posted)
  BY <1>3, <1>4, <1>5 DEF RequestOK, CheckSteps, IndexSteps, MirrorSteps, EntitySteps
<1> QED
  BY <1>1, <1>2, <1>5, <1>6, GoAdvance DEF ReadBack, stores

-----------------------------------------------------------------------------
(* Mirroring the change in the search index.                               *)

\* A step that leaves the ledger alone keeps it consistent.
LEMMA SameLedger ==
    ASSUME LedgerInv, UNCHANGED ledgerVars
    PROVE  LedgerInv' /\ JournalKept
BY SameJournals DEF ledgerVars, LedgerInv, LedgerTypeOK, StatusMatchesPostings

LEMMA IndexJournalAdvance ==
    ASSUME Inv, NEW w \in Workers, IndexJournal(w)
    PROVE  Advance(w)
<1> DEFINE r == req[w]
<1>1. UNCHANGED ledgerVars /\ UNCHANGED <<entity, entityDoc>>
  BY DEF IndexJournal
<1>2. /\ LedgerInv' /\ JournalKept /\ UNCHANGED <<journal, posted>>
  BY <1>1, SameLedger DEF ledgerVars, Inv
<1>3. /\ r \in Requests /\ RequestOK("index", r, journal, posted) /\ "readFrom" \in Steps
  BY InvParts DEF RequestsOK, IndexJournal, Steps
<1>4. /\ r.from \in Accounts /\ r.to \in Accounts /\ r.from # r.to
      /\ r.j \in Journals /\ journal[r.j].status # "none" /\ r.status \in Statuses
      /\ r.status = "completed" => posted[r.j] > 0
      /\ r.status = "cancelled" => journal[r.j].status \in {"completed", "cancelled"}
  BY <1>3 DEF RequestOK, IndexSteps, Requests, Final
<1>5. journalDoc' = [journalDoc EXCEPT ![r.j] = r.status] \/ journalDoc' = journalDoc
  BY DEF IndexJournal
<1>6. /\ journalDoc' \in [Journals -> Statuses]
      /\ \A j \in Journals : journalDoc'[j] # journalDoc[j] =>
            j = r.j /\ journalDoc'[j] = r.status
  BY <1>4, <1>5 DEF Inv, TypeOK
<1>7. IndexNeverAhead'
  BY <1>2, <1>4, <1>6 DEF Inv, IndexNeverAhead
<1>8. StoresOK'
  BY <1>1, <1>2, <1>6, <1>7, InvParts DEF StoresOK
<1>9. RequestOK("readFrom", r, journal', posted')
  BY <1>4 DEF RequestOK, CheckSteps, IndexSteps, MirrorSteps, EntitySteps
<1>10. Finish(w) \/ Go(w, "readFrom", r)
  BY DEF IndexJournal
<1> QED
  BY <1>2, <1>3, <1>8, <1>9, <1>10, FinishAdvance, GoAdvance

\* Of a request that mirrors balances only the two accounts matter.
LEMMA MirrorStep ==
    ASSUME NEW r, NEW step \in MirrorSteps, NEW J, NEW P,
           r.from \in Accounts, r.to \in Accounts, r.from # r.to
    PROVE  step \in Steps /\ RequestOK(step, r, J, P)
BY DEF Steps, RequestOK, CheckSteps, IndexSteps, MirrorSteps, EntitySteps

LEMMA MirrorReadAdvance ==
    ASSUME Inv, NEW w \in Workers, MirrorRead(w)
    PROVE  Advance(w)
<1> DEFINE r == req[w]
           newFrom == [r EXCEPT !.fromBal = account[r.from].balance]
           newTo == [r EXCEPT !.toBal = account[r.to].balance]
<1>1. StoresOK' /\ JournalKept
  BY InvParts, SameStores DEF MirrorRead
<1>2. /\ r \in Requests /\ r.from \in Accounts /\ r.to \in Accounts /\ r.from # r.to
  BY InvParts DEF RequestsOK, RequestOK, MirrorRead, MirrorSteps
<1>3. account[r.from].balance \in Int /\ account[r.to].balance \in Int
  BY <1>2 DEF Inv, LedgerInv, LedgerTypeOK
<1>4. /\ newFrom \in Requests /\ newFrom.from = r.from /\ newFrom.to = r.to
      /\ newTo \in Requests /\ newTo.from = r.from /\ newTo.to = r.to
  BY <1>2, <1>3 DEF Requests
<1>5. /\ "writeFrom" \in Steps /\ RequestOK("writeFrom", newFrom, journal', posted')
      /\ "writeTo" \in Steps /\ RequestOK("writeTo", newTo, journal', posted')
  BY <1>2, <1>4, MirrorStep DEF MirrorSteps
<1>6. \/ Go(w, "writeFrom", newFrom)
      \/ Go(w, "writeTo", newTo)
      \/ Finish(w)
  BY DEF MirrorRead
<1> QED
  BY <1>1, <1>4, <1>5, <1>6, FinishAdvance, GoAdvance

LEMMA UpdateBalanceType ==
    ASSUME StoresOK, NEW a, NEW balance \in Int, UpdateBalance(a, balance),
           UNCHANGED <<ledgerVars, entity, journalDoc>>
    PROVE  StoresOK' /\ JournalKept
<1> DEFINE Docs == [present : BOOLEAN, balance : Int]
<1>1. LedgerInv' /\ JournalKept
  BY SameLedger DEF StoresOK
<1>2. entityDoc \in [Accounts -> Docs]
  BY DEF StoresOK
<1>3. a \in Accounts => [entityDoc[a] EXCEPT !.balance = balance] \in Docs
  BY <1>2
<1>4. entityDoc' \in [Accounts -> Docs]
  BY <1>2, <1>3 DEF UpdateBalance
<1> QED
  BY <1>1, <1>4 DEF StoresOK, IndexNeverAhead, ledgerVars

LEMMA MirrorWriteAdvance ==
    ASSUME Inv, NEW w \in Workers, MirrorWrite(w)
    PROVE  Advance(w)
<1> DEFINE zero == 0
           r == req[w]
           new == [r EXCEPT !.fromBal = zero]
<1>1. /\ r \in Requests /\ r.from \in Accounts /\ r.to \in Accounts /\ r.from # r.to
  BY InvParts DEF RequestsOK, RequestOK, MirrorWrite, MirrorSteps
<1>2. \/ UpdateBalance(r.from, r.fromBal)
      \/ UpdateBalance(r.to, r.toBal)
  BY DEF MirrorWrite
<1>3. r.fromBal \in Int /\ r.toBal \in Int
  BY <1>1 DEF Requests
<1>4. StoresOK' /\ JournalKept
  BY <1>2, <1>3, UpdateBalanceType, InvParts DEF MirrorWrite
<1>5. Go(w, "readTo", new) \/ Finish(w)
  BY DEF MirrorWrite
<1>6. zero \in Int
  OBVIOUS
<1> HIDE DEF zero
<1>7. new \in Requests /\ new.from = r.from /\ new.to = r.to
  BY <1>1, <1>6 DEF Requests
<1>8. "readTo" \in Steps /\ RequestOK("readTo", new, journal', posted')
  BY <1>1, <1>7, MirrorStep DEF MirrorSteps
<1> QED
  BY <1>4, <1>5, <1>7, <1>8, FinishAdvance, GoAdvance

-----------------------------------------------------------------------------
(* Deleting and updating an entity.                                        *)

\* Of a request about an entity only its account matters.
LEMMA EntityStep ==
    ASSUME Inv, NEW w \in Workers, pc[w] \in EntitySteps
    PROVE  /\ req[w] \in Requests /\ req[w].from \in Accounts
           /\ \A step \in EntitySteps :
                 step \in Steps /\ RequestOK(step, req[w], journal', posted')
<1>1. req[w] \in Requests /\ RequestOK(pc[w], req[w], journal, posted)
  BY InvParts DEF RequestsOK
<1> QED
  BY <1>1 DEF Steps, RequestOK, CheckSteps, IndexSteps, MirrorSteps, EntitySteps

LEMMA UnindexAdvance ==
    ASSUME Inv, NEW w \in Workers, Unindex(w)
    PROVE  Advance(w)
<1> DEFINE a == req[w].from
           gone == [present |-> FALSE, balance |-> 0]
           Docs == [present : BOOLEAN, balance : Int]
<1>1. req[w] \in Requests /\ "unlist" \in Steps /\ RequestOK("unlist", req[w], journal', posted')
  BY EntityStep DEF Unindex, EntitySteps
<1>2. LedgerInv' /\ JournalKept /\ UNCHANGED <<ledgerVars, entity, journalDoc>>
  BY SameLedger DEF Unindex, Inv
<1>3. entityDoc' = [entityDoc EXCEPT ![a] = gone] \/ entityDoc' = entityDoc
  BY DEF Unindex
<1>4. entityDoc' \in [Accounts -> [present : BOOLEAN, balance : Int]]
  <2>1. gone \in Docs /\ entityDoc \in [Accounts -> Docs]
    BY DEF Inv, TypeOK
  <2> HIDE DEF gone, Docs
  <2>2. entityDoc' \in [Accounts -> Docs]
    BY <2>1, <1>3
  <2> QED
    BY <2>2 DEF Docs
<1>5. StoresOK'
  BY <1>2, <1>4, InvParts DEF StoresOK, IndexNeverAhead, ledgerVars
<1>6. Go(w, "unlist", req[w]) \/ Finish(w)
  BY DEF Unindex
<1> QED
  BY <1>1, <1>2, <1>5, <1>6, FinishAdvance, GoAdvance

LEMMA UnlistAdvance ==
    ASSUME Inv, NEW w \in Workers, Unlist(w)
    PROVE  Advance(w)
<1>1. req[w] \in Requests /\ "close" \in Steps /\ RequestOK("close", req[w], journal', posted')
  BY EntityStep DEF Unlist, EntitySteps
<1>2. LedgerInv' /\ JournalKept /\ UNCHANGED <<ledgerVars, entityDoc, journalDoc>>
  BY SameLedger DEF Unlist, Inv
<1>3. entity' = [entity EXCEPT ![req[w].from] = "deleted"] \/ entity' = entity
  BY DEF Unlist
<1>4. entity' \in [Accounts -> EntityStatuses]
  BY <1>3 DEF Inv, TypeOK, EntityStatuses
<1>5. StoresOK'
  BY <1>2, <1>4, InvParts DEF StoresOK, IndexNeverAhead, ledgerVars
<1>6. Go(w, "close", req[w]) \/ Finish(w)
  BY DEF Unlist
<1> QED
  BY <1>1, <1>2, <1>5, <1>6, FinishAdvance, GoAdvance

LEMMA CloseAccountAdvance ==
    ASSUME Inv, NEW w \in Workers, CloseAccount(w)
    PROVE  Advance(w)
<1>1. req[w].from \in Accounts
  BY EntityStep DEF CloseAccount, EntitySteps
<1>2. LedgerInv' /\ UNCHANGED <<journal, posted>>
  BY <1>1, AdminInv DEF CloseAccount, Inv
<1>3. JournalKept
  BY <1>2, SameJournals DEF Inv
<1>4. StoresOK'
  BY <1>2, <1>3, IndexStable, InvParts DEF CloseAccount
<1> QED
  BY <1>3, <1>4, FinishAdvance DEF CloseAccount

LEMMA SetLimitsAdvance ==
    ASSUME Inv, NEW w \in Workers, SetLimits(w)
    PROVE  Advance(w)
<1>1. /\ req[w] \in Requests /\ req[w].from \in Accounts
      /\ "setStatus" \in Steps /\ RequestOK("setStatus", req[w], journal', posted')
  BY EntityStep DEF SetLimits, EntitySteps
<1>2. LedgerInv' /\ UNCHANGED <<journal, posted>>
  BY <1>1, AdminInv DEF SetLimits, Inv
<1>3. JournalKept
  BY <1>2, SameJournals DEF Inv
<1>4. StoresOK'
  BY <1>2, <1>3, IndexStable, InvParts DEF SetLimits
<1> QED
  BY <1>1, <1>3, <1>4, GoAdvance DEF SetLimits

LEMMA SetStatusAdvance ==
    ASSUME Inv, NEW w \in Workers, SetStatus(w)
    PROVE  Advance(w)
<1>1. LedgerInv' /\ JournalKept /\ UNCHANGED <<ledgerVars, entityDoc, journalDoc>>
  BY SameLedger DEF SetStatus, Inv
<1>2. entity' \in [Accounts -> EntityStatuses]
  BY DEF SetStatus, Inv, TypeOK
<1>3. StoresOK'
  BY <1>1, <1>2, InvParts DEF StoresOK, IndexNeverAhead, ledgerVars
<1> QED
  BY <1>1, <1>3, FinishAdvance DEF SetStatus

-----------------------------------------------------------------------------
(* The invariant and what follows from it.                                 *)

\* Initially no request is in flight and all stores are empty.
LEMMA InitInv == Init => Inv
<1> SUFFICES ASSUME Init PROVE Inv
  OBVIOUS
<1>1. LedgerInv
  BY LedgerInitInv DEF Init
<1>2. IndexNeverAhead
  BY DEF Init, IndexNeverAhead
<1>3. /\ "idle" \in Steps /\ "none" \in Statuses
      /\ entity \in [Accounts -> EntityStatuses]
      /\ entityDoc \in [Accounts -> [present : BOOLEAN, balance : Int]]
  BY DEF Init, Steps, Statuses, EntityStatuses
<1>4. /\ journalDoc \in [Journals -> Statuses]
      /\ pc \in [Workers -> Steps] /\ req \in [Workers -> Requests]
  BY <1>3, NoReqType DEF Init
<1>5. RequestsOK
  BY DEF Init, RequestsOK, RequestOK, CheckSteps, IndexSteps, MirrorSteps, EntitySteps
<1> QED
  BY <1>1, <1>2, <1>3, <1>4, <1>5 DEF Inv, TypeOK, LedgerInv

\* Every step keeps the invariant: each action advances its worker.
LEMMA NextInv == Inv /\ [Next]_vars => Inv'
<1> SUFFICES ASSUME Inv, [Next]_vars PROVE Inv'
  OBVIOUS
<1>1. ASSUME NEW w \in Workers, Work(w)
      PROVE  Advance(w)
  BY <1>1, ReadBalancesAdvance, CheckLimitsAdvance, CommitProposalAdvance,
     CommitAdminTransferAdvance, CommitAcceptAdvance, CommitCancelAdvance, ReadBackAdvance,
     IndexJournalAdvance, MirrorReadAdvance, MirrorWriteAdvance, UnindexAdvance,
     UnlistAdvance, CloseAccountAdvance, SetLimitsAdvance, SetStatusAdvance DEF Work
<1>2. CASE Next
  BY <1>1, <1>2, SubmitAnyAdvance, FailAdvance, AdvanceInv DEF Next
<1>3. CASE UNCHANGED vars
  BY <1>3 DEF vars, stores, Inv, TypeOK, LedgerInv, LedgerTypeOK, StatusMatchesPostings,
              RequestsOK, IndexNeverAhead
<1> QED
  BY <1>2, <1>3

THEOREM Invariance == Spec => []Inv
BY InitInv, NextInv, PTL DEF Spec

\* Whatever the requests in flight do to each other, the tables stay well typed.
THEOREM TypeCorrect == Spec => []TypeOK
<1>1. Inv => TypeOK
  BY DEF Inv
<1> QED
  BY <1>1, Invariance, PTL

\* The status and the postings of every journal agree at all times.
THEOREM StatusIsBacked == Spec => []StatusMatchesPostings
<1>1. Inv => StatusMatchesPostings
  BY DEF Inv, LedgerInv
<1> QED
  BY <1>1, Invariance, PTL

\* The search index never reports what the ledger does not hold.
THEOREM IndexFollows == Spec => []IndexNeverAhead
<1>1. Inv => IndexNeverAhead
  BY DEF Inv
<1> QED
  BY <1>1, Invariance, PTL

-----------------------------------------------------------------------------
(* Who completes a transfer.                                               *)

Commit(w) == \/ CommitProposal(w) \/ CommitAdminTransfer(w)
             \/ CommitAccept(w) \/ CommitCancel(w)

\* The journals change only in the four commit steps.
LEMMA OnlyCommits ==
    ASSUME NEW w \in Workers, SubmitAny(w) \/ Work(w) \/ Fail(w), ~Commit(w)
    PROVE  UNCHANGED <<journal, posted>>
<1>1. CASE SubmitAny(w) \/ Fail(w)
  <2>1. ASSUME SubmitAny(w) PROVE UNCHANGED stores
    BY <2>1 DEF SubmitAny, SubmitProposal, SubmitAdminTransfer, SubmitDecision, SubmitDelete,
                SubmitEntityUpdate, Submit
  <2>2. UNCHANGED stores
    BY <2>1, <1>1 DEF Fail
  <2> QED
    BY <2>2 DEF stores
<1>2. CASE Work(w)
  BY <1>2 DEF Work, Commit, ReadBalances, CheckLimits, ReadBack, IndexJournal, MirrorRead,
              MirrorWrite, Unindex, Unlist, CloseAccount, AccountDelete, SetLimits,
              LimitAdminUpdate, SetStatus, stores, ledgerVars
<1> QED
  BY <1>1, <1>2

\* Only an accept turns an initiated transfer into a completed one.
LEMMA OnlyAcceptCompletes ==
    ASSUME Inv, NEW w \in Workers, Commit(w), NEW j \in Journals,
           journal[j].status = "initiated", journal'[j].status = "completed"
    PROVE  CommitAccept(w) /\ req[w].j = j
<1> DEFINE r == req[w]
<1>1. journal \in [Journals -> JournalRows]
  BY DEF Inv, LedgerInv, LedgerTypeOK
<1>2. CASE CommitProposal(w)
  <2>1. PICK k \in Journals : JournalPropose(k, r.initiator, r.from, r.to, r.amount)
    BY <1>2 DEF CommitProposal
  <2> QED
    BY <2>1, <1>1 DEF JournalPropose
<1>3. CASE CommitAdminTransfer(w)
  <2>1. PICK k \in Journals : JournalCreate(k, r.from, r.to, r.amount)
    BY <1>3 DEF CommitAdminTransfer
  <2>2. k # j
    BY <2>1 DEF JournalCreate
  <2> QED
    BY <2>1, <2>2, <1>1 DEF JournalCreate
<1>4. CASE CommitCancel(w) \/ CommitAccept(w)
  <2>1. r.j \in Journals
    BY <1>4, InvParts
       DEF RequestsOK, RequestOK, CheckSteps, Decisions, CommitCancel, CommitAccept
  <2>2. /\ CommitCancel(w) => journal'[r.j].status = "cancelled"
        /\ \A k \in Journals : k # r.j => journal'[k] = journal[k]
    BY <2>1, <1>1, <1>4 DEF CommitCancel, CommitAccept, JournalCancel, JournalAccept, JournalRows
  <2> QED
    BY <2>1, <2>2, <1>4
<1> QED
  BY <1>2, <1>3, <1>4 DEF Commit

\* The permission was checked on the terms the journal still has.
LEMMA ConsentStep ==
    ASSUME Inv, [Next]_vars, NEW j \in Journals,
           journal[j].status = "initiated", journal'[j].status = "completed"
    PROVE  \E w \in Workers :
              /\ pc[w] = "commit" /\ req[w].kind = "accept" /\ req[w].j = j
              /\ req[w].user \in (Members[journal[j].from] \cup Members[journal[j].to])
                                   \ Members[journal[j].initiator]
<1>1. journal' # journal
  OBVIOUS
<1>2. PICK w \in Workers : SubmitAny(w) \/ Work(w) \/ Fail(w)
  BY <1>1 DEF Next, vars, stores
<1>3. Commit(w)
  BY <1>1, <1>2, OnlyCommits
<1>4. CommitAccept(w) /\ req[w].j = j
  BY <1>3, OnlyAcceptCompletes
<1>5. pc[w] = "commit" /\ req[w].kind = "accept" /\ RequestOK("commit", req[w], journal, posted)
  BY <1>4, InvParts DEF CommitAccept, RequestsOK
<1> QED
  BY <1>4, <1>5 DEF RequestOK, CheckSteps, Decisions

\* No proposed transfer is completed without the consent of the other entity,
\* however the requests interleave and wherever they fail.
THEOREM Consent == Spec => CounterpartyConsents
<1> DEFINE A == \A j \in Journals :
                   LET row == journal[j]
                   IN  row.status = "initiated" /\ journal'[j].status = "completed" =>
                         \E w \in Workers :
                            /\ pc[w] = "commit" /\ req[w].kind = "accept" /\ req[w].j = j
                            /\ req[w].user \in (Members[row.from] \cup Members[row.to])
                                                 \ Members[row.initiator]
<1>1. Inv /\ [Next]_vars => A
  BY ConsentStep
<1> HIDE DEF A
<1>2. Spec => [][A]_vars
  BY <1>1, Invariance, PTL DEF Spec
<1> QED
  BY <1>2 DEF A, CounterpartyConsents
-----------------------------------------------------------------------------
(* The balance column and the postings.                                    *)

Drawn == {j \in Journals : journal[j].status # "none"}

\* Only the transfers that were drawn have accounts, and they are finitely many,
\* so that there is a total at all.
BalancesInv == /\ BalanceIsPostingTotal
               /\ IsFiniteSet(Drawn)
               /\ \A j \in Journals \ Drawn : journal[j] = NoRow

\* A sum of which one summand changes, comes or goes.
LEMMA SumChanges ==
    ASSUME NEW S, NEW T, IsFiniteSet(S), NEW x, T \ {x} = S \ {x},
           NEW f, NEW g, \A y \in S : f[y] \in Int, \A y \in T : g[y] \in Int,
           \A y \in S \ {x} : g[y] = f[y]
    PROVE  SumFunctionOnSet(g, T) = SumFunctionOnSet(f, S)
             + (IF x \in T THEN g[x] ELSE 0) - (IF x \in S THEN f[x] ELSE 0)
<1> DEFINE rest == S \ {x}
<1>1. IsFiniteSet(rest) /\ IsFiniteSet(T)
  <2>1. IsFiniteSet(rest) /\ IsFiniteSet(rest \cup {x})
    BY FS_RemoveElement, FS_AddElement
  <2>2. T \subseteq rest \cup {x}
    OBVIOUS
  <2> QED
    BY <2>1, <2>2, FS_Subset
<1>2. SumFunctionOnSet(g, rest) = SumFunctionOnSet(f, rest) /\ SumFunctionOnSet(f, rest) \in Int
  BY <1>1, SumSame, SumInteger
<1>3. /\ x \in S => SumFunctionOnSet(f, S) = f[x] + SumFunctionOnSet(f, rest)
      /\ x \notin S => S = rest
  BY SumWithout
<1>4. /\ x \in T => SumFunctionOnSet(g, T) = g[x] + SumFunctionOnSet(g, rest)
      /\ x \notin T => T = rest
  <2>1. CASE x \in T
    <3>1. SumFunctionOnSet(g, T) = g[x] + SumFunctionOnSet(g, T \ {x})
      BY <1>1, <2>1, SumWithout
    <3> QED
      BY <2>1, <3>1
  <2> QED
    BY <2>1
<1>5. (x \in S => f[x] \in Int) /\ (x \in T => g[x] \in Int)
  OBVIOUS
<1> HIDE DEF rest
<1> QED
  BY <1>2, <1>3, <1>4, <1>5

\* What a transfer of an amount changes at an account.
Gain(a, from, to, amount) == (IF a = to THEN amount ELSE 0) - (IF a = from THEN amount ELSE 0)

\* Of a journal that moves one amount more, or is drawn without moving any, just
\* its accounts have another total.
LEMMA TotalsChange ==
    ASSUME LedgerInv, LedgerInv', BalancesInv, NEW j \in Journals, NEW amount \in Nat,
           journal'[j].status # "none",
           \A k \in Journals : k # j => journal'[k] = journal[k] /\ posted'[k] = posted[k],
           journal[j].status = "none" \/ SameTerms(journal[j], journal'[j]),
           Moved'[j] = Moved[j] + amount
    PROVE  /\ IsFiniteSet(Drawn) /\ IsFiniteSet(Drawn')
           /\ \A k \in Journals \ Drawn' : journal'[k] = NoRow
           /\ \A a \in Accounts :
                 /\ PostingTotal(a) \in Int
                 /\ PostingTotal(a)' = PostingTotal(a)
                                         + Gain(a, journal'[j].from, journal'[j].to, amount)
<1>1. IsFiniteSet(Drawn) /\ \A k \in Journals \ Drawn : journal[k] = NoRow
  BY DEF BalancesInv
<1>2. Drawn' = Drawn \cup {j}
  BY DEF Drawn
<1>3. IsFiniteSet(Drawn') /\ \A k \in Journals \ Drawn' : journal'[k] = NoRow
  BY <1>1, <1>2, FS_AddElement
<1>4. /\ \A k \in Journals : Moved[k] \in Int /\ Moved'[k] \in Int
      /\ \A k \in Journals : k # j => Moved'[k] = Moved[k]
  BY DEF Moved, LedgerInv, LedgerTypeOK, JournalRows
<1>5. j \notin Drawn => Moved[j] = 0
  BY DEF Moved, Drawn, LedgerInv, LedgerTypeOK, StatusMatchesPostings, JournalRows
<1>6. ASSUME NEW a \in Accounts
      PROVE  /\ PostingTotal(a) \in Int
             /\ PostingTotal(a)' = PostingTotal(a)
                                     + Gain(a, journal'[j].from, journal'[j].to, amount)
  <2> DEFINE In == {k \in Journals : journal[k].to = a}
             Out == {k \in Journals : journal[k].from = a}
             In2 == {k \in Journals : journal'[k].to = a}
             Out2 == {k \in Journals : journal'[k].from = a}
  <2>1. In \subseteq Drawn /\ Out \subseteq Drawn
    BY <1>1, LedgerAssumption DEF LedgerAssumption, NoRow
  <2>2. IsFiniteSet(In) /\ IsFiniteSet(Out)
    BY <1>1, <2>1, FS_Subset
  <2>3. In2 \ {j} = In \ {j} /\ Out2 \ {j} = Out \ {j}
    OBVIOUS
  <2>4. /\ j \in Drawn => (j \in In <=> j \in In2) /\ (j \in Out <=> j \in Out2)
        /\ j \notin Drawn => j \notin In /\ j \notin Out
    BY <2>1 DEF SameTerms, Drawn
  <2> HIDE DEF In, Out, In2, Out2
  <2>5. SumFunctionOnSet(Moved, In) \in Int /\ SumFunctionOnSet(Moved, Out) \in Int
    BY <1>4, <2>1, <2>2, SumInteger DEF Drawn
  <2>6. SumFunctionOnSet(Moved', In2) = SumFunctionOnSet(Moved, In)
                                          + (IF j \in In2 THEN amount ELSE 0)
    BY <1>4, <1>5, <2>1, <2>2, <2>3, <2>4, <2>5, SumChanges DEF Drawn, In2
  <2>7. SumFunctionOnSet(Moved', Out2) = SumFunctionOnSet(Moved, Out)
                                           + (IF j \in Out2 THEN amount ELSE 0)
    BY <1>4, <1>5, <2>1, <2>2, <2>3, <2>4, <2>5, SumChanges DEF Drawn, Out2
  <2>8. /\ PostingTotal(a) = SumFunctionOnSet(Moved, In) - SumFunctionOnSet(Moved, Out)
        /\ PostingTotal(a)' = SumFunctionOnSet(Moved', In2) - SumFunctionOnSet(Moved', Out2)
    BY DEF PostingTotal, In, Out, In2, Out2
  <2>9. (j \in In2 <=> journal'[j].to = a) /\ (j \in Out2 <=> journal'[j].from = a)
    BY DEF In2, Out2
  <2> QED
    BY <2>5, <2>6, <2>7, <2>8, <2>9 DEF Gain
<1> QED
  BY <1>1, <1>3, <1>6

\* Two credits give live accounts just that.
LEMMA SettleGains ==
    ASSUME LedgerTypeOK, NEW j, NEW from \in Accounts, NEW to \in Accounts, from # to,
           NEW amount \in Nat, Settle(j, from, to, amount), NEW a \in Accounts, account'[a].live
    PROVE  account[a].live /\ account'[a].balance = account[a].balance + Gain(a, from, to, amount)
<1> DEFINE mid == Credit(account, from, -amount)
<1>1. /\ account \in [Accounts -> AccountRows]
      /\ mid \in [Accounts -> AccountRows]
      /\ account' = Credit(mid, to, amount)
  BY CreditType DEF LedgerTypeOK, AccountRows, Settle
<1>2. /\ mid[a].live = account[a].live
      /\ mid[a].live => mid[a].balance = IF a = from THEN account[a].balance - amount
                                         ELSE account[a].balance
  BY <1>1 DEF Credit, AccountRows
<1> HIDE DEF mid
<1>3. /\ account'[a].live = mid[a].live
      /\ mid[a].live => account'[a].balance = IF a = to THEN mid[a].balance + amount
                                              ELSE mid[a].balance
  BY <1>1 DEF Credit, AccountRows
<1>4. account[a].balance \in Int
  BY <1>1 DEF AccountRows
<1> QED
  BY <1>2, <1>3, <1>4 DEF Gain

\* Postings and balances move together.
LEMMA SettleBalances ==
    ASSUME LedgerInv, LedgerInv', BalancesInv, NEW j \in Journals,
           NEW from \in Accounts, NEW to \in Accounts, from # to, NEW amount \in Nat,
           Settle(j, from, to, amount),
           \A k \in Journals : k # j => journal'[k] = journal[k],
           journal[j].status = "none" \/ SameTerms(journal[j], journal'[j]),
           journal'[j].status # "none",
           journal'[j].from = from, journal'[j].to = to, journal'[j].amount = amount
    PROVE  BalancesInv'
<1>1. /\ posted[j] \in Nat /\ posted'[j] = posted[j] + 1
      /\ \A k \in Journals : k # j => posted'[k] = posted[k]
  BY SettleType DEF LedgerInv, LedgerTypeOK
<1>2. Moved'[j] = Moved[j] + amount
  <2>1. CASE journal[j].status = "none"
    <3>1. posted[j] = 0 /\ posted'[j] = 1 /\ journal[j].amount \in Nat
      BY <1>1, <2>1 DEF LedgerInv, LedgerTypeOK, StatusMatchesPostings, JournalRows
    <3>2. Moved[j] = 0
      BY <3>1 DEF Moved
    <3>3. Moved'[j] = amount
      BY <3>1 DEF Moved
    <3> QED
      BY <3>2, <3>3
  <2>2. CASE journal[j].amount = amount
    <3>1. Moved[j] = posted[j] * amount /\ Moved'[j] = (posted[j] + 1) * amount
      BY <1>1, <2>2 DEF Moved
    <3>2. \A m, n \in Nat : (m + 1) * n = m * n + n
      OBVIOUS
    <3> QED
      BY <1>1, <3>1, <3>2
  <2> QED
    BY <2>1, <2>2 DEF SameTerms
<1>3. /\ IsFiniteSet(Drawn') /\ \A k \in Journals \ Drawn' : journal'[k] = NoRow
      /\ \A a \in Accounts : /\ PostingTotal(a) \in Int
                             /\ PostingTotal(a)' = PostingTotal(a) + Gain(a, from, to, amount)
  BY <1>1, <1>2, TotalsChange
<1>4. ASSUME NEW a \in Accounts, account'[a].live
      PROVE  account'[a].balance = PostingTotal(a)'
  BY <1>3, <1>4, SettleGains DEF LedgerInv, BalancesInv, BalanceIsPostingTotal
<1> QED
  BY <1>3, <1>4 DEF BalancesInv, BalanceIsPostingTotal

\* What is drawn or decided without being settled changes no total.
LEMMA UnsettledBalances ==
    ASSUME LedgerInv, LedgerInv', BalancesInv, NEW j \in Journals,
           UNCHANGED <<account, posted>>,
           \A k \in Journals : k # j => journal'[k] = journal[k],
           journal[j].status = "none" \/ SameTerms(journal[j], journal'[j]),
           journal'[j].status # "none"
    PROVE  BalancesInv'
<1>1. Moved'[j] = Moved[j] + 0
  <2>1. CASE journal[j].status = "none"
    BY <2>1 DEF Moved, LedgerInv, LedgerTypeOK, StatusMatchesPostings, JournalRows
  <2>2. CASE SameTerms(journal[j], journal'[j])
    BY <2>2 DEF Moved, SameTerms, LedgerInv, LedgerTypeOK, JournalRows
  <2> QED
    BY <2>1, <2>2
<1>2. /\ IsFiniteSet(Drawn') /\ \A k \in Journals \ Drawn' : journal'[k] = NoRow
      /\ \A a \in Accounts :
            /\ PostingTotal(a) \in Int
            /\ PostingTotal(a)' = PostingTotal(a) + Gain(a, journal'[j].from, journal'[j].to, 0)
  BY <1>1, TotalsChange
<1>3. \A a \in Accounts : PostingTotal(a)' = PostingTotal(a)
  BY <1>2 DEF Gain
<1> QED
  BY <1>2, <1>3 DEF BalancesInv, BalanceIsPostingTotal

\* An account that is deleted has no balance to agree with any more.
LEMMA SamePostings ==
    ASSUME BalancesInv, UNCHANGED <<journal, posted>>,
           \A a \in Accounts : account'[a].live => account'[a] = account[a]
    PROVE  BalancesInv'
<1>1. Drawn' = Drawn /\ \A a \in Accounts : PostingTotal(a)' = PostingTotal(a)
  BY DEF Drawn, PostingTotal, Moved
<1> QED
  BY <1>1 DEF BalancesInv, BalanceIsPostingTotal

\* Outside the four commits an account only changes by being deleted.
LEMMA OnlyClosing ==
    ASSUME Inv, NEW w \in Workers, SubmitAny(w) \/ Work(w) \/ Fail(w), ~Commit(w)
    PROVE  \A a \in Accounts : account'[a].live => account'[a] = account[a]
<1>1. CASE CloseAccount(w)
  <2>1. account \in [Accounts -> AccountRows] /\ account' = [account EXCEPT ![req[w].from].live = FALSE]
    BY <1>1 DEF CloseAccount, AccountDelete, Inv, LedgerInv, LedgerTypeOK, AccountRows
  <2> QED
    BY <2>1 DEF AccountRows
<1>2. CASE SubmitAny(w) \/ Fail(w)
  <2>1. ASSUME SubmitAny(w) PROVE UNCHANGED stores
    BY <2>1 DEF SubmitAny, SubmitProposal, SubmitAdminTransfer, SubmitDecision, SubmitDelete,
                SubmitEntityUpdate, Submit
  <2>2. UNCHANGED stores
    BY <2>1, <1>2 DEF Fail
  <2> QED
    BY <2>2 DEF stores
<1>3. CASE Work(w) /\ ~CloseAccount(w)
  BY <1>3 DEF Work, Commit, ReadBalances, CheckLimits, ReadBack, IndexJournal, MirrorRead,
              MirrorWrite, Unindex, Unlist, SetLimits, LimitAdminUpdate, SetStatus, stores, ledgerVars
<1> QED
  BY <1>1, <1>2, <1>3

LEMMA CommitBalances ==
    ASSUME Inv, Inv', BalancesInv, NEW w \in Workers, Commit(w)
    PROVE  BalancesInv'
<1> DEFINE r == req[w]
<1>1. /\ LedgerInv /\ LedgerInv' /\ journal \in [Journals -> JournalRows]
      /\ r \in Requests /\ RequestOK("commit", r, journal, posted)
  BY InvParts DEF Inv, LedgerInv, LedgerTypeOK, RequestsOK, Commit, CommitProposal,
                  CommitAdminTransfer, CommitAccept, CommitCancel
<1>2. r.from \in Accounts /\ r.to \in Accounts /\ r.from # r.to /\ r.amount \in Nat
  BY <1>1 DEF RequestOK, CheckSteps, Requests
<1>3. CASE CommitProposal(w)
  <2>1. PICK j \in Journals : JournalPropose(j, r.initiator, r.from, r.to, r.amount)
    BY <1>3 DEF CommitProposal
  <2>2. /\ UNCHANGED <<account, posted>> /\ journal[j].status = "none"
        /\ journal'[j].status # "none"
        /\ \A k \in Journals : k # j => journal'[k] = journal[k]
    BY <2>1, <1>1 DEF JournalPropose
  <2> QED
    BY <2>2, <1>1, UnsettledBalances
<1>4. CASE CommitAdminTransfer(w)
  <2>1. PICK j \in Journals : JournalCreate(j, r.from, r.to, r.amount)
    BY <1>4 DEF CommitAdminTransfer
  <2>2. /\ Settle(j, r.from, r.to, r.amount) /\ journal[j].status = "none"
        /\ journal'[j].status # "none" /\ journal'[j].from = r.from /\ journal'[j].to = r.to
        /\ journal'[j].amount = r.amount
        /\ \A k \in Journals : k # j => journal'[k] = journal[k]
    BY <2>1, <1>1 DEF JournalCreate
  <2> QED
    BY <2>2, <1>1, <1>2, SettleBalances
<1>5. CASE CommitAccept(w) \/ CommitCancel(w)
  <2> DEFINE j == r.j
  <2>1. /\ j \in Journals /\ journal[j].status # "none" /\ journal[j].from = r.from
        /\ journal[j].to = r.to /\ journal[j].amount = r.amount
    BY <1>1, <1>5 DEF CommitAccept, CommitCancel, RequestOK, CheckSteps, Decisions
  <2>2. CASE CommitAccept(w)
    <3>1. /\ Settle(j, r.from, r.to, r.amount)
          /\ journal' = [journal EXCEPT ![j].status = "completed"]
      BY <2>2 DEF CommitAccept, JournalAccept
    <3>2. /\ SameTerms(journal[j], journal'[j]) /\ journal'[j].status = "completed"
          /\ \A k \in Journals : k # j => journal'[k] = journal[k]
      BY <3>1, <2>1, <1>1, StatusType DEF SameTerms, Final, Statuses, LedgerInv
    <3> QED
      BY <3>1, <3>2, <2>1, <1>1, <1>2, SettleBalances DEF SameTerms
  <2>3. CASE CommitCancel(w)
    <3>1. /\ UNCHANGED <<account, posted>>
          /\ journal' = [journal EXCEPT ![j].status = "cancelled"]
      BY <2>3 DEF CommitCancel, JournalCancel
    <3>2. /\ SameTerms(journal[j], journal'[j])
          /\ \A k \in Journals : k # j => journal'[k] = journal[k]
      BY <3>1, <2>1, <1>1, StatusType DEF SameTerms, Final, Statuses, LedgerInv
    <3> QED
      BY <3>1, <3>2, <2>1, <1>1, UnsettledBalances DEF SameTerms
  <2> QED
    BY <1>5, <2>2, <2>3
<1> QED
  BY <1>3, <1>4, <1>5 DEF Commit

LEMMA BalancesInit == Init => BalancesInv
<1> SUFFICES ASSUME Init PROVE BalancesInv
  OBVIOUS
<1>1. /\ account = [a \in Accounts |-> [live |-> TRUE, balance |-> 0]]
      /\ journal = [j \in Journals |-> NoRow]
  BY DEF Init, LedgerInit
<1>2. Drawn = {} /\ IsFiniteSet(Drawn)
  BY <1>1, FS_EmptySet DEF Drawn, NoRow
<1>3. ASSUME NEW a \in Accounts PROVE PostingTotal(a) = 0
  <2>1. {j \in Journals : journal[j].to = a} = {} /\ {j \in Journals : journal[j].from = a} = {}
    BY <1>1, LedgerAssumption DEF LedgerAssumption, NoRow
  <2>2. SumFunctionOnSet(Moved, {}) = 0
    BY SumEquation, FS_EmptySet
  <2> QED
    BY <2>1, <2>2 DEF PostingTotal
<1> QED
  BY <1>1, <1>2, <1>3 DEF BalancesInv, BalanceIsPostingTotal

LEMMA BalancesNext == Inv /\ Inv' /\ BalancesInv /\ [Next]_vars => BalancesInv'
<1> SUFFICES ASSUME Inv, Inv', BalancesInv, [Next]_vars PROVE BalancesInv'
  OBVIOUS
<1>1. CASE UNCHANGED vars
  BY <1>1, SamePostings DEF vars, stores
<1>2. ASSUME NEW w \in Workers, SubmitAny(w) \/ Work(w) \/ Fail(w)
      PROVE  BalancesInv'
  <2>1. CASE Commit(w)
    BY <2>1, CommitBalances
  <2>2. CASE ~Commit(w)
    BY <1>2, <2>2, OnlyCommits, OnlyClosing, SamePostings
  <2> QED
    BY <2>1, <2>2
<1> QED
  BY <1>1, <1>2 DEF Next

\* The balance column never drifts from the postings, however many requests
\* settle, decide, delete and fail beside each other.
THEOREM BalancesTrue == Spec => []BalanceIsPostingTotal
<1>1. BalancesInv => BalanceIsPostingTotal
  BY DEF BalancesInv
<1> QED
  BY <1>1, BalancesInit, BalancesNext, Invariance, PTL DEF Spec

-----------------------------------------------------------------------------
(***************************************************************************)
(* When one request is handled at a time: what the API promises of a       *)
(* transfer and of a deletion then holds even though requests may fail     *)
(* between any two of their steps.  With two requests in flight TLC finds  *)
(* both properties violated.                                               *)
(***************************************************************************)
Serial == \A v, w \in Workers : v = w

\* The amount of a transfer is moved when it is completed, and only then.
PostedOnce ==
    \A j \in Journals : posted[j] = IF journal[j].status = "completed" THEN 1 ELSE 0

\* What a request has checked is still true: no other request is in flight.
StillChecked(w) ==
    LET r == req[w]
    IN  /\ pc[w] \in CheckSteps =>
              /\ r.kind \in Decisions => journal[r.j].status = "initiated"
              /\ entity[r.from] # "deleted" /\ entity[r.to] # "deleted"
        /\ pc[w] = "limits" =>
              r.fromBal = account[r.from].balance /\ r.toBal = account[r.to].balance
        /\ pc[w] = "commit" /\ r.kind \notin Cancellations =>
              /\ account[r.from].live /\ account[r.to].live
              /\ ~IsExceedLimit(r.from, account[r.from].balance - r.amount)
              /\ ~IsExceedLimit(r.to, account[r.to].balance + r.amount)
        /\ pc[w] \in {"unindex", "unlist", "close"} => account[r.from].balance = 0

SerialInv == PostedOnce /\ DeletedAtZero /\ \A w \in Workers : StillChecked(w)

-----------------------------------------------------------------------------
(* What the steps do to the one worker and to the accounts.                *)

\* The accounts and journals a handler names exist.
LEMMA Terms ==
    ASSUME Inv, NEW w \in Workers, pc[w] \in CheckSteps \cup EntitySteps
    PROVE  LET r == req[w]
           IN  /\ r \in Requests /\ r.from \in Accounts
               /\ pc[w] \in CheckSteps =>
                     /\ r.to \in Accounts /\ r.from # r.to
                     /\ r.kind \in Decisions \cup {"propose", "create"}
                     /\ r.kind \in Decisions => r.j \in Journals
BY InvParts DEF RequestsOK, RequestOK, EntitySteps, CheckSteps

\* Where a step takes its worker.
LEMMA MovedTo ==
    ASSUME Inv, NEW w \in Workers, NEW step, NEW r, Go(w, step, r)
    PROVE  pc'[w] = step /\ req'[w] = r
BY DEF Inv, TypeOK, Go

\* A request that is past its checks, or is answered, relies on nothing.
LEMMA NothingToCheck ==
    ASSUME NEW w, pc'[w] \notin CheckSteps \cup {"unindex", "unlist", "close"}
    PROVE  StillChecked(w)'
BY DEF StillChecked, CheckSteps

LEMMA Finished ==
    ASSUME Inv, NEW w \in Workers, Finish(w)
    PROVE  StillChecked(w)'
<1>1. pc'[w] = "idle"
  BY MovedTo DEF Finish
<1> QED
  BY <1>1, NothingToCheck DEF CheckSteps

\* A credit of a live account adds to its balance and changes nothing else.
LEMMA CreditLive ==
    ASSUME NEW accounts \in [Accounts -> AccountRows], NEW a \in Accounts,
           accounts[a].live, NEW amount \in Int
    PROVE  LET new == Credit(accounts, a, amount)
           IN  /\ new \in [Accounts -> AccountRows]
               /\ new[a].balance = accounts[a].balance + amount
               /\ new[a].live
               /\ \A b \in Accounts : b # a => new[b] = accounts[b]
<1> DEFINE row == [accounts[a] EXCEPT !.balance = accounts[a].balance + amount]
<1>1. /\ row \in AccountRows /\ row.balance = accounts[a].balance + amount
      /\ row.live = accounts[a].live
  <2> DEFINE old == accounts[a]
             sum == old.balance + amount
  <2>1. old \in AccountRows /\ sum \in Int
    BY DEF AccountRows
  <2> HIDE DEF old, sum
  <2>2. LET new == [old EXCEPT !.balance = sum]
        IN  new \in AccountRows /\ new.balance = sum /\ new.live = old.live
    BY <2>1 DEF AccountRows
  <2> QED
    BY <2>2 DEF old, sum
<1>2. Credit(accounts, a, amount) = [accounts EXCEPT ![a] = row]
  BY DEF Credit
<1> HIDE DEF row
<1> QED
  BY <1>1, <1>2

\* The postings of a transfer between two live accounts move its amount.
LEMMA SettleLive ==
    ASSUME LedgerTypeOK, NEW j \in Journals, NEW from \in Accounts, NEW to \in Accounts,
           from # to, account[from].live, account[to].live, NEW amount \in Nat,
           Settle(j, from, to, amount)
    PROVE  /\ account'[from].balance = account[from].balance - amount
           /\ account'[to].balance = account[to].balance + amount
           /\ account'[from].live /\ account'[to].live
           /\ \A b \in Accounts \ {from, to} : account'[b] = account[b]
<1> DEFINE one == Credit(account, from, -amount)
<1>1. account \in [Accounts -> AccountRows]
  BY DEF LedgerTypeOK, AccountRows
<1>2. /\ one \in [Accounts -> AccountRows]
      /\ one[from].balance = account[from].balance + (-amount)
      /\ one[from].live
      /\ \A b \in Accounts : b # from => one[b] = account[b]
  BY <1>1, CreditLive
<1>3. account' = Credit(one, to, amount)
  BY DEF Settle
<1>4. account[from].balance \in Int
  BY <1>1 DEF AccountRows
<1> HIDE DEF one
<1>5. /\ account'[to].balance = one[to].balance + amount
      /\ account'[to].live
      /\ \A b \in Accounts : b # to => account'[b] = one[b]
  BY <1>2, <1>3, CreditLive
<1> QED
  BY <1>2, <1>4, <1>5

-----------------------------------------------------------------------------
(* What one step has to show.                                              *)

PromiseStep == Promised!Next \/ UNCHANGED Promised!vars

Kept == SerialInv' /\ PromiseStep

\* A step that moves no money and decides no transfer.
LEMMA QuietStep ==
    ASSUME Serial, SerialInv, NEW w \in Workers, StillChecked(w)', DeletedAtZero',
           UNCHANGED <<journal, posted>>,
           \A a \in Accounts : account'[a].balance = account[a].balance
    PROVE  Kept
<1>1. PostedOnce'
  BY DEF SerialInv, PostedOnce
<1>2. \A v \in Workers : StillChecked(v)'
  BY DEF Serial
<1>3. UNCHANGED Promised!vars
  BY DEF Promised!vars
<1> QED
  BY <1>1, <1>2, <1>3 DEF Kept, SerialInv, PromiseStep

LEMMA NoStoreStep ==
    ASSUME Serial, SerialInv, NEW w \in Workers, StillChecked(w)', UNCHANGED stores
    PROVE  Kept
<1>1. DeletedAtZero'
  BY DEF SerialInv, DeletedAtZero, stores
<1> QED
  BY <1>1, QuietStep DEF stores

-----------------------------------------------------------------------------
(* Loading and checking a request.                                         *)

LEMMA TransferKept ==
    ASSUME Inv, Serial, SerialInv, NEW w \in Workers, NEW r \in Requests,
           Submit(w, "balances", r), r.from \in Accounts, r.to \in Accounts,
           r.kind \in Decisions => journal[r.j].status = "initiated",
           entity[r.from] # "deleted", entity[r.to] # "deleted"
    PROVE  Kept
<1>1. pc'[w] = "balances" /\ req'[w] = r /\ UNCHANGED stores
  BY MovedTo DEF Submit
<1>2. StillChecked(w)'
  BY <1>1 DEF StillChecked, CheckSteps, stores
<1> QED
  BY <1>1, <1>2, NoStoreStep

LEMMA AdminTransferKept ==
    ASSUME Inv, Serial, SerialInv, NEW w \in Workers, NEW from \in Accounts,
           NEW to \in Accounts, NEW amount \in Amounts, SubmitAdminTransfer(w, from, to, amount)
    PROVE  Kept
<1> DEFINE r == [NoReq EXCEPT !.kind = "create",
                              !.from = from, !.to = to, !.amount = amount]
<1>1. r \in Requests /\ r.kind \notin Decisions /\ r.from = from /\ r.to = to
  BY NoReqType, TransfersAssumption
     DEF TransfersAssumption, Requests, Kinds, Decisions, Cancellations
<1>2. Submit(w, "balances", r) /\ entity[from] # "deleted" /\ entity[to] # "deleted"
  BY DEF SubmitAdminTransfer, MayTrade
<1> QED
  BY <1>1, <1>2, TransferKept

LEMMA ProposalKept ==
    ASSUME Inv, Serial, SerialInv, NEW w \in Workers, NEW u \in Users, NEW from \in Accounts,
           NEW to \in Accounts, NEW amount \in Amounts, NEW initiator,
           SubmitProposal(w, u, initiator, from, to, amount)
    PROVE  Kept
<1> DEFINE r == [NoReq EXCEPT !.kind = "propose", !.user = u, !.initiator = initiator,
                              !.from = from, !.to = to, !.amount = amount]
<1>1. r \in Requests /\ r.kind \notin Decisions /\ r.from = from /\ r.to = to
  BY NoReqType, TransfersAssumption
     DEF TransfersAssumption, Requests, Kinds, Decisions, Cancellations, SubmitProposal
<1>2. Submit(w, "balances", r) /\ entity[from] # "deleted" /\ entity[to] # "deleted"
  BY DEF SubmitProposal, MayTrade
<1> QED
  BY <1>1, <1>2, TransferKept

LEMMA DecisionKept ==
    ASSUME Inv, Serial, SerialInv, NEW w \in Workers, NEW u \in Users, NEW j \in Journals,
           NEW kind \in {"accept", "reject", "cancel"}, SubmitDecision(w, u, j, kind)
    PROVE  Kept
<1> DEFINE row == journal[j]
           r == [NoReq EXCEPT !.kind = kind, !.user = u, !.j = j,
                              !.initiator = row.initiator, !.from = row.from,
                              !.to = row.to, !.amount = row.amount]
<1>1. /\ row \in JournalRows /\ row.status = "initiated"
      /\ row.from \in Accounts /\ row.to \in Accounts
      /\ entity[row.from] # "deleted" /\ entity[row.to] # "deleted"
  BY DEF SubmitDecision, Decidable, Inv, LedgerInv, LedgerTypeOK
<1>2. r \in Requests
  BY <1>1, NoReqType DEF Requests, Kinds, Cancellations, JournalRows
<1>3. r.j = j /\ r.from = row.from /\ r.to = row.to
  BY NoReqType DEF Requests
<1>4. Submit(w, "balances", r)
  BY DEF SubmitDecision
<1> QED
  BY <1>1, <1>2, <1>3, <1>4, TransferKept

LEMMA EntityRequestKept ==
    ASSUME Inv, Serial, SerialInv, NEW w \in Workers, NEW a \in Accounts,
           SubmitDelete(w, a) \/ SubmitEntityUpdate(w, a)
    PROVE  Kept
<1> DEFINE del == [NoReq EXCEPT !.kind = "delete", !.from = a]
           upd == [NoReq EXCEPT !.kind = "updateEntity", !.from = a]
<1>1. del.from = a
  BY NoReqType DEF Requests
<1>2. CASE SubmitDelete(w, a)
  <2>1. /\ pc'[w] = "unindex" /\ req'[w] = del /\ UNCHANGED stores
        /\ account[a].balance = 0
    BY <1>2, MovedTo DEF SubmitDelete, Submit, IsZeroBalance
  <2>2. StillChecked(w)'
    BY <2>1, <1>1 DEF StillChecked, CheckSteps, stores
  <2> QED
    BY <2>1, <2>2, NoStoreStep
<1>3. CASE SubmitEntityUpdate(w, a)
  <2>1. pc'[w] = "setLimits" /\ UNCHANGED stores
    BY <1>3, MovedTo DEF SubmitEntityUpdate, Submit
  <2>2. StillChecked(w)'
    BY <2>1, NothingToCheck DEF CheckSteps
  <2> QED
    BY <2>1, <2>2, NoStoreStep
<1> QED
  BY <1>2, <1>3

LEMMA SubmitAnyKept ==
    ASSUME Inv, Serial, SerialInv, NEW w \in Workers, SubmitAny(w)
    PROVE  Kept
BY AdminTransferKept, ProposalKept, DecisionKept, EntityRequestKept DEF SubmitAny

LEMMA FailKept ==
    ASSUME Inv, Serial, SerialInv, NEW w \in Workers, Fail(w)
    PROVE  Kept
BY Finished, NoStoreStep DEF Fail

LEMMA ReadBalancesKept ==
    ASSUME Inv, Serial, SerialInv, NEW w \in Workers, ReadBalances(w)
    PROVE  Kept
<1> DEFINE r == req[w]
           new == [r EXCEPT !.fromBal = account[r.from].balance,
                            !.toBal = account[r.to].balance]
<1>1. UNCHANGED stores
  BY DEF ReadBalances
<1>2. CASE Finish(w)
  BY <1>1, <1>2, Finished, NoStoreStep
<1>3. CASE Go(w, "limits", new)
  <2>1. r \in Requests /\ pc[w] \in CheckSteps /\ StillChecked(w)
    BY Terms DEF ReadBalances, CheckSteps, SerialInv
  <2>2. /\ new.kind = r.kind /\ new.j = r.j /\ new.from = r.from /\ new.to = r.to
        /\ new.fromBal = account[r.from].balance /\ new.toBal = account[r.to].balance
    BY <2>1 DEF Requests
  <2>3. pc'[w] = "limits" /\ req'[w] = new
    BY <1>3, MovedTo
  <2> HIDE DEF new
  <2>4. StillChecked(w)'
    BY <1>1, <2>1, <2>2, <2>3 DEF StillChecked, CheckSteps, stores
  <2> QED
    BY <1>1, <2>4, NoStoreStep
<1> QED
  BY <1>2, <1>3 DEF ReadBalances

LEMMA CheckLimitsKept ==
    ASSUME Inv, Serial, SerialInv, NEW w \in Workers, CheckLimits(w)
    PROVE  Kept
<1> DEFINE zero == 0
           q == req[w]
           r == [q EXCEPT !.fromBal = zero, !.toBal = zero]
           sys == [r EXCEPT !.kind = "cancelBySystem"]
<1>0. zero \in Int
  OBVIOUS
<1>1. \/ Cleared(q) /\ Go(w, "commit", r)
      \/ q.kind \notin {"propose", "create"} /\ Go(w, "commit", sys)
      \/ Finish(w)
  BY DEF CheckLimits
<1>2. pc[w] = "limits" /\ UNCHANGED stores
  BY DEF CheckLimits
<1> HIDE DEF zero
<1>3. /\ q \in Requests /\ StillChecked(w) /\ pc[w] \in CheckSteps
      /\ q.kind \in Decisions \cup {"propose", "create"}
  BY <1>2, Terms DEF CheckSteps, SerialInv
<1>4. /\ r \in Requests /\ r.kind = q.kind /\ r.j = q.j
      /\ r.from = q.from /\ r.to = q.to /\ r.amount = q.amount
  BY <1>0, <1>3 DEF Requests
<1>5. /\ sys.kind = "cancelBySystem" /\ sys.j = q.j
      /\ sys.from = q.from /\ sys.to = q.to
  BY <1>4 DEF Requests
<1> HIDE DEF r, sys
<1>6. CASE Cleared(q) /\ Go(w, "commit", r)
  <2>1. pc'[w] = "commit" /\ req'[w] = r
    BY <1>6, MovedTo
  <2>2. /\ account[q.from].live /\ account[q.to].live
        /\ ~IsExceedLimit(q.from, account[q.from].balance - q.amount)
        /\ ~IsExceedLimit(q.to, account[q.to].balance + q.amount)
    BY <1>2, <1>3, <1>6 DEF StillChecked, Cleared
  <2>3. StillChecked(w)'
    BY <1>2, <1>3, <1>4, <2>1, <2>2 DEF StillChecked, CheckSteps, stores, IsExceedLimit
  <2> QED
    BY <1>2, <2>3, NoStoreStep
<1>7. CASE q.kind \notin {"propose", "create"} /\ Go(w, "commit", sys)
  <2>1. pc'[w] = "commit" /\ req'[w] = sys
    BY <1>7, MovedTo
  <2>2. StillChecked(w)'
    BY <1>2, <1>3, <1>5, <1>7, <2>1
       DEF StillChecked, CheckSteps, stores, Decisions, Cancellations
  <2> QED
    BY <1>2, <2>2, NoStoreStep
<1>8. CASE Finish(w)
  BY <1>2, <1>8, Finished, NoStoreStep
<1> QED
  BY <1>1, <1>6, <1>7, <1>8

-----------------------------------------------------------------------------
(* Changing the ledger.                                                    *)

\* The journals as the abstract specification sees them change in one place.
LEMMA OneState ==
    ASSUME journal \in [Journals -> JournalRows], journal' \in [Journals -> JournalRows],
           NEW j \in Journals, NEW status, journal'[j].status = status,
           \A k \in Journals : k # j => journal'[k] = journal[k]
    PROVE  [k \in Journals |-> journal'[k].status]
             = [[k \in Journals |-> journal[k].status] EXCEPT ![j] = status]
OBVIOUS

\* What a commit of a transfer has to show of the accounts: it is between two
\* live accounts of entities that are not deleted.
LEMMA MoneyMoved ==
    ASSUME Inv, SerialInv, NEW w \in Workers, pc[w] = "commit",
           req[w].kind \notin Cancellations, NEW j \in Journals,
           Settle(j, req[w].from, req[w].to, req[w].amount),
           UNCHANGED <<limit, entity>>
    PROVE  DeletedAtZero'
<1> DEFINE r == req[w]
<1>1. /\ r \in Requests /\ r.from \in Accounts /\ r.to \in Accounts /\ r.from # r.to
      /\ StillChecked(w) /\ DeletedAtZero
  BY Terms DEF CheckSteps, SerialInv
<1>2. /\ account[r.from].live /\ account[r.to].live
      /\ ~IsExceedLimit(r.from, account[r.from].balance - r.amount)
      /\ ~IsExceedLimit(r.to, account[r.to].balance + r.amount)
      /\ entity[r.from] # "deleted" /\ entity[r.to] # "deleted"
  BY <1>1 DEF StillChecked, CheckSteps
<1>3. r.amount \in Nat /\ LedgerTypeOK
  BY <1>1 DEF Requests, Inv, TypeOK
<1>4. /\ account'[r.from].balance = account[r.from].balance - r.amount
      /\ account'[r.to].balance = account[r.to].balance + r.amount
      /\ account'[r.from].live /\ account'[r.to].live
      /\ \A b \in Accounts \ {r.from, r.to} : account'[b] = account[b]
  BY <1>1, <1>2, <1>3, SettleLive
<1> HIDE DEF r
<1>5. ASSUME NEW a \in Accounts, entity'[a] = "deleted" \/ ~account'[a].live
      PROVE  account'[a].balance = 0
  <2>1. a # r.from /\ a # r.to
    BY <1>2, <1>4, <1>5
  <2> QED
    BY <2>1, <1>1, <1>4, <1>5 DEF DeletedAtZero
<1> QED
  BY <1>5 DEF DeletedAtZero

LEMMA CommitProposalKept ==
    ASSUME Inv, Inv', Serial, SerialInv, NEW w \in Workers, CommitProposal(w)
    PROVE  Kept
<1> DEFINE r == req[w]
<1>1. PICK j \in Journals :
             /\ JournalPropose(j, r.initiator, r.from, r.to, r.amount)
             /\ Go(w, "index", [r EXCEPT !.j = j, !.status = "initiated"])
  BY DEF CommitProposal
<1>2. pc'[w] = "index"
  BY <1>1, MovedTo
<1>3. \A v \in Workers : StillChecked(v)'
  BY <1>2, NothingToCheck DEF Serial, CheckSteps
<1>4. /\ journal \in [Journals -> JournalRows] /\ journal' \in [Journals -> JournalRows]
      /\ posted \in [Journals -> Nat]
  BY DEF Inv, LedgerInv, LedgerTypeOK
<1>5. /\ journal[j].status = "none" /\ journal'[j].status = "initiated"
      /\ \A k \in Journals : k # j => journal'[k] = journal[k]
      /\ UNCHANGED <<account, limit, posted, entity>>
  BY <1>1, <1>4 DEF JournalPropose, CommitProposal
<1>6. PostedOnce'
  BY <1>5 DEF SerialInv, PostedOnce
<1>7. DeletedAtZero'
  BY <1>5 DEF SerialInv, DeletedAtZero
<1>8. Promised!Propose(j)
  BY <1>4, <1>5, OneState DEF Promised!Propose
<1>9. PromiseStep
  BY <1>8 DEF PromiseStep, Promised!Next
<1> QED
  BY <1>3, <1>6, <1>7, <1>9 DEF Kept, SerialInv

\* A transfer that is not completed yet is completed and its amount moved.
LEMMA CompletedKept ==
    ASSUME Inv, Inv', Serial, SerialInv, NEW w \in Workers, NEW j \in Journals,
           pc[w] = "commit", pc'[w] = "index", req[w].kind \notin Cancellations,
           journal[j].status \in {"none", "initiated"}, journal'[j].status = "completed",
           \A k \in Journals : k # j => journal'[k] = journal[k],
           Settle(j, req[w].from, req[w].to, req[w].amount), UNCHANGED <<limit, entity>>
    PROVE  Kept
<1>1. \A v \in Workers : StillChecked(v)'
  BY NothingToCheck DEF Serial, CheckSteps
<1>2. /\ journal \in [Journals -> JournalRows] /\ journal' \in [Journals -> JournalRows]
      /\ posted \in [Journals -> Nat]
  BY DEF Inv, LedgerInv, LedgerTypeOK
<1>3. posted[j] = 0 /\ posted' = [posted EXCEPT ![j] = 1]
  <2>1. posted[j] = 0
    BY DEF SerialInv, PostedOnce
  <2>2. posted' = [posted EXCEPT ![j] = posted[j] + 1]
    BY DEF Settle
  <2>3. posted[j] + 1 = 1
    BY <2>1
  <2> QED
    BY <2>1, <2>2, <2>3
<1>4. posted'[j] = 1 /\ \A k \in Journals : k # j => posted'[k] = posted[k]
  BY <1>2, <1>3
<1>5. PostedOnce'
  BY <1>4 DEF SerialInv, PostedOnce
<1>6. DeletedAtZero'
  BY MoneyMoved
<1>7. [k \in Journals |-> journal'[k].status]
        = [[k \in Journals |-> journal[k].status] EXCEPT ![j] = "completed"]
  BY <1>2, OneState
<1>8. Promised!Complete(j)
  BY <1>3, <1>7 DEF Promised!Complete
<1>9. PromiseStep
  BY <1>8 DEF PromiseStep, Promised!Next
<1> QED
  BY <1>1, <1>5, <1>6, <1>9 DEF Kept, SerialInv

LEMMA CommitAdminTransferKept ==
    ASSUME Inv, Inv', Serial, SerialInv, NEW w \in Workers, CommitAdminTransfer(w)
    PROVE  Kept
<1> DEFINE r == req[w]
<1>1. PICK j \in Journals :
             /\ JournalCreate(j, r.from, r.to, r.amount)
             /\ Go(w, "index", [r EXCEPT !.j = j, !.status = "completed"])
  BY DEF CommitAdminTransfer
<1>2. pc[w] = "commit" /\ pc'[w] = "index" /\ r.kind \notin Cancellations
  BY <1>1, MovedTo DEF CommitAdminTransfer, Cancellations
<1>3. journal \in [Journals -> JournalRows]
  BY DEF Inv, LedgerInv, LedgerTypeOK
<1>4. /\ journal[j].status = "none" /\ journal'[j].status = "completed"
      /\ \A k \in Journals : k # j => journal'[k] = journal[k]
      /\ Settle(j, r.from, r.to, r.amount) /\ UNCHANGED <<limit, entity>>
  BY <1>1, <1>3 DEF JournalCreate, CommitAdminTransfer
<1> QED
  BY <1>2, <1>4, CompletedKept

LEMMA CommitAcceptKept ==
    ASSUME Inv, Inv', Serial, SerialInv, NEW w \in Workers, CommitAccept(w)
    PROVE  Kept
<1> DEFINE r == req[w]
<1>1. /\ JournalAccept(r.j, r.from, r.to, r.amount) /\ r.kind = "accept" /\ pc[w] = "commit"
      /\ UNCHANGED entity
  BY DEF CommitAccept
<1>2. pc'[w] = "index" /\ r.kind \notin Cancellations
  BY <1>1, MovedTo DEF CommitAccept, Cancellations
<1>3. r.j \in Journals /\ journal[r.j].status = "initiated"
  BY <1>1, Terms DEF SerialInv, StillChecked, CheckSteps, Decisions
<1>4. /\ journal'[r.j].status = "completed"
      /\ \A k \in Journals : k # r.j => journal'[k] = journal[k]
  BY <1>1, <1>3, StatusType DEF JournalAccept, Inv, TypeOK, Statuses
<1>5. Settle(r.j, r.from, r.to, r.amount) /\ UNCHANGED limit
  BY <1>1 DEF JournalAccept
<1> QED
  BY <1>1, <1>2, <1>3, <1>4, <1>5, CompletedKept

LEMMA CommitCancelKept ==
    ASSUME Inv, Inv', Serial, SerialInv, NEW w \in Workers, CommitCancel(w)
    PROVE  Kept
<1> DEFINE i == req[w].j
<1>1. /\ JournalCancel(i) /\ req[w].kind \in Decisions /\ pc[w] = "commit"
      /\ UNCHANGED entity /\ Go(w, "readBack", req[w])
  BY DEF CommitCancel, Decisions
<1>2. pc'[w] = "readBack"
  BY <1>1, MovedTo
<1>3. \A v \in Workers : StillChecked(v)'
  BY <1>2, NothingToCheck DEF Serial, CheckSteps
<1>4. i \in Journals /\ journal[i].status = "initiated"
  BY <1>1, Terms DEF SerialInv, StillChecked, CheckSteps
<1>5. /\ journal'[i].status = "cancelled"
      /\ \A k \in Journals : k # i => journal'[k] = journal[k]
      /\ UNCHANGED <<account, limit, posted>>
  BY <1>1, <1>4, StatusType DEF JournalCancel, Inv, TypeOK, Statuses
<1>6. journal \in [Journals -> JournalRows] /\ journal' \in [Journals -> JournalRows]
  BY DEF Inv, LedgerInv, LedgerTypeOK
<1> HIDE DEF i
<1>7. PICK j \in Journals : j = i
  BY <1>4
<1>8. PostedOnce'
  BY <1>4, <1>5 DEF SerialInv, PostedOnce
<1>9. DeletedAtZero'
  BY <1>1, <1>5 DEF SerialInv, DeletedAtZero
<1>10. [k \in Journals |-> journal'[k].status]
        = [[k \in Journals |-> journal[k].status] EXCEPT ![j] = "cancelled"]
  BY <1>7, <1>5, <1>6, OneState
<1>11. Promised!Cancel(j)
  BY <1>7, <1>4, <1>5, <1>10 DEF Promised!Cancel
<1>12. PromiseStep
  BY <1>11 DEF PromiseStep, Promised!Next
<1> QED
  BY <1>3, <1>8, <1>9, <1>12 DEF Kept, SerialInv

-----------------------------------------------------------------------------
(* Mirroring a change, and the requests about entities.                    *)

LEMMA MirrorKept ==
    ASSUME Inv, Serial, SerialInv, NEW w \in Workers,
           ReadBack(w) \/ IndexJournal(w) \/ MirrorRead(w) \/ MirrorWrite(w)
    PROVE  Kept
<1>1. \E step \in IndexSteps \cup MirrorSteps \cup {"idle"} : \E r : Go(w, step, r)
  BY DEF ReadBack, IndexJournal, MirrorRead, MirrorWrite, IndexSteps, MirrorSteps, Finish
<1>2. pc'[w] \in IndexSteps \cup MirrorSteps \cup {"idle"}
  BY <1>1, MovedTo
<1>3. StillChecked(w)'
  BY <1>2, NothingToCheck DEF IndexSteps, MirrorSteps, CheckSteps
<1>4. UNCHANGED <<ledgerVars, entity>>
  BY DEF ReadBack, IndexJournal, MirrorRead, MirrorWrite, stores, ledgerVars
<1>5. DeletedAtZero'
  BY <1>4 DEF SerialInv, DeletedAtZero, ledgerVars
<1> QED
  BY <1>3, <1>4, <1>5, QuietStep DEF ledgerVars

LEMMA UnindexKept ==
    ASSUME Inv, Serial, SerialInv, NEW w \in Workers, Unindex(w)
    PROVE  Kept
<1>1. UNCHANGED <<ledgerVars, entity>> /\ (Go(w, "unlist", req[w]) \/ Finish(w))
  BY DEF Unindex
<1>2. account[req[w].from].balance = 0
  BY DEF SerialInv, StillChecked, Unindex
<1>3. ASSUME Go(w, "unlist", req[w]) PROVE StillChecked(w)'
  BY <1>1, <1>2, <1>3, MovedTo DEF StillChecked, CheckSteps, ledgerVars
<1>4. StillChecked(w)'
  BY <1>1, <1>3, Finished
<1>5. DeletedAtZero'
  BY <1>1 DEF SerialInv, DeletedAtZero, ledgerVars
<1> QED
  BY <1>1, <1>4, <1>5, QuietStep DEF ledgerVars

LEMMA UnlistKept ==
    ASSUME Inv, Serial, SerialInv, NEW w \in Workers, Unlist(w)
    PROVE  Kept
<1> DEFINE a == req[w].from
<1>1. UNCHANGED ledgerVars /\ (Go(w, "close", req[w]) \/ Finish(w))
  BY DEF Unlist
<1>2. account[a].balance = 0
  BY DEF SerialInv, StillChecked, Unlist
<1>3. ASSUME Go(w, "close", req[w]) PROVE StillChecked(w)'
  BY <1>1, <1>2, <1>3, MovedTo DEF StillChecked, CheckSteps, ledgerVars
<1>4. StillChecked(w)'
  BY <1>1, <1>3, Finished
<1>5. \A b \in Accounts : entity'[b] = entity[b] \/ b = a
  BY DEF Unlist, Inv, TypeOK
<1>6. DeletedAtZero'
  BY <1>1, <1>2, <1>5 DEF SerialInv, DeletedAtZero, ledgerVars
<1> QED
  BY <1>1, <1>4, <1>6, QuietStep DEF ledgerVars

LEMMA CloseAccountKept ==
    ASSUME Inv, Serial, SerialInv, NEW w \in Workers, CloseAccount(w)
    PROVE  Kept
<1> DEFINE a == req[w].from
<1>1. /\ AccountDelete(a) /\ Finish(w) /\ UNCHANGED <<entity, journal, posted>>
  BY DEF CloseAccount, AccountDelete
<1>2. account[a].balance = 0
  BY DEF SerialInv, StillChecked, CloseAccount
<1>3. account \in [Accounts -> AccountRows]
  BY DEF Inv, TypeOK, LedgerTypeOK, AccountRows
<1>4. ASSUME NEW b \in Accounts
      PROVE  /\ account'[b].balance = account[b].balance
             /\ b # a => account'[b] = account[b]
  <2>1. CASE b = a
    <3>1. account'[b] = [account[b] EXCEPT !.live = FALSE]
      BY <1>1, <1>3, <2>1 DEF AccountDelete
    <3>2. account[b] \in AccountRows
      BY <1>3
    <3> QED
      BY <2>1, <3>1, <3>2 DEF AccountRows
  <2>2. CASE b # a
    BY <1>1, <1>3, <2>2 DEF AccountDelete
  <2> QED
    BY <2>1, <2>2
<1>5. DeletedAtZero'
  BY <1>1, <1>2, <1>4 DEF SerialInv, DeletedAtZero
<1> QED
  BY <1>1, <1>4, <1>5, Finished, QuietStep

LEMMA SetLimitsKept ==
    ASSUME Inv, Serial, SerialInv, NEW w \in Workers, SetLimits(w)
    PROVE  Kept
<1>1. UNCHANGED <<account, journal, posted, entity>> /\ Go(w, "setStatus", req[w])
  BY DEF SetLimits, LimitAdminUpdate
<1>2. pc'[w] = "setStatus"
  BY <1>1, MovedTo
<1>3. StillChecked(w)'
  BY <1>2, NothingToCheck DEF CheckSteps
<1>4. DeletedAtZero'
  BY <1>1 DEF SerialInv, DeletedAtZero
<1> QED
  BY <1>1, <1>3, <1>4, QuietStep

LEMMA SetStatusKept ==
    ASSUME Inv, Serial, SerialInv, NEW w \in Workers, SetStatus(w)
    PROVE  Kept
<1>1. UNCHANGED ledgerVars /\ Finish(w)
  BY DEF SetStatus
<1>2. \A a \in Accounts : entity'[a] = "deleted" => entity[a] = "deleted"
  BY DEF SetStatus, Inv, TypeOK
<1>3. DeletedAtZero'
  BY <1>1, <1>2 DEF SerialInv, DeletedAtZero, ledgerVars
<1> QED
  BY <1>1, <1>3, Finished, QuietStep DEF ledgerVars

-----------------------------------------------------------------------------
(* The invariant and what follows from it.                                 *)

LEMMA InitSerial == Init => SerialInv
BY DEF Init, LedgerInit, NoRow, SerialInv, PostedOnce, DeletedAtZero, StillChecked, CheckSteps

\* Every step keeps the invariant and the promise.
LEMMA NextSerial ==
    ASSUME Inv, Inv', Serial, SerialInv, [Next]_vars
    PROVE  Kept
<1>1. ASSUME NEW w \in Workers, Work(w)
      PROVE  Kept
  BY <1>1, ReadBalancesKept, CheckLimitsKept, CommitProposalKept, CommitAdminTransferKept,
     CommitAcceptKept, CommitCancelKept, MirrorKept, UnindexKept, UnlistKept,
     CloseAccountKept, SetLimitsKept, SetStatusKept DEF Work
<1>2. CASE Next
  BY <1>1, <1>2, SubmitAnyKept, FailKept DEF Next
<1>3. CASE UNCHANGED vars
  <2>1. SerialInv'
    BY <1>3 DEF vars, stores, SerialInv, PostedOnce, DeletedAtZero, StillChecked, IsExceedLimit
  <2> QED
    BY <1>3, <2>1 DEF Kept, PromiseStep, Promised!vars, vars, stores
<1> QED
  BY <1>2, <1>3

LEMMA SerialInvariance ==
    ASSUME Serial
    PROVE  Spec => []SerialInv
<1>1. Inv /\ Inv' /\ SerialInv /\ [Next]_vars => SerialInv'
  BY NextSerial DEF Kept
<1> QED
  BY <1>1, InitSerial, Invariance, PTL DEF Spec

\* Whatever step a deletion stops at, the deleted account holds no money.
THEOREM DeletionsAtZero ==
    ASSUME Serial
    PROVE  Spec => []DeletedAtZero
<1>1. SerialInv => DeletedAtZero
  BY DEF SerialInv
<1> QED
  BY <1>1, SerialInvariance, PTL

\* Requests handled one at a time, and failing anywhere, implement the life of a
\* transfer that the API promises.
THEOREM Implementation ==
    ASSUME Serial
    PROVE  Spec => PromiseKept
<1>1. Init => Promised!Init
  BY DEF Init, LedgerInit, NoRow, Promised!Init
<1>2. Inv /\ Inv' /\ SerialInv /\ [Next]_vars => [Promised!Next]_(Promised!vars)
  BY NextSerial DEF Kept, PromiseStep
<1>3. Spec => Promised!Spec
  BY <1>1, <1>2, Invariance, SerialInvariance, PTL DEF Spec, Promised!Spec
<1> QED
  BY <1>3 DEF PromiseKept

-----------------------------------------------------------------------------
(***************************************************************************)
(* The limits, however many requests are in flight.  A transfer reads the  *)
(* balances, then the limits, and books in a transaction of its own: what  *)
(* it has read binds unless another request changes the same accounts      *)
(* meanwhile.                                                              *)
(***************************************************************************)

\* Requests that move money once they are cleared, and have read the balances.
Moving(w) == pc[w] \in {"limits", "commit"} /\ req[w].kind \in {"create", "accept"}

\* The accounts a request is about to change: whose balances it is to book, or
\* whose limits it is to set.
Touched(w) == IF pc[w] = "commit" /\ Moving(w) THEN {req[w].from, req[w].to}
              ELSE IF pc[w] = "setLimits" THEN {req[w].from} ELSE {}

\* A request may change an account that another one has read and not booked yet.
Overtaken == \E v, w \in Workers : /\ v # w /\ Moving(v)
                                   /\ {req[v].from, req[v].to} \cap Touched(w) # {}

\* What a transfer has read is so.
StillRead(w) ==
    LET r == req[w]
    IN  Moving(w) =>
          IF pc[w] = "limits"
          THEN r.fromBal = account[r.from].balance /\ r.toBal = account[r.to].balance
          ELSE /\ ~IsExceedLimit(r.from, account[r.from].balance - r.amount)
               /\ ~IsExceedLimit(r.to, account[r.to].balance + r.amount)

ReadInv == \A w \in Workers : StillRead(w)

LimitsStep ==
    \A a \in Accounts :
       account'[a].balance # account[a].balance => ~IsExceedLimit(a, account'[a].balance)

Same(a) == account'[a].balance = account[a].balance /\ limit'[a] = limit[a]

\* What a moving request names.
LEMMA MovingTerms ==
    ASSUME Inv, NEW w \in Workers, Moving(w)
    PROVE  /\ req[w] \in Requests /\ req[w].from \in Accounts /\ req[w].to \in Accounts
           /\ req[w].from # req[w].to
  BY InvParts DEF Moving, RequestsOK, RequestOK, CheckSteps

\* A credit changes one balance, or none where the account is deleted.
LEMMA CreditEither ==
    ASSUME NEW accounts \in [Accounts -> AccountRows], NEW a \in Accounts, NEW amount \in Int
    PROVE  LET new == Credit(accounts, a, amount)
           IN  /\ new \in [Accounts -> AccountRows]
               /\ new[a].balance \in {accounts[a].balance, accounts[a].balance + amount}
               /\ \A b \in Accounts : b # a => new[b] = accounts[b]
<1>1. CASE accounts[a].live
  BY <1>1, CreditLive
<1>2. CASE ~accounts[a].live
  BY <1>2 DEF Credit
<1> QED
  BY <1>1, <1>2

LEMMA SettleEither ==
    ASSUME LedgerTypeOK, NEW j \in Journals, NEW from \in Accounts, NEW to \in Accounts,
           from # to, NEW amount \in Nat, Settle(j, from, to, amount)
    PROVE  /\ account'[from].balance \in {account[from].balance, account[from].balance - amount}
           /\ account'[to].balance \in {account[to].balance, account[to].balance + amount}
           /\ \A b \in Accounts \ {from, to} : account'[b] = account[b]
<1> DEFINE one == Credit(account, from, -amount)
<1>1. account \in [Accounts -> AccountRows]
  BY DEF LedgerTypeOK, AccountRows
<1>2. /\ one \in [Accounts -> AccountRows]
      /\ one[from].balance \in {account[from].balance, account[from].balance + (-amount)}
      /\ \A b \in Accounts : b # from => one[b] = account[b]
  BY <1>1, CreditEither
<1>3. account' = Credit(one, to, amount)
  BY DEF Settle
<1>4. account[from].balance \in Int
  BY <1>1 DEF AccountRows
<1> HIDE DEF one
<1>5. /\ account'[to].balance \in {one[to].balance, one[to].balance + amount}
      /\ \A b \in Accounts : b # to => account'[b] = one[b]
  BY <1>2, <1>3, CreditEither
<1> QED
  BY <1>2, <1>4, <1>5

\* A transfer that is booked.
Booking(w) == CommitAdminTransfer(w) \/ CommitAccept(w)

LEMMA BookingSettles ==
    ASSUME Inv, NEW w \in Workers, Booking(w)
    PROVE  /\ pc[w] = "commit" /\ Moving(w) /\ pc'[w] = "index" /\ UNCHANGED limit
           /\ \E j \in Journals : Settle(j, req[w].from, req[w].to, req[w].amount)
<1>1. CASE CommitAdminTransfer(w)
  <2>1. PICK j \in Journals :
               /\ JournalCreate(j, req[w].from, req[w].to, req[w].amount)
               /\ Go(w, "index", [req[w] EXCEPT !.j = j, !.status = "completed"])
    BY <1>1 DEF CommitAdminTransfer
  <2> QED
    BY <1>1, <2>1, MovedTo DEF CommitAdminTransfer, JournalCreate, Moving
<1>2. CASE CommitAccept(w)
  <2>1. /\ JournalAccept(req[w].j, req[w].from, req[w].to, req[w].amount)
        /\ pc[w] = "commit" /\ req[w].kind = "accept" /\ pc'[w] = "index"
    BY <1>2, MovedTo DEF CommitAccept
  <2>2. req[w].j \in Journals
    BY <2>1, Terms DEF CheckSteps, Decisions
  <2> QED
    BY <2>1, <2>2 DEF JournalAccept, Moving
<1> QED
  BY <1>1, <1>2 DEF Booking

\* Only what a request was about to change changes.
LEMMA OnlyTouched ==
    ASSUME Inv, NEW w \in Workers, SubmitAny(w) \/ Work(w) \/ Fail(w),
           NEW a \in Accounts, a \notin Touched(w)
    PROVE  Same(a)
<1>1. account \in [Accounts -> AccountRows] /\ limit \in [Accounts -> LimitRows]
  BY DEF Inv, TypeOK, LedgerTypeOK, AccountRows
<1>2. CASE SubmitAny(w) \/ Fail(w)
  <2>1. ASSUME SubmitAny(w) PROVE UNCHANGED stores
    BY <2>1 DEF SubmitAny, SubmitProposal, SubmitAdminTransfer, SubmitDecision, SubmitDelete,
                SubmitEntityUpdate, Submit
  <2> QED
    BY <1>2, <2>1 DEF Fail, Same, stores
<1>3. CASE Booking(w)
  <2>1. PICK j \in Journals : Settle(j, req[w].from, req[w].to, req[w].amount)
    BY <1>3, BookingSettles
  <2>2. pc[w] = "commit" /\ Moving(w) /\ UNCHANGED limit
    BY <1>3, BookingSettles
  <2>3. a \notin {req[w].from, req[w].to}
    BY <2>2 DEF Touched
  <2>4. account'[a] = account[a]
    BY <2>1, <2>2, <2>3, MovingTerms, SettleEither DEF Requests, Inv, TypeOK
  <2> QED
    BY <2>2, <2>4 DEF Same
<1>4. CASE SetLimits(w)
  <2>1. PICK row \in LimitRows : LimitAdminUpdate(req[w].from, row)
    BY <1>4 DEF SetLimits
  <2>2. a # req[w].from
    BY <1>4 DEF SetLimits, Touched, Moving
  <2> QED
    BY <1>1, <2>1, <2>2 DEF LimitAdminUpdate, Same
<1>5. CASE CloseAccount(w)
  <2>1. account' = [account EXCEPT ![req[w].from].live = FALSE] /\ UNCHANGED limit
    BY <1>5 DEF CloseAccount, AccountDelete
  <2>2. account'[a].balance = account[a].balance
    BY <1>1, <2>1 DEF AccountRows
  <2> QED
    BY <2>1, <2>2 DEF Same
<1>6. CASE CommitProposal(w) \/ CommitCancel(w)
  BY <1>6 DEF CommitProposal, JournalPropose, CommitCancel, JournalCancel, Same
<1>7. CASE ReadBalances(w) \/ CheckLimits(w) \/ ReadBack(w) \/ IndexJournal(w) \/ MirrorRead(w)
  BY <1>7 DEF ReadBalances, CheckLimits, ReadBack, IndexJournal, MirrorRead, Same, stores, ledgerVars
<1>8. CASE MirrorWrite(w) \/ Unindex(w) \/ Unlist(w) \/ SetStatus(w)
  BY <1>8 DEF MirrorWrite, Unindex, Unlist, SetStatus, Same, ledgerVars
<1> QED
  BY <1>2, <1>3, <1>4, <1>5, <1>6, <1>7, <1>8 DEF Work, Booking

\* What a request itself reads, and what it concludes from it.
LEMMA ReadsRight ==
    ASSUME Inv, NEW w \in Workers, StillRead(w), SubmitAny(w) \/ Work(w) \/ Fail(w)
    PROVE  StillRead(w)'
<1>0. pc'[w] \notin {"limits", "commit"} => StillRead(w)'
  BY DEF StillRead, Moving
<1>1. CASE ReadBalances(w)
  <2> DEFINE r == req[w]
             new == [r EXCEPT !.fromBal = account[r.from].balance,
                              !.toBal = account[r.to].balance]
  <2>1. UNCHANGED stores /\ pc[w] = "balances"
    BY <1>1 DEF ReadBalances
  <2>2. r \in Requests /\ r.from \in Accounts /\ r.to \in Accounts
    BY <2>1, Terms DEF CheckSteps
  <2>3. CASE Finish(w)
    BY <1>0, <2>3, MovedTo DEF Finish
  <2>4. CASE Go(w, "limits", new)
    <3>1. pc'[w] = "limits" /\ req'[w] = new
      BY <2>4, MovedTo
    <3>2. /\ new.from = r.from /\ new.to = r.to
          /\ new.fromBal = account[r.from].balance /\ new.toBal = account[r.to].balance
      BY <2>2 DEF Requests
    <3> HIDE DEF new
    <3> QED
      BY <2>1, <3>1, <3>2 DEF StillRead, stores
  <2> QED
    BY <1>1, <2>3, <2>4 DEF ReadBalances
<1>2. CASE CheckLimits(w)
  <2> DEFINE zero == 0
             q == req[w]
             r == [q EXCEPT !.fromBal = zero, !.toBal = zero]
             sys == [r EXCEPT !.kind = "cancelBySystem"]
  <2>0. zero \in Int
    OBVIOUS
  <2>1. /\ pc[w] = "limits" /\ UNCHANGED stores
        /\ \/ Cleared(q) /\ Go(w, "commit", r)
           \/ Go(w, "commit", sys)
           \/ Finish(w)
    BY <1>2 DEF CheckLimits
  <2> HIDE DEF zero
  <2>2. q \in Requests
    BY <2>1, Terms DEF CheckSteps
  <2>3. r \in Requests /\ r.kind = q.kind /\ r.from = q.from /\ r.to = q.to /\ r.amount = q.amount
    BY <2>0, <2>2 DEF Requests
  <2>4. sys.kind = "cancelBySystem"
    BY <2>3 DEF Requests
  <2> HIDE DEF r, sys
  <2>5. CASE Cleared(q) /\ Go(w, "commit", r)
    <3>1. pc'[w] = "commit" /\ req'[w] = r
      BY <2>5, MovedTo
    <3>2. r.kind \in {"create", "accept"} =>
             q.fromBal = account[q.from].balance /\ q.toBal = account[q.to].balance
      BY <2>1, <2>3 DEF StillRead, Moving
    <3> QED
      BY <2>1, <2>3, <2>5, <3>1, <3>2 DEF StillRead, Moving, Cleared, IsExceedLimit, stores
  <2>6. CASE Go(w, "commit", sys)
    <3>1. req'[w] = sys
      BY <2>6, MovedTo
    <3> QED
      BY <2>4, <3>1 DEF StillRead, Moving
  <2>7. CASE Finish(w)
    BY <1>0, <2>7, MovedTo DEF Finish
  <2> QED
    BY <2>1, <2>5, <2>6, <2>7
<1>3. CASE SubmitAny(w) \/ Fail(w)
  <2>1. PICK step, r : Go(w, step, r) /\ step \notin {"limits", "commit"}
    <3>1. CASE Fail(w)
      BY <3>1 DEF Fail, Finish
    <3>2. CASE \E from, to \in Accounts, amount \in Amounts : SubmitAdminTransfer(w, from, to, amount)
      BY <3>2 DEF SubmitAdminTransfer, Submit
    <3>3. CASE \E from, to \in Accounts, amount \in Amounts, u \in Users : \E initiator \in {from, to} :
                  SubmitProposal(w, u, initiator, from, to, amount)
      BY <3>3 DEF SubmitProposal, Submit
    <3>4. CASE \E u \in Users, j \in Journals, kind \in {"accept", "reject", "cancel"} :
                  SubmitDecision(w, u, j, kind)
      BY <3>4 DEF SubmitDecision, Submit
    <3>5. CASE \E a \in Accounts : SubmitDelete(w, a) \/ SubmitEntityUpdate(w, a)
      BY <3>5 DEF SubmitDelete, SubmitEntityUpdate, Submit
    <3> QED
      BY <1>3, <3>1, <3>2, <3>3, <3>4, <3>5 DEF SubmitAny
  <2> QED
    BY <1>0, <2>1, MovedTo
<1>4. CASE Work(w) /\ ~ReadBalances(w) /\ ~CheckLimits(w)
  <2>1. PICK step, r : Go(w, step, r) /\ step \notin {"limits", "commit"}
    <3>0. CASE CommitProposal(w) \/ CommitAdminTransfer(w)
      <4>1. PICK r : Go(w, "index", r)
        BY <3>0, Zenon DEF CommitProposal, CommitAdminTransfer
      <4> QED
        BY <4>1
    <3>1. CASE CommitAccept(w) \/ CommitCancel(w) \/ ReadBack(w)
      <4>0. CASE CommitAccept(w)
        <5>1. PICK r : Go(w, "index", r)
          BY <4>0, Zenon DEF CommitAccept
        <5> QED
          BY <5>1
      <4>1. CASE CommitCancel(w)
        <5>1. Go(w, "readBack", req[w])
          BY <4>1, Zenon DEF CommitCancel
        <5> QED
          BY <5>1
      <4>2. CASE ReadBack(w)
        <5>1. PICK r : Go(w, "index", r)
          BY <4>2, Zenon DEF ReadBack
        <5> QED
          BY <5>1
      <4> QED
        BY <3>1, <4>0, <4>1, <4>2
    <3>2. CASE IndexJournal(w) \/ MirrorRead(w) \/ MirrorWrite(w)
      BY <3>2 DEF IndexJournal, MirrorRead, MirrorWrite, Finish
    <3>3. CASE Unindex(w) \/ Unlist(w) \/ CloseAccount(w) \/ SetLimits(w) \/ SetStatus(w)
      BY <3>3 DEF Unindex, Unlist, CloseAccount, SetLimits, SetStatus, Finish
    <3> QED
      BY <1>4, <3>0, <3>1, <3>2, <3>3 DEF Work
  <2> QED
    BY <1>0, <2>1, MovedTo
<1> QED
  BY <1>1, <1>2, <1>3, <1>4

\* What the others have read stays so while nobody overtakes them.
LEMMA ReadStays ==
    ASSUME Inv, ReadInv, ~Overtaken, NEW w \in Workers, SubmitAny(w) \/ Work(w) \/ Fail(w)
    PROVE  ReadInv'
<1> SUFFICES ASSUME NEW v \in Workers PROVE StillRead(v)'
  BY DEF ReadInv
<1>1. CASE v = w
  BY <1>1, ReadsRight DEF ReadInv
<1>2. CASE v # w
  <2>1. \E step, r : Go(w, step, r)
    BY DEF SubmitAny, SubmitProposal, SubmitAdminTransfer, SubmitDecision, SubmitDelete,
       SubmitEntityUpdate, Submit, Fail, Finish, Work, ReadBalances, CheckLimits, CommitProposal,
       CommitAdminTransfer, CommitAccept, CommitCancel, ReadBack, IndexJournal, MirrorRead,
       MirrorWrite, Unindex, Unlist, CloseAccount, SetLimits, SetStatus
  <2>2. pc'[v] = pc[v] /\ req'[v] = req[v]
    BY <1>2, <2>1 DEF Go, Inv, TypeOK
  <2>3. CASE ~Moving(v)
    BY <2>2, <2>3 DEF StillRead, Moving
  <2>4. CASE Moving(v)
    <3>1. req[v].from \notin Touched(w) /\ req[v].to \notin Touched(w)
      BY <1>2, <2>4 DEF Overtaken
    <3>2. Same(req[v].from) /\ Same(req[v].to)
      BY <2>4, <3>1, MovingTerms, OnlyTouched
    <3> QED
      BY <2>2, <3>2 DEF ReadInv, StillRead, Moving, IsExceedLimit, Same
  <2> QED
    BY <2>3, <2>4
<1> QED
  BY <1>1, <1>2

LEMMA LimitsKept ==
    ASSUME Inv, ReadInv, NEW w \in Workers, SubmitAny(w) \/ Work(w) \/ Fail(w)
    PROVE  LimitsStep
<1> SUFFICES ASSUME NEW a \in Accounts, account'[a].balance # account[a].balance
             PROVE  ~IsExceedLimit(a, account'[a].balance)
  BY DEF LimitsStep
<1>1. a \in Touched(w)
  BY OnlyTouched DEF Same
<1>2. CASE Booking(w)
  <2>1. PICK j \in Journals : Settle(j, req[w].from, req[w].to, req[w].amount)
    BY <1>2, BookingSettles
  <2>2. pc[w] = "commit" /\ Moving(w)
    BY <1>2, BookingSettles
  <2>3. /\ account'[req[w].from].balance \in {account[req[w].from].balance, account[req[w].from].balance - req[w].amount}
        /\ account'[req[w].to].balance \in {account[req[w].to].balance, account[req[w].to].balance + req[w].amount}
    BY <2>1, <2>2, MovingTerms, SettleEither DEF Requests, Inv, TypeOK
  <2>4. a \in {req[w].from, req[w].to}
    BY <1>1, <2>2 DEF Touched
  <2> QED
    BY <2>2, <2>3, <2>4 DEF ReadInv, StillRead
<1>3. CASE ~Booking(w)
  <2>1. pc[w] = "setLimits" \/ (pc[w] = "commit" /\ Moving(w))
    BY <1>1 DEF Touched
  <2>2. SetLimits(w) \/ Fail(w)
    BY <1>3, <2>1 DEF Booking, Moving, Cancellations, SubmitAny, SubmitProposal,
       SubmitAdminTransfer, SubmitDecision, SubmitDelete, SubmitEntityUpdate, Submit, Work,
       ReadBalances, CheckLimits, CommitProposal, CommitCancel, ReadBack, IndexJournal,
       MirrorRead, MirrorWrite, Unindex, Unlist, CloseAccount, SetStatus
  <2> QED
    BY <2>2 DEF SetLimits, LimitAdminUpdate, Fail, stores
<1> QED
  BY <1>2, <1>3

\* However many requests are in flight and wherever they fail: no transfer takes a
\* balance beyond the limits in force when it is booked, unless a request is about
\* to book, or to limit, an account whose balance another transfer has read and
\* not booked yet.  This overlap, which nothing in the program prevents, is the
\* only way beyond the limits.
THEOREM LimitsRespected == Spec /\ []~Overtaken => WithinLimits
<1>1. Init => ReadInv
  BY DEF Init, ReadInv, StillRead, Moving
<1>2. Inv /\ ReadInv /\ ~Overtaken /\ [Next]_vars => ReadInv'
  <2> SUFFICES ASSUME Inv, ReadInv, ~Overtaken, [Next]_vars PROVE ReadInv'
    OBVIOUS
  <2>1. CASE UNCHANGED vars
    BY <2>1 DEF vars, stores, ReadInv, StillRead, Moving, IsExceedLimit
  <2> QED
    BY <2>1, ReadStays DEF Next
<1>3. Inv /\ ReadInv /\ [Next]_vars => [LimitsStep]_vars
  BY LimitsKept DEF Next
<1>4. Spec /\ []~Overtaken => [][LimitsStep]_vars
  BY <1>1, <1>2, <1>3, Invariance, PTL DEF Spec
<1> QED
  BY <1>4 DEF WithinLimits, LimitsStep

-----------------------------------------------------------------------------
(* The mirrored balances.                                                   *)

Mirrored(docs, a) == docs[a].present => docs[a].balance = account[a].balance

\* What has been read is still the balance, what has been written is right.
Mirroring(w) ==
    /\ pc[w] = "writeFrom" => req[w].fromBal = account[req[w].from].balance
    /\ pc[w] \in {"readTo", "writeTo"} => Mirrored(entityDoc, req[w].from)
    /\ pc[w] = "writeTo" => req[w].toBal = account[req[w].to].balance

MirrorInv == \A w \in Workers : Mirroring(w)

Carrying == {"writeFrom", "readTo", "writeTo"}

\* The entities of a settled transfer are two that exist.
LEMMA MirrorTerms ==
    ASSUME Inv, NEW w \in Workers, pc[w] \in MirrorSteps
    PROVE  /\ req[w] \in Requests /\ req[w].from \in Accounts /\ req[w].to \in Accounts
           /\ req[w].from # req[w].to
           /\ entityDoc \in [Accounts -> [present : BOOLEAN, balance : Int]]
BY InvParts DEF RequestsOK, RequestOK, StoresOK

LEMMA WriteMirrors ==
    ASSUME Inv, NEW a \in Accounts, NEW balance \in Int, UpdateBalance(a, balance), UNCHANGED account
    PROVE  /\ balance = account[a].balance => Mirrored(entityDoc', a)
           /\ \A b \in Accounts \ {a} : Mirrored(entityDoc, b) => Mirrored(entityDoc', b)
<1>1. entityDoc \in [Accounts -> [present : BOOLEAN, balance : Int]]
  BY DEF Inv, TypeOK
<1>2. CASE entityDoc[a].present
  <2> DEFINE doc == [entityDoc[a] EXCEPT !.balance = balance]
  <2>1. entityDoc[a] \in [present : BOOLEAN, balance : Int]
    BY <1>1
  <2>2. doc.balance = balance
    BY <2>1
  <2>3. entityDoc' = [entityDoc EXCEPT ![a] = doc]
    BY <1>2 DEF UpdateBalance
  <2> HIDE DEF doc
  <2>4. entityDoc'[a].balance = balance /\ \A b \in Accounts \ {a} : entityDoc'[b] = entityDoc[b]
    BY <1>1, <2>2, <2>3
  <2> QED
    BY <2>4 DEF Mirrored
<1>3. CASE ~entityDoc[a].present
  BY <1>3 DEF UpdateBalance, Mirrored
<1> QED
  BY <1>2, <1>3

LEMMA MirrorReadStep ==
    ASSUME Inv, Serial, MirrorInv, NEW w \in Workers, MirrorRead(w)
    PROVE  MirrorInv'
<1> DEFINE r == req[w]
           one == [r EXCEPT !.fromBal = account[r.from].balance]
           two == [r EXCEPT !.toBal = account[r.to].balance]
<1>1. r \in Requests /\ UNCHANGED stores /\ Mirroring(w)
  BY MirrorTerms DEF MirrorRead, MirrorSteps, MirrorInv
<1>2. /\ one.from = r.from /\ one.fromBal = account[r.from].balance
      /\ two.from = r.from /\ two.to = r.to /\ two.toBal = account[r.to].balance
  BY <1>1 DEF Requests
<1>3. \/ pc[w] = "readFrom" /\ Go(w, "writeFrom", one)
      \/ pc[w] = "readTo" /\ Go(w, "writeTo", two)
      \/ Go(w, "idle", NoReq)
  BY DEF MirrorRead, Finish
<1> HIDE DEF r, one, two
<1>4. CASE pc[w] = "readFrom" /\ Go(w, "writeFrom", one)
  <2>1. pc'[w] = "writeFrom" /\ req'[w] = one
    BY <1>4, MovedTo
  <2> QED
    BY <1>1, <1>2, <2>1 DEF MirrorInv, Mirroring, Serial, stores
<1>5. CASE pc[w] = "readTo" /\ Go(w, "writeTo", two)
  <2>1. pc'[w] = "writeTo" /\ req'[w] = two
    BY <1>5, MovedTo
  <2> QED
    BY <1>1, <1>2, <1>5, <2>1 DEF MirrorInv, Mirroring, Mirrored, Serial, stores, r
<1>6. CASE Go(w, "idle", NoReq)
  <2>1. pc'[w] = "idle"
    BY <1>6, MovedTo
  <2> QED
    BY <2>1 DEF MirrorInv, Mirroring, Serial
<1> QED
  BY <1>3, <1>4, <1>5, <1>6

\* What the last write leaves.
RepairStep ==
    \A w \in Workers : pc[w] = "writeTo" /\ MirrorWrite(w) =>
       \A a \in {req[w].from, req[w].to} : Mirrored(entityDoc', a)

LEMMA MirrorWriteStep ==
    ASSUME Inv, Serial, MirrorInv, NEW w \in Workers, MirrorWrite(w)
    PROVE  MirrorInv' /\ RepairStep
<1> DEFINE r == req[w]
           new == [r EXCEPT !.fromBal = 0]
<1>1. /\ r \in Requests /\ r.from \in Accounts /\ r.to \in Accounts /\ r.from # r.to
      /\ UNCHANGED account /\ Mirroring(w) /\ pc[w] \in {"writeFrom", "writeTo"}
  BY MirrorTerms DEF MirrorWrite, MirrorSteps, MirrorInv, ledgerVars
<1>2. new.from = r.from /\ r.fromBal \in Int /\ r.toBal \in Int
  BY <1>1 DEF Requests
<1>3. CASE pc[w] = "writeFrom"
  <2>1. UpdateBalance(r.from, r.fromBal) /\ Go(w, "readTo", new)
    BY <1>3 DEF MirrorWrite
  <2>2. Mirrored(entityDoc', r.from)
    <3>1. r.fromBal = account[r.from].balance
      BY <1>1, <1>3 DEF Mirroring
    <3> QED
      BY <1>1, <1>2, <2>1, <3>1, WriteMirrors
  <2>3. pc'[w] = "readTo" /\ req'[w] = new
    BY <2>1, MovedTo
  <2> HIDE DEF r, new
  <2> QED
    BY <1>1, <1>2, <1>3, <2>2, <2>3 DEF MirrorInv, Mirroring, Mirrored, Serial, RepairStep
<1>4. CASE pc[w] = "writeTo"
  <2>1. UpdateBalance(r.to, r.toBal) /\ Go(w, "idle", NoReq)
    BY <1>4 DEF MirrorWrite, Finish
  <2>2. r.toBal = account[r.to].balance /\ Mirrored(entityDoc, r.from)
    BY <1>1, <1>4 DEF Mirroring
  <2>3. Mirrored(entityDoc', r.to) /\ (Mirrored(entityDoc, r.from) => Mirrored(entityDoc', r.from))
    BY <1>1, <1>2, <2>1, <2>2, WriteMirrors
  <2>4. pc'[w] = "idle"
    BY <2>1, MovedTo
  <2> QED
    BY <1>1, <2>2, <2>3, <2>4 DEF MirrorInv, Mirroring, Mirrored, Serial, RepairStep
<1> QED
  BY <1>1, <1>3, <1>4

\* No other step goes where something has been read or written.
LEMMA ElsewhereStep ==
    ASSUME Inv, Serial, NEW w \in Workers, SubmitAny(w) \/ Work(w) \/ Fail(w),
           ~MirrorRead(w), ~MirrorWrite(w)
    PROVE  MirrorInv' /\ RepairStep
<1>1. \E step \in Steps \ Carrying : \E r : Go(w, step, r)
  <2>1. CASE SubmitAny(w)
    BY <2>1 DEF SubmitAny, SubmitAdminTransfer, SubmitProposal, SubmitDecision, SubmitDelete,
       SubmitEntityUpdate, Submit, Steps, Carrying
  <2>2. CASE Fail(w) \/ ReadBalances(w) \/ CheckLimits(w) \/ ReadBack(w) \/ IndexJournal(w)
    BY <2>2 DEF Fail, ReadBalances, CheckLimits, ReadBack, IndexJournal, Finish, Steps, Carrying
  <2>3. CASE CommitProposal(w) \/ CommitAdminTransfer(w) \/ CommitAccept(w) \/ CommitCancel(w)
    BY <2>3 DEF CommitProposal, CommitAdminTransfer, CommitAccept, CommitCancel, Steps, Carrying
  <2>4. CASE Unindex(w) \/ Unlist(w) \/ CloseAccount(w) \/ SetLimits(w) \/ SetStatus(w)
    BY <2>4 DEF Unindex, Unlist, CloseAccount, SetLimits, SetStatus, Finish, Steps, Carrying
  <2> QED
    BY <2>1, <2>2, <2>3, <2>4 DEF Work
<1>2. pc'[w] \notin Carrying
  BY <1>1, MovedTo
<1> QED
  BY <1>2 DEF MirrorInv, Mirroring, RepairStep, Serial, Carrying

LEMMA MirrorNext ==
    ASSUME Inv, Serial, MirrorInv, [Next]_vars
    PROVE  MirrorInv' /\ (Next => RepairStep)
<1>1. ASSUME NEW w \in Workers, SubmitAny(w) \/ Work(w) \/ Fail(w)
      PROVE  MirrorInv' /\ RepairStep
  <2>1. CASE MirrorWrite(w)
    BY <2>1, MirrorWriteStep
  <2>2. CASE MirrorRead(w)
    <3>1. ~MirrorWrite(w)
      BY <2>2 DEF MirrorRead, MirrorWrite
    <3> QED
      BY <2>2, <3>1, MirrorReadStep DEF RepairStep, Serial
  <2> QED
    BY <1>1, <2>1, <2>2, ElsewhereStep
<1>2. ASSUME UNCHANGED vars PROVE MirrorInv'
  BY <1>2 DEF vars, stores, MirrorInv, Mirroring, Mirrored
<1> QED
  BY <1>1, <1>2 DEF Next

\* The balances searches show of the parties of a settled transfer are right when
\* its request ends, whatever failed before.
THEOREM Repairs ==
    ASSUME Serial
    PROVE  Spec => MirrorsRepaired
<1>1. Init => MirrorInv
  BY DEF Init, MirrorInv, Mirroring
<1>2. Inv /\ MirrorInv /\ [Next]_vars => MirrorInv'
  BY MirrorNext
<1>3. Spec => []MirrorInv
  BY <1>1, <1>2, Invariance, PTL DEF Spec
<1> DEFINE Repaired == \A w \in Workers :
                          pc[w] = "writeTo" /\ MirrorWrite(w) =>
                             \A a \in {req[w].from, req[w].to} :
                                entityDoc'[a].present => entityDoc'[a].balance = account'[a].balance
<1>4. Inv /\ MirrorInv /\ [Next]_vars => [Repaired]_vars
  <2>1. ASSUME NEW w \in Workers, MirrorWrite(w) PROVE UNCHANGED account
    BY <2>1 DEF MirrorWrite, ledgerVars
  <2> QED
    BY <2>1, MirrorNext DEF RepairStep, Mirrored
<1>5. Spec => [][Repaired]_vars
  BY <1>3, <1>4, Invariance, PTL DEF Spec
<1> QED
  BY <1>5 DEF MirrorsRepaired
=============================================================================
