----------------------------- MODULE Transfers -----------------------------
(***************************************************************************)
(* The transfer, entity-update and entity-deletion requests of the REST    *)
(* API.  A worker is one request goroutine.  Every database statement,     *)
(* transaction and index call of a handler is one action, so the workers   *)
(* interleave between them; what a handler has read is kept in req[w].     *)
(***************************************************************************)
EXTENDS Ledger

CONSTANTS Workers,     \* requests in flight at the same time
          Users,
          Admin,       \* stands for the logged-in admin of an admin request
          Members,     \* Entity.Users: the users of each account's entity
          Amounts,     \* amounts that pass Validate (bound)
          NoJournal,
          StoresFail   \* whether a store call may fail or the process stop

ASSUME TransfersAssumption ==
    /\ Members \in [Accounts -> SUBSET Users]
    /\ Admin \notin Users
    /\ Amounts \subseteq Nat \ {0}
    /\ NoJournal \notin Journals
    /\ StoresFail \in BOOLEAN

VARIABLES entity,      \* entities collection: trading status or "deleted"
          entityDoc,   \* entities index: the mirrored balance
          journalDoc,  \* journals index: the mirrored status
          pc,          \* the next step of each worker
          req          \* what each worker's handler holds

stores == <<account, limit, journal, posted, entity, entityDoc, journalDoc>>
vars == <<stores, pc, req>>

EntityStatuses == {"tradingAccepted", "tradingRejected", "deleted"}

Cancellations == {"reject", "cancel", "cancelBySystem"}
Kinds == Cancellations \cup
         {"none", "propose", "create", "accept", "delete", "updateEntity"}

Steps == {"idle", "balances", "limits", "commit", "readBack", "index",
          "readFrom", "writeFrom", "readTo", "writeTo",
          "unindex", "unlist", "close", "setLimits", "setStatus"}

Requests == [kind : Kinds, user : Users \cup {Admin}, j : Journals \cup {NoJournal},
             initiator : Accounts \cup {NoAccount},
             from : Accounts \cup {NoAccount}, to : Accounts \cup {NoAccount},
             amount : Nat, fromBal : Int, toBal : Int, status : Statuses]

NoReq == [kind |-> "none", user |-> Admin, j |-> NoJournal, initiator |-> NoAccount,
          from |-> NoAccount, to |-> NoAccount, amount |-> 0,
          fromBal |-> 0, toBal |-> 0, status |-> "none"]

Init == /\ LedgerInit
        /\ entity = [a \in Accounts |-> "tradingAccepted"]
        /\ entityDoc = [a \in Accounts |-> [present |-> TRUE, balance |-> 0]]
        /\ journalDoc = [j \in Journals |-> "none"]
        /\ pc = [w \in Workers |-> "idle"]
        /\ req = [w \in Workers |-> NoReq]

-----------------------------------------------------------------------------
(* Moving a worker.                                                        *)

Go(w, step, r) == /\ pc' = [pc EXCEPT ![w] = step]
                  /\ req' = [req EXCEPT ![w] = r]

\* The handler has responded: with its result, or early with an error.
Finish(w) == Go(w, "idle", NoReq)

Submit(w, step, r) == /\ pc[w] = "idle"
                      /\ Go(w, step, r)
                      /\ UNCHANGED stores

\* A store call returns an error, or the process dies: what was written stays
\* written and nothing is undone.
Fail(w) == /\ StoresFail
           /\ pc[w] # "idle"
           /\ Finish(w)
           /\ UNCHANGED stores

-----------------------------------------------------------------------------
(* Loading and validating a request.                                       *)

\* Both entities trade, and they are two.
MayTrade(from, to) == /\ entity[from] = "tradingAccepted"
                      /\ entity[to] = "tradingAccepted"
                      /\ from # to

SubmitProposal(w, u, initiator, from, to, amount) ==
    /\ initiator \in {from, to}
    /\ MayTrade(from, to)
    /\ u \in Members[initiator]
    /\ Submit(w, "balances",
              [NoReq EXCEPT !.kind = "propose", !.user = u, !.initiator = initiator,
                            !.from = from, !.to = to, !.amount = amount])

SubmitAdminTransfer(w, from, to, amount) ==
    /\ MayTrade(from, to)
    /\ Submit(w, "balances",
              [NoReq EXCEPT !.kind = "create",
                            !.from = from, !.to = to, !.amount = amount])

\* Mutant: the status is not looked at.
DecidableAnyStatus(row) == /\ row.initiator # NoAccount
                           /\ entity[row.from] # "deleted"
                           /\ entity[row.to] # "deleted"

\* The entities of the journal must be found, its status not yet final.
Decidable(row) == /\ row.status = "initiated"
                  /\ entity[row.from] # "deleted"
                  /\ entity[row.to] # "deleted"

\* Mutant: the initiator may decide too.
PermittedToAll(u, row, kind) == u \in Members[row.from] \cup Members[row.to]

\* Members of the initiating entity may only cancel, the others only decide.
Permitted(u, row, kind) ==
    /\ u \in Members[row.from] \cup Members[row.to]
    /\ IF u \in Members[row.initiator] THEN kind = "cancel" ELSE kind \in {"accept", "reject"}

SubmitDecision(w, u, j, kind) ==
    /\ Decidable(journal[j])
    /\ Permitted(u, journal[j], kind)
    /\ Submit(w, "balances",
              [NoReq EXCEPT !.kind = kind, !.user = u, !.j = j,
                            !.initiator = journal[j].initiator, !.from = journal[j].from,
                            !.to = journal[j].to, !.amount = journal[j].amount])

-----------------------------------------------------------------------------
(* Checking the balances: CheckBalance and checkBalances.                  *)

ReadBalances(w) ==
    /\ pc[w] = "balances"
    /\ LET r == req[w]
       IN  IF account[r.from].live /\ account[r.to].live
           THEN Go(w, "limits", [r EXCEPT !.fromBal = account[r.from].balance,
                                          !.toBal = account[r.to].balance])
           ELSE Finish(w)
    /\ UNCHANGED stores

\* The limit rows are found and one is exceeded; the sender's is read first.
Breached(r) == /\ account[r.from].live
               /\ \/ IsExceedLimit(r.from, r.fromBal - r.amount)
                  \/ account[r.to].live /\ IsExceedLimit(r.to, r.toBal + r.amount)

\* Mutant: the receiver's limit is not looked at.
ClearedBySender(r) == /\ account[r.from].live /\ account[r.to].live
                      /\ ~IsExceedLimit(r.from, r.fromBal - r.amount)

Cleared(r) == /\ account[r.from].live /\ account[r.to].live
              /\ ~IsExceedLimit(r.from, r.fromBal - r.amount)
              /\ ~IsExceedLimit(r.to, r.toBal + r.amount)

\* A decision that finds a breach, be it to cancel, cancels the transfer.
CheckLimits(w) ==
    /\ pc[w] = "limits"
    /\ LET r == [req[w] EXCEPT !.fromBal = 0, !.toBal = 0]
       IN  \/ Cleared(req[w]) /\ Go(w, "commit", r)
           \/ /\ Breached(req[w])
              /\ req[w].kind \notin {"propose", "create"}
              /\ Go(w, "commit", [r EXCEPT !.kind = "cancelBySystem"])
           \/ /\ ~Cleared(req[w])
              /\ Breached(req[w]) => req[w].kind \in {"propose", "create"}
              /\ Finish(w)
    /\ UNCHANGED stores

-----------------------------------------------------------------------------
(* Changing the ledger.                                                    *)

CommitProposal(w) ==
    /\ pc[w] = "commit" /\ req[w].kind = "propose"
    /\ \E j \in Journals :
          /\ JournalPropose(j, req[w].initiator, req[w].from, req[w].to, req[w].amount)
          /\ Go(w, "index", [req[w] EXCEPT !.j = j, !.status = "initiated"])
    /\ UNCHANGED <<entity, entityDoc, journalDoc>>

CommitAdminTransfer(w) ==
    /\ pc[w] = "commit" /\ req[w].kind = "create"
    /\ \E j \in Journals :
          /\ JournalCreate(j, req[w].from, req[w].to, req[w].amount)
          /\ Go(w, "index", [req[w] EXCEPT !.j = j, !.status = "completed"])
    /\ UNCHANGED <<entity, entityDoc, journalDoc>>

\* Mutant: only an initiated row is updated, and whether it was is not looked at.
CommitAcceptUnchecked(w) ==
    /\ pc[w] = "commit" /\ req[w].kind = "accept"
    /\ IF journal[req[w].j].status = "initiated"
       THEN JournalAccept(req[w].j, req[w].from, req[w].to, req[w].amount)
       ELSE UNCHANGED ledgerVars
    /\ Go(w, "index", [req[w] EXCEPT !.status = "completed"])
    /\ UNCHANGED <<entity, entityDoc, journalDoc>>

CommitAccept(w) ==
    /\ pc[w] = "commit" /\ req[w].kind = "accept"
    /\ JournalAccept(req[w].j, req[w].from, req[w].to, req[w].amount)
    /\ Go(w, "index", [req[w] EXCEPT !.status = "completed"])
    /\ UNCHANGED <<entity, entityDoc, journalDoc>>

\* The UPDATE and the SELECT that reads the row back are two statements.
CommitCancel(w) ==
    /\ pc[w] = "commit" /\ req[w].kind \in Cancellations
    /\ JournalCancel(req[w].j)
    /\ Go(w, "readBack", req[w])
    /\ UNCHANGED <<entity, entityDoc, journalDoc>>

ReadBack(w) ==
    /\ pc[w] = "readBack"
    /\ Go(w, "index", [req[w] EXCEPT !.status = journal[req[w].j].status])
    /\ UNCHANGED stores

-----------------------------------------------------------------------------
(* Mirroring the change in the search index.                               *)

\* A new transfer is indexed; a decided one updates its document, and that is
\* an error when the document is missing.
IndexJournal(w) ==
    /\ pc[w] = "index"
    /\ LET r == req[w]
       IN  IF r.kind \in {"propose", "create"} \/ journalDoc[r.j] # "none"
           THEN /\ journalDoc' = [journalDoc EXCEPT ![r.j] = r.status]
                /\ IF r.kind \in {"accept", "create"} THEN Go(w, "readFrom", r) ELSE Finish(w)
           ELSE Finish(w) /\ UNCHANGED journalDoc
    /\ UNCHANGED <<ledgerVars, entity, entityDoc>>

\* Mutant: the payer's account is read for the payee, too.
MirrorReadPayer(w) ==
    /\ LET r == req[w]
       IN  \/ /\ pc[w] = "readFrom"
              /\ Go(w, "writeFrom", [r EXCEPT !.fromBal = account[r.from].balance])
           \/ /\ pc[w] = "readTo"
              /\ Go(w, "writeTo", [r EXCEPT !.toBal = account[r.from].balance])
    /\ UNCHANGED stores

MirrorRead(w) ==
    /\ LET r == req[w]
       IN  \/ /\ pc[w] = "readFrom" /\ account[r.from].live
              /\ Go(w, "writeFrom", [r EXCEPT !.fromBal = account[r.from].balance])
           \/ /\ pc[w] = "readTo" /\ account[r.to].live
              /\ Go(w, "writeTo", [r EXCEPT !.toBal = account[r.to].balance])
           \/ /\ \/ pc[w] = "readFrom" /\ ~account[r.from].live
                 \/ pc[w] = "readTo" /\ ~account[r.to].live
              /\ Finish(w)
    /\ UNCHANGED stores

\* An update by query: an account without a document is passed over.
UpdateBalance(a, balance) ==
    entityDoc' = IF entityDoc[a].present THEN [entityDoc EXCEPT ![a].balance = balance]
                                         ELSE entityDoc

MirrorWrite(w) ==
    /\ LET r == req[w]
       IN  \/ /\ pc[w] = "writeFrom"
              /\ UpdateBalance(r.from, r.fromBal)
              /\ Go(w, "readTo", [r EXCEPT !.fromBal = 0])
           \/ /\ pc[w] = "writeTo"
              /\ UpdateBalance(r.to, r.toBal)
              /\ Finish(w)
    /\ UNCHANGED <<ledgerVars, entity, journalDoc>>

-----------------------------------------------------------------------------
(* Deleting an entity: index, collection, ledger, in this order.           *)

SubmitDelete(w, a) ==
    /\ entity[a] # "deleted"
    /\ IsZeroBalance(a)
    /\ Submit(w, "unindex", [NoReq EXCEPT !.kind = "delete", !.from = a])

Unindex(w) ==
    /\ pc[w] = "unindex"
    /\ LET a == req[w].from
       IN  IF entityDoc[a].present
           THEN /\ entityDoc' = [entityDoc EXCEPT ![a] = [present |-> FALSE, balance |-> 0]]
                /\ Go(w, "unlist", req[w])
           ELSE Finish(w) /\ UNCHANGED entityDoc
    /\ UNCHANGED <<ledgerVars, entity, journalDoc>>

Unlist(w) ==
    /\ pc[w] = "unlist"
    /\ LET a == req[w].from
       IN  IF entity[a] # "deleted"
           THEN entity' = [entity EXCEPT ![a] = "deleted"] /\ Go(w, "close", req[w])
           ELSE Finish(w) /\ UNCHANGED entity
    /\ UNCHANGED <<ledgerVars, entityDoc, journalDoc>>

CloseAccount(w) ==
    /\ pc[w] = "close"
    /\ AccountDelete(req[w].from)
    /\ Finish(w)
    /\ UNCHANGED <<entity, entityDoc, journalDoc>>

-----------------------------------------------------------------------------
(* Updating an entity's limits and status, in this order.                  *)

\* The index is updated first (in fields not modelled) and fails without a
\* document.
SubmitEntityUpdate(w, a) ==
    /\ entity[a] # "deleted"
    /\ account[a].live
    /\ entityDoc[a].present
    /\ Submit(w, "setLimits", [NoReq EXCEPT !.kind = "updateEntity", !.from = a])

SetLimits(w) ==
    /\ pc[w] = "setLimits"
    /\ \E row \in LimitRows : LimitAdminUpdate(req[w].from, row)
    /\ Go(w, "setStatus", req[w])
    /\ UNCHANGED <<entity, entityDoc, journalDoc>>

SetStatus(w) ==
    /\ pc[w] = "setStatus"
    /\ \E status \in EntityStatuses \ {"deleted"} :
          entity' = IF entity[req[w].from] # "deleted"
                    THEN [entity EXCEPT ![req[w].from] = status] ELSE entity
    /\ Finish(w)
    /\ UNCHANGED <<ledgerVars, entityDoc, journalDoc>>

-----------------------------------------------------------------------------
SubmitAny(w) ==
    \/ \E from, to \in Accounts, amount \in Amounts :
          \/ SubmitAdminTransfer(w, from, to, amount)
          \/ \E u \in Users, initiator \in {from, to} :
                SubmitProposal(w, u, initiator, from, to, amount)
    \/ \E u \in Users, j \in Journals, kind \in {"accept", "reject", "cancel"} :
          SubmitDecision(w, u, j, kind)
    \/ \E a \in Accounts : SubmitDelete(w, a) \/ SubmitEntityUpdate(w, a)

Work(w) ==
    \/ ReadBalances(w) \/ CheckLimits(w)
    \/ CommitProposal(w) \/ CommitAdminTransfer(w) \/ CommitAccept(w)
    \/ CommitCancel(w) \/ ReadBack(w)
    \/ IndexJournal(w) \/ MirrorRead(w) \/ MirrorWrite(w)
    \/ Unindex(w) \/ Unlist(w) \/ CloseAccount(w)
    \/ SetLimits(w) \/ SetStatus(w)

Next == \E w \in Workers : SubmitAny(w) \/ Work(w) \/ Fail(w)

Spec == Init /\ [][Next]_vars

-----------------------------------------------------------------------------
(* Properties of every execution, however many requests are in flight.     *)

\* Every variable stays within its type.
TypeOK == /\ LedgerTypeOK
          /\ entity \in [Accounts -> EntityStatuses]
          /\ entityDoc \in [Accounts -> [present : BOOLEAN, balance : Int]]
          /\ journalDoc \in [Journals -> Statuses]
          /\ pc \in [Workers -> Steps]
          /\ req \in [Workers -> Requests]

\* A proposed transfer is completed only by an accept request of a user of one
\* of its two entities who is no user of the entity that proposed it: the
\* permission is checked several steps before the money moves, on the row that
\* was read then.
CounterpartyConsents ==
    [][\A j \in Journals :
          LET row == journal[j]
          IN  row.status = "initiated" /\ journal'[j].status = "completed" =>
                \E w \in Workers :
                   /\ pc[w] = "commit" /\ req[w].kind = "accept" /\ req[w].j = j
                   /\ req[w].user \in (Members[row.from] \cup Members[row.to])
                                        \ Members[row.initiator]]_vars

\* The search index may lag behind the ledger but never reports a decision the
\* ledger has not taken, nor a transfer it does not hold.
IndexNeverAhead ==
    \A j \in Journals :
       /\ journalDoc[j] # "none" => journal[j].status # "none"
       /\ journalDoc[j] = "completed" => posted[j] > 0
       /\ journalDoc[j] = "cancelled" => journal[j].status \in {"completed", "cancelled"}

-----------------------------------------------------------------------------
(* Properties of an execution that handles one request at a time.          *)

\* Each transfer goes through the life the API promises: decided once, its
\* amount moved once if completed and never if cancelled, even when requests
\* fail between any two of their steps and are sent again.
Promised == INSTANCE Settlement WITH state <- [j \in Journals |-> journal[j].status],
                                     moved <- posted
PromiseKept == Promised!Spec

\* No step that changes a balance leaves it beyond the limits in force, though
\* both were read in earlier steps and limits are changed by other requests.
WithinLimits ==
    [][\A a \in Accounts :
          account'[a].balance # account[a].balance => ~IsExceedLimit(a, account'[a].balance)]_vars

\* An account whose entity is deleted holds no money, at whatever step the
\* deletion stopped.
DeletedAtZero ==
    \A a \in Accounts :
       entity[a] = "deleted" \/ ~account[a].live => account[a].balance = 0

\* The balances that searches show are put right by the next transfer that is
\* settled: whatever requests left them wrong by failing before, both are equal to
\* the ledger's, where the entity is in the index, when the last of four calls
\* that read and write them is done.
MirrorsRepaired ==
    [][\A w \in Workers :
          pc[w] = "writeTo" /\ MirrorWrite(w) =>
             \A a \in {req[w].from, req[w].to} :
                entityDoc'[a].present => entityDoc'[a].balance = account'[a].balance]_vars

-----------------------------------------------------------------------------
(* What the documentation says and the concurrent program does not do.     *)

\* A transfer the API reports as completed is not completed a second time.
CompletedOnce == \A j \in Journals : posted[j] <= 1
=============================================================================
