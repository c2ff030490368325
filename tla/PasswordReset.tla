--------------------------- MODULE PasswordReset ---------------------------
(***************************************************************************)
(* Lost passwords: a token is mailed, redeemed for a new password, and     *)
(* marked used by a goroutine after the response.  Users and admins go     *)
(* through the same steps on the same collection.  A worker is a request   *)
(* with the goroutine it leaves behind; one action is one store call.      *)
(***************************************************************************)
EXTENDS Integers, Sequences, Functions

CONSTANTS Workers,
          Emails,     \* of registered users
          Tokens,     \* uuids that may be drawn (bound)
          NoToken, NoEmail,
          Uses,       \* redeemed stops counting here (bound)
          StoresFail  \* whether a store call may fail or the process stop

ASSUME PasswordResetAssumption ==
    /\ NoToken \notin Tokens /\ NoEmail \notin Emails
    /\ Uses \in Nat \ {0} /\ StoresFail \in BOOLEAN

VARIABLES lost,     \* lostPassword collection: the token of each document of an email
          used,     \* tokens whose document has tokenUsed
          aged,     \* tokens whose document is past reset_password_timeout
          sent,     \* tokens that were mailed
          redeemed, \* history: how often each token has set a password
          orderly,  \* history: whether requests came one at a time, spelled emails
                    \* as they are stored, and no store call failed
          pc,
          req       \* what each worker's handler holds

vars == <<lost, used, aged, sent, redeemed, orderly, pc, req>>

Steps == {"idle", "lookUp", "upsert", "insert", "setPassword", "mark"}
Requests == [email : Emails \cup {NoEmail}, token : Tokens \cup {NoToken}]
NoReq == [email |-> NoEmail, token |-> NoToken]

Init == /\ lost = [e \in Emails |-> <<>>]
        /\ used = {} /\ aged = {} /\ sent = {}
        /\ redeemed = [t \in Tokens |-> 0]
        /\ orderly = TRUE
        /\ pc = [w \in Workers |-> "idle"]
        /\ req = [w \in Workers |-> NoReq]

-----------------------------------------------------------------------------
Move(w, step, r) == /\ pc' = [pc EXCEPT ![w] = step]
                    /\ req' = [req EXCEPT ![w] = r]

Go(w, step, r) ==
    /\ Move(w, step, r)
    /\ orderly' = (orderly /\ (pc[w] = "idle" => \A v \in Workers : pc[v] = "idle"))

GoAstray(w, step, r) == Move(w, step, r) /\ orderly' = FALSE

Finish(w) == Go(w, "idle", NoReq)

\* What was written stays written and nothing is undone.
Fail(w) == /\ StoresFail
           /\ pc[w] # "idle"
           /\ GoAstray(w, "idle", NoReq)
           /\ UNCHANGED <<lost, used, aged, sent, redeemed>>

Stored(t) == \E e \in Emails : t \in Range(lost[e])

IsTokenValid(t) == t \notin used /\ t \notin aged

\* A document outlives its timeout.
Age(t) == /\ Stored(t) /\ t \notin aged
          /\ aged' = aged \cup {t}
          /\ UNCHANGED <<lost, used, sent, redeemed, orderly, pc, req>>

-----------------------------------------------------------------------------
(* Asking for a token.                                                     *)

\* The user is found in any spelling; the document only in the stored one.
SubmitRequest(w, e, exact) ==
    /\ pc[w] = "idle"
    /\ \/ exact /\ Go(w, "lookUp", [NoReq EXCEPT !.email = e])
       \/ ~exact /\ GoAstray(w, "upsert", [NoReq EXCEPT !.email = e])
    /\ UNCHANGED <<lost, used, aged, sent, redeemed>>

\* Mutant: a new token each time.
LookUpNever(w) == /\ pc[w] = "lookUp"
                  /\ Go(w, "upsert", req[w])
                  /\ UNCHANGED <<lost, used, aged, sent, redeemed>>

\* A valid token is mailed again; a failed look-up counts as none.
LookUp(w) ==
    /\ pc[w] = "lookUp"
    /\ LET docs == lost[req[w].email]
           valid == docs # <<>> /\ IsTokenValid(Head(docs))
       IN  \/ valid /\ sent' = sent \cup {Head(docs)} /\ Finish(w)
           \/ ~valid /\ UNCHANGED sent /\ Go(w, "upsert", req[w])
           \/ StoresFail /\ UNCHANGED sent /\ GoAstray(w, "upsert", req[w])
    /\ UNCHANGED <<lost, used, aged, redeemed>>

Fresh == {t \in Tokens : ~Stored(t) /\ t \notin sent}

Mail(w, t) == sent' = sent \cup {t} /\ Finish(w)

\* The first document of the email gets the new token; without one the upsert
\* inserts, and no unique index keeps two of them from doing so.
Upsert(w) ==
    /\ pc[w] = "upsert"
    /\ LET e == req[w].email
       IN  \/ /\ lost[e] # <<>>
              /\ \E t \in Fresh : /\ lost' = [lost EXCEPT ![e] = <<t>> \o Tail(@)]
                                  /\ Mail(w, t)
           \/ /\ lost[e] = <<>>
              /\ Go(w, "insert", req[w])
              /\ UNCHANGED <<lost, sent>>
    /\ UNCHANGED <<used, aged, redeemed>>

Insert(w) ==
    /\ pc[w] = "insert"
    /\ \E t \in Fresh : /\ lost' = [lost EXCEPT ![req[w].email] = Append(@, t)]
                        /\ Mail(w, t)
    /\ UNCHANGED <<used, aged, redeemed>>

-----------------------------------------------------------------------------
(* Redeeming a token.                                                      *)

SubmitReset(w, t) ==
    /\ pc[w] = "idle"
    /\ t \in sent /\ Stored(t) /\ IsTokenValid(t)
    /\ LET e == CHOOSE x \in Emails : t \in Range(lost[x])
       IN  Go(w, "setPassword", [email |-> e, token |-> t])
    /\ UNCHANGED <<lost, used, aged, sent, redeemed>>

ResetPassword(w) ==
    /\ pc[w] = "setPassword"
    /\ redeemed' = [redeemed EXCEPT ![req[w].token] = IF @ < Uses THEN @ + 1 ELSE @]
    /\ Go(w, "mark", req[w])
    /\ UNCHANGED <<lost, used, aged, sent>>

\* Mutant: the document is found by its email.
SetTokenUsedByEmail(w) ==
    /\ pc[w] = "mark"
    /\ used' = used \cup {Head(lost[req[w].email])}
    /\ Finish(w)
    /\ UNCHANGED <<lost, aged, sent, redeemed>>

\* Mutant: the token is never marked.
SetTokenUsedNot(w) ==
    /\ pc[w] = "mark"
    /\ Finish(w)
    /\ UNCHANGED <<lost, used, aged, sent, redeemed>>

\* The document may have got another token meanwhile: then none is marked.
SetTokenUsed(w) ==
    /\ pc[w] = "mark"
    /\ used' = IF Stored(req[w].token) THEN used \cup {req[w].token} ELSE used
    /\ Finish(w)
    /\ UNCHANGED <<lost, aged, sent, redeemed>>

-----------------------------------------------------------------------------
Work(w) == \/ LookUp(w) \/ Upsert(w) \/ Insert(w)
           \/ ResetPassword(w) \/ SetTokenUsed(w)

Next == \/ \E w \in Workers : \/ Work(w) \/ Fail(w)
                              \/ \E e \in Emails, exact \in BOOLEAN : SubmitRequest(w, e, exact)
                              \/ \E t \in Tokens : SubmitReset(w, t)
        \/ \E t \in Tokens : Age(t)

Spec == Init /\ [][Next]_vars

-----------------------------------------------------------------------------
\* Every variable stays within its type.
TypeOK == /\ lost \in [Emails -> Seq(Tokens)]
          /\ used \subseteq Tokens /\ aged \subseteq Tokens /\ sent \subseteq Tokens
          /\ redeemed \in [Tokens -> 0..Uses]
          /\ orderly \in BOOLEAN
          /\ pc \in [Workers -> Steps]
          /\ req \in [Workers -> Requests]

\* A token is never spent before it has set a password, although the goroutine
\* that marks it runs after the response and the document may have been given
\* another token by then.
SpentOnlyWhenRedeemed == \A t \in used : redeemed[t] > 0

\* A token that was mailed opens the form until it is redeemed or too old, also
\* when its owner asks for a token again, as long as requests are orderly.
SentTokensHonoured ==
    orderly => \A t \in sent : redeemed[t] > 0 \/ t \in aged \/ Stored(t)

\* A token sets a password once, as long as no request comes before the
\* goroutine of the one before has marked it.
RedeemedOnce == orderly => \A t \in Tokens : redeemed[t] <= 1
=============================================================================
