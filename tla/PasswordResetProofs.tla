------------------------ MODULE PasswordResetProofs ------------------------
(* A token is spent only after it was redeemed, for any number of requests. *)
EXTENDS PasswordReset, SequenceTheorems, TLAPS

\* What the goroutine that marks a token relies on: its request has set the
\* password already, and no step takes that back.
MarksRedeemed == \A w \in Workers : pc[w] = "mark" =>
                    req[w].token \in Tokens /\ redeemed[req[w].token] > 0

\* A worker that is about to set a password holds a token.
HoldsToken == \A w \in Workers : pc[w] = "setPassword" => req[w].token \in Tokens

SpentInv == /\ redeemed \in [Tokens -> 0..Uses]
            /\ used \subseteq Tokens
            /\ pc \in [Workers -> Steps]
            /\ req \in [Workers -> Requests]
            /\ HoldsToken /\ MarksRedeemed /\ SpentOnlyWhenRedeemed

LEMMA NoReqType == NoReq \in Requests
  BY DEF NoReq, Requests

\* A step that moves one worker elsewhere than to its last two steps, and
\* leaves tokens unspent and unredeemed.
LEMMA Aside ==
  ASSUME SpentInv, NEW w \in Workers, NEW step \in Steps, NEW r \in Requests,
         Move(w, step, r), step \notin {"setPassword", "mark"},
         UNCHANGED <<used, redeemed>>
  PROVE  SpentInv'
  BY DEF SpentInv, Move, HoldsToken, MarksRedeemed, SpentOnlyWhenRedeemed

LEMMA AsideToIdle ==
  ASSUME SpentInv, NEW w \in Workers, Move(w, "idle", NoReq), UNCHANGED <<used, redeemed>>
  PROVE  SpentInv'
  BY Aside, NoReqType DEF Steps

LEMMA SpentStep == PasswordResetAssumption /\ SpentInv /\ [Next]_vars => SpentInv'
<1> SUFFICES ASSUME PasswordResetAssumption, SpentInv, [Next]_vars PROVE SpentInv'
  OBVIOUS
<1>1. CASE UNCHANGED vars
  BY <1>1 DEF vars, SpentInv, HoldsToken, MarksRedeemed, SpentOnlyWhenRedeemed
<1>2. ASSUME NEW t \in Tokens, Age(t) PROVE SpentInv'
  BY <1>2 DEF Age, SpentInv, HoldsToken, MarksRedeemed, SpentOnlyWhenRedeemed
<1>3. ASSUME NEW w \in Workers, Fail(w) PROVE SpentInv'
  BY <1>3, AsideToIdle DEF Fail, GoAstray
<1>4. ASSUME NEW w \in Workers, NEW e \in Emails, NEW exact, SubmitRequest(w, e, exact) PROVE SpentInv'
  <2>1. [NoReq EXCEPT !.email = e] \in Requests
    BY DEF NoReq, Requests
  <2> QED
    BY <1>4, <2>1, Aside DEF SubmitRequest, Go, GoAstray, Steps
<1>5. ASSUME NEW w \in Workers, LookUp(w) PROVE SpentInv'
  <2>1. req[w] \in Requests
    BY DEF SpentInv
  <2>2. UNCHANGED <<used, redeemed>> /\ (Move(w, "idle", NoReq) \/ Move(w, "upsert", req[w]))
    BY <1>5 DEF LookUp, Finish, Go, GoAstray
  <2> QED
    BY <2>1, <2>2, Aside, AsideToIdle DEF Steps
<1>6. ASSUME NEW w \in Workers, Upsert(w) \/ Insert(w) PROVE SpentInv'
  <2>1. req[w] \in Requests
    BY DEF SpentInv
  <2>2. UNCHANGED <<used, redeemed>> /\ (Move(w, "idle", NoReq) \/ Move(w, "insert", req[w]))
    BY <1>6 DEF Upsert, Insert, Mail, Finish, Go
  <2> QED
    BY <2>1, <2>2, Aside, AsideToIdle DEF Steps
<1>7. ASSUME NEW w \in Workers, NEW t \in Tokens, SubmitReset(w, t) PROVE SpentInv'
  <2>1. PICK e : /\ Go(w, "setPassword", [email |-> e, token |-> t])
                 /\ e = CHOOSE x \in Emails : t \in Range(lost[x])
    BY <1>7 DEF SubmitReset
  <2>2. e \in Emails
    BY <1>7, <2>1 DEF SubmitReset, Stored
  <2>3. [email |-> e, token |-> t] \in Requests /\ [email |-> e, token |-> t].token = t
    BY <2>2 DEF Requests
  <2> QED
    BY <1>7, <2>1, <2>3
    DEF SubmitReset, Go, Move, Steps, SpentInv, HoldsToken, MarksRedeemed, SpentOnlyWhenRedeemed
<1>8. ASSUME NEW w \in Workers, ResetPassword(w) PROVE SpentInv'
  <2>1. req[w].token \in Tokens /\ req[w] \in Requests
    BY <1>8 DEF ResetPassword, SpentInv, HoldsToken
  <2>2. redeemed' \in [Tokens -> 0..Uses]
    BY <1>8, <2>1 DEF ResetPassword, SpentInv, PasswordResetAssumption
  <2>3. \A t \in Tokens : redeemed[t] > 0 => redeemed'[t] > 0
    BY <1>8, <2>1 DEF ResetPassword, SpentInv, PasswordResetAssumption
  <2>4. redeemed'[req[w].token] > 0
    BY <1>8, <2>1 DEF ResetPassword, SpentInv, PasswordResetAssumption
  <2> QED
    BY <1>8, <2>1, <2>2, <2>3, <2>4
    DEF ResetPassword, Go, Move, Steps, SpentInv, HoldsToken, MarksRedeemed, SpentOnlyWhenRedeemed
<1>9. ASSUME NEW w \in Workers, SetTokenUsed(w) PROVE SpentInv'
  <2>1. req[w].token \in Tokens /\ redeemed[req[w].token] > 0
    BY <1>9 DEF SetTokenUsed, SpentInv, MarksRedeemed
  <2>2. used' \subseteq used \cup {req[w].token}
    BY <1>9 DEF SetTokenUsed
  <2>3. SpentOnlyWhenRedeemed' /\ used' \subseteq Tokens
    BY <1>9, <2>1, <2>2 DEF SetTokenUsed, SpentInv, SpentOnlyWhenRedeemed
  <2> QED
    BY <1>9, <2>3, NoReqType
    DEF SetTokenUsed, Finish, Go, Move, Steps, SpentInv, HoldsToken, MarksRedeemed
<1> QED
  BY <1>1, <1>2, <1>3, <1>4, <1>5, <1>6, <1>7, <1>8, <1>9 DEF Next, Work

LEMMA SpentStart == Init => SpentInv
  BY PasswordResetAssumption, NoReqType
  DEF Init, SpentInv, HoldsToken, MarksRedeemed, SpentOnlyWhenRedeemed, Steps,
      PasswordResetAssumption

\* However requests interleave and wherever they stop, a token marked used has
\* set a password: marking it after the response never spends a token whose
\* owner has yet to use it.
THEOREM Spent == Spec => []SpentOnlyWhenRedeemed
<1>1. Init => SpentInv
  BY SpentStart
<1>2. SpentInv /\ [Next]_vars => SpentInv'
  BY PasswordResetAssumption, SpentStep
<1>3. SpentInv => SpentOnlyWhenRedeemed
  BY DEF SpentInv
<1> QED
  BY <1>1, <1>2, <1>3, PTL DEF Spec
-----------------------------------------------------------------------------
(* Types.                                                                   *)

\* A worker that asks for a token holds an email.
HoldsEmail == \A w \in Workers : pc[w] \in {"lookUp", "upsert", "insert"} => req[w].email \in Emails

\* What SpentInv leaves open.
LostInv == /\ lost \in [Emails -> Seq(Tokens)]
           /\ aged \subseteq Tokens /\ sent \subseteq Tokens
           /\ orderly \in BOOLEAN
           /\ HoldsEmail

LEMMA MoveHolds ==
  ASSUME SpentInv, LostInv, NEW w \in Workers, NEW step \in Steps, NEW r \in Requests,
         Move(w, step, r), step \in {"lookUp", "upsert", "insert"} => r.email \in Emails
  PROVE  HoldsEmail'
  BY DEF SpentInv, LostInv, Move, HoldsEmail

LEMMA GoOrderly ==
  ASSUME LostInv, NEW w, NEW step, NEW r, Go(w, step, r) \/ GoAstray(w, step, r)
  PROVE  Move(w, step, r) /\ orderly' \in BOOLEAN
  BY DEF LostInv, Go, GoAstray

LEMMA FinishHolds ==
  ASSUME SpentInv, LostInv, NEW w \in Workers,
         Finish(w) \/ GoAstray(w, "idle", NoReq)
  PROVE  HoldsEmail' /\ orderly' \in BOOLEAN
  BY MoveHolds, GoOrderly, NoReqType DEF Finish, Steps

LEMMA LostStep == SpentInv /\ LostInv /\ [Next]_vars => LostInv'
<1> SUFFICES ASSUME SpentInv, LostInv, [Next]_vars PROVE LostInv'
  OBVIOUS
<1>1. CASE UNCHANGED vars
  BY <1>1 DEF vars, LostInv, HoldsEmail
<1>2. ASSUME NEW t \in Tokens, Age(t) PROVE LostInv'
  BY <1>2 DEF Age, LostInv, HoldsEmail
<1>3. ASSUME NEW w \in Workers, Fail(w) PROVE LostInv'
  BY <1>3, FinishHolds DEF Fail, LostInv
<1>4. ASSUME NEW w \in Workers, NEW e \in Emails, NEW exact, SubmitRequest(w, e, exact) PROVE LostInv'
  <2> DEFINE r == [NoReq EXCEPT !.email = e]
  <2>1. r \in Requests /\ r.email = e
    BY DEF NoReq, Requests
  <2> HIDE DEF r
  <2>2. Go(w, "lookUp", r) \/ GoAstray(w, "upsert", r)
    BY <1>4 DEF SubmitRequest, r
  <2>3. HoldsEmail' /\ orderly' \in BOOLEAN
    BY <2>1, <2>2, MoveHolds, GoOrderly DEF Steps
  <2> QED
    BY <1>4, <2>3 DEF SubmitRequest, LostInv
<1>5. ASSUME NEW w \in Workers, LookUp(w) PROVE LostInv'
  <2>1. req[w].email \in Emails /\ req[w] \in Requests
    BY <1>5 DEF LookUp, SpentInv, LostInv, HoldsEmail
  <2>2. CASE /\ lost[req[w].email] # <<>>
             /\ sent' = sent \cup {Head(lost[req[w].email])} /\ Finish(w)
    <3>1. Head(lost[req[w].email]) \in Tokens
      BY <2>1, <2>2, HeadTailProperties DEF LostInv
    <3>2. HoldsEmail' /\ orderly' \in BOOLEAN
      BY <2>2, FinishHolds
    <3> QED
      BY <1>5, <2>2, <3>1, <3>2 DEF LookUp, LostInv
  <2>3. CASE UNCHANGED sent /\ (Go(w, "upsert", req[w]) \/ GoAstray(w, "upsert", req[w]))
    <3>1. HoldsEmail' /\ orderly' \in BOOLEAN
      BY <2>1, <2>3, MoveHolds, GoOrderly DEF Steps
    <3> QED
      BY <1>5, <2>3, <3>1 DEF LookUp, LostInv
  <2> QED
    BY <1>5, <2>2, <2>3 DEF LookUp
<1>6. ASSUME NEW w \in Workers, Upsert(w) \/ Insert(w) PROVE LostInv'
  <2>1. req[w].email \in Emails /\ req[w] \in Requests
    BY <1>6 DEF Upsert, Insert, SpentInv, LostInv, HoldsEmail
  <2> DEFINE docs == lost[req[w].email]
  <2>2. docs \in Seq(Tokens)
    BY <2>1 DEF LostInv
  <2>3. ASSUME NEW t \in Tokens, Mail(w, t), NEW new \in Seq(Tokens),
               lost' = [lost EXCEPT ![req[w].email] = new], UNCHANGED aged
        PROVE  LostInv'
    <3>1. HoldsEmail' /\ orderly' \in BOOLEAN
      BY <2>3, FinishHolds DEF Mail
    <3> QED
      BY <2>3, <2>1, <3>1 DEF Mail, LostInv
  <2>4. CASE Upsert(w) /\ docs # <<>>
    <3>1. PICK t \in Tokens : /\ lost' = [lost EXCEPT ![req[w].email] = <<t>> \o Tail(@)]
                              /\ Mail(w, t)
      BY <2>4 DEF Upsert, Fresh
    <3>2. <<t>> \in Seq(Tokens) /\ Tail(docs) \in Seq(Tokens)
      BY <2>2, <2>4, HeadTailProperties
    <3>3. <<t>> \o Tail(docs) \in Seq(Tokens)
      BY <3>2, ConcatProperties
    <3>4. lost' = [lost EXCEPT ![req[w].email] = <<t>> \o Tail(docs)]
      BY <3>1, <2>1 DEF LostInv
    <3> QED
      BY <2>3, <2>4, <3>1, <3>3, <3>4 DEF Upsert
  <2>5. CASE Upsert(w) /\ docs = <<>>
    <3>1. Go(w, "insert", req[w]) /\ UNCHANGED <<lost, sent, aged>>
      BY <2>5 DEF Upsert
    <3>2. HoldsEmail' /\ orderly' \in BOOLEAN
      BY <2>1, <3>1, MoveHolds, GoOrderly DEF Steps
    <3> QED
      BY <3>1, <3>2 DEF LostInv
  <2>6. CASE Insert(w)
    <3>1. PICK t \in Tokens : /\ lost' = [lost EXCEPT ![req[w].email] = Append(@, t)]
                              /\ Mail(w, t)
      BY <2>6 DEF Insert, Fresh
    <3>2. Append(docs, t) \in Seq(Tokens)
      BY <2>2, AppendProperties
    <3>3. lost' = [lost EXCEPT ![req[w].email] = Append(docs, t)]
      BY <3>1, <2>1 DEF LostInv
    <3> QED
      BY <2>3, <2>6, <3>1, <3>2, <3>3 DEF Insert
  <2> QED
    BY <1>6, <2>4, <2>5, <2>6
<1>7. ASSUME NEW w \in Workers, NEW t \in Tokens, SubmitReset(w, t) PROVE LostInv'
  <2>1. PICK e : Go(w, "setPassword", [email |-> e, token |-> t])
    BY <1>7 DEF SubmitReset
  <2>2. HoldsEmail'
    BY <2>1 DEF Go, Move, SpentInv, LostInv, HoldsEmail
  <2>3. orderly' \in BOOLEAN
    BY <2>1, GoOrderly
  <2> QED
    BY <1>7, <2>2, <2>3 DEF SubmitReset, LostInv
<1>8. ASSUME NEW w \in Workers, ResetPassword(w) \/ SetTokenUsed(w) PROVE LostInv'
  <2>1. HoldsEmail' /\ orderly' \in BOOLEAN
    <3>1. CASE ResetPassword(w)
      <4>1. Go(w, "mark", req[w]) /\ req[w] \in Requests
        BY <3>1 DEF ResetPassword, SpentInv
      <4> QED
        BY <4>1, MoveHolds, GoOrderly DEF Steps
    <3>2. CASE SetTokenUsed(w)
      BY <3>2, FinishHolds DEF SetTokenUsed
    <3> QED
      BY <1>8, <3>1, <3>2
  <2> QED
    BY <1>8, <2>1 DEF ResetPassword, SetTokenUsed, LostInv
<1> QED
  BY <1>1, <1>2, <1>3, <1>4, <1>5, <1>6, <1>7, <1>8 DEF Next, Work

\* Every reachable state is well typed: a request redeems and marks tokens, and
\* looks up emails, that are registered.
THEOREM TypeCorrect == Spec => []TypeOK
<1>1. Init => SpentInv /\ LostInv
  <2>1. Init => LostInv
    BY DEF Init, LostInv, HoldsEmail
  <2> QED
    BY <2>1, SpentStart
<1>2. SpentInv /\ LostInv /\ [Next]_vars => (SpentInv /\ LostInv)'
  BY PasswordResetAssumption, SpentStep, LostStep
<1>3. SpentInv /\ LostInv => TypeOK
  BY DEF SpentInv, LostInv, TypeOK
<1> QED
  BY <1>1, <1>2, <1>3, PTL DEF Spec
-----------------------------------------------------------------------------
(* Orderly requests.                                                        *)

\* As long as they come one at a time, what a request has found holds until it
\* ends: the token it redeems is stored and was not redeemed before it, and the
\* document it is about to overwrite tells nothing that still counts.
Alone == \A v, w \in Workers : pc[v] # "idle" /\ pc[w] # "idle" => v = w

Counts == \A t \in Tokens :
             /\ redeemed[t] <= 1
             /\ redeemed[t] > 0 => t \in used \/ \E w \in Workers : pc[w] = "mark" /\ req[w].token = t

Found == \A w \in Workers :
            /\ pc[w] = "setPassword" => redeemed[req[w].token] = 0
            /\ pc[w] \in {"setPassword", "mark"} => Stored(req[w].token)
            /\ pc[w] = "upsert" => \/ lost[req[w].email] = <<>>
                                   \/ Head(lost[req[w].email]) \in used \cup aged

Honoured == \A t \in sent : redeemed[t] > 0 \/ t \in aged \/ Stored(t)

OrderlyInv == orderly => Alone /\ Counts /\ Found /\ Honoured

\* In an orderly step of one worker the others are idle.
LEMMA GoAlone ==
  ASSUME SpentInv, OrderlyInv, NEW w \in Workers, NEW step \in Steps, NEW r \in Requests,
         Go(w, step, r), orderly'
  PROVE  /\ orderly /\ Alone /\ Counts /\ Found /\ Honoured /\ Alone'
         /\ pc'[w] = step /\ req'[w] = r
         /\ \A v \in Workers : v # w => pc[v] = "idle" /\ pc'[v] = "idle"
<1>1. /\ pc' = [pc EXCEPT ![w] = step] /\ req' = [req EXCEPT ![w] = r]
      /\ orderly /\ (pc[w] = "idle" => \A v \in Workers : pc[v] = "idle")
  BY DEF Go, Move
<1>2. \A v \in Workers : v # w => pc[v] = "idle"
  BY <1>1 DEF OrderlyInv, Alone
<1> QED
  BY <1>1, <1>2 DEF OrderlyInv, SpentInv, Alone

\* A document whose first token is replaced keeps the others.
LEMMA ReplacedRange ==
  ASSUME NEW docs \in Seq(Tokens), docs # <<>>, NEW t \in Tokens, NEW s \in Range(docs), s # Head(docs)
  PROVE  s \in Range(<<t>> \o Tail(docs))
<1>1. PICK i \in 1..Len(docs) : docs[i] = s
  BY DEF Range
<1>2. i # 1 /\ Len(docs) \in Nat
  BY <1>1 DEF Head
<1> DEFINE new == <<t>> \o Tail(docs)
<1>3. /\ Tail(docs) \in Seq(Tokens) /\ Len(Tail(docs)) = Len(docs) - 1
      /\ Tail(docs)[i - 1] = docs[i]
  BY <1>1, <1>2, HeadTailProperties
<1>4. new \in Seq(Tokens) /\ Len(new) = Len(docs) /\ new[i] = docs[i]
  BY <1>2, <1>3, ConcatProperties
<1> HIDE DEF new
<1>5. i \in DOMAIN new
  BY <1>4
<1> QED
  BY <1>1, <1>4, <1>5 DEF Range, new

LEMMA AppendedRange ==
  ASSUME NEW docs \in Seq(Tokens), NEW t \in Tokens, NEW s \in Range(docs)
  PROVE  s \in Range(Append(docs, t))
<1>1. PICK i \in 1..Len(docs) : docs[i] = s
  BY DEF Range
<1> DEFINE new == Append(docs, t)
<1>2. new \in Seq(Tokens) /\ Len(new) = Len(docs) + 1 /\ new[i] = docs[i] /\ Len(docs) \in Nat
  BY <1>1, AppendProperties
<1> HIDE DEF new
<1>3. i \in DOMAIN new
  BY <1>2
<1> QED
  BY <1>1, <1>2, <1>3 DEF Range, new

\* The new token of an email is stored.
LEMMA NewStored ==
  ASSUME NEW docs \in Seq(Tokens), NEW t \in Tokens
  PROVE  /\ docs # <<>> => t \in Range(<<t>> \o Tail(docs))
         /\ t \in Range(Append(docs, t))
<1>1. ASSUME docs # <<>> PROVE t \in Range(<<t>> \o Tail(docs))
  <2> DEFINE new == <<t>> \o Tail(docs)
  <2>1. Tail(docs) \in Seq(Tokens) /\ Len(Tail(docs)) \in Nat
    BY <1>1, HeadTailProperties
  <2>2. new \in Seq(Tokens) /\ Len(new) = 1 + Len(Tail(docs)) /\ new[1] = t
    BY <2>1, ConcatProperties
  <2> HIDE DEF new
  <2>3. 1 \in DOMAIN new
    BY <2>1, <2>2
  <2> QED
    BY <2>2, <2>3 DEF Range, new
<1>2. t \in Range(Append(docs, t))
  <2> DEFINE new == Append(docs, t)
  <2>1. new \in Seq(Tokens) /\ Len(new) = Len(docs) + 1 /\ new[Len(docs) + 1] = t /\ Len(docs) \in Nat
    BY AppendProperties
  <2> HIDE DEF new
  <2>2. Len(docs) + 1 \in DOMAIN new
    BY <2>1
  <2> QED
    BY <2>1, <2>2 DEF Range, new
<1> QED
  BY <1>1, <1>2

\* A request that ends without having redeemed a token.
LEMMA EndOrderly ==
  ASSUME SpentInv, OrderlyInv, NEW w \in Workers, Finish(w), pc[w] # "mark",
         UNCHANGED <<used, redeemed>>, orderly' => Honoured'
  PROVE  OrderlyInv'
<1> SUFFICES ASSUME orderly' PROVE Alone' /\ Counts' /\ Found' /\ Honoured'
  BY DEF OrderlyInv
<1>1. /\ Counts /\ Alone' /\ pc'[w] = "idle"
      /\ \A v \in Workers : v # w => pc[v] = "idle" /\ pc'[v] = "idle"
  BY NoReqType, GoAlone DEF Finish, Steps
<1>2. Counts'
  BY <1>1 DEF Counts
<1>3. Found'
  BY <1>1 DEF Found
<1> QED
  BY <1>1, <1>2, <1>3

LEMMA OrderlyStep == SpentInv /\ LostInv /\ OrderlyInv /\ [Next]_vars => OrderlyInv'
<1> SUFFICES ASSUME SpentInv, LostInv, OrderlyInv, [Next]_vars PROVE OrderlyInv'
  OBVIOUS
<1>1. CASE UNCHANGED vars
  BY <1>1 DEF vars, OrderlyInv, Alone, Counts, Found, Honoured, Stored
<1>2. ASSUME NEW t \in Tokens, Age(t) PROVE OrderlyInv'
  BY <1>2 DEF Age, OrderlyInv, Alone, Counts, Found, Honoured, Stored
<1>3. ASSUME ~orderly' PROVE OrderlyInv'
  BY <1>3 DEF OrderlyInv
<1>4. ASSUME NEW w \in Workers, NEW e \in Emails, NEW exact, SubmitRequest(w, e, exact), orderly'
      PROVE  OrderlyInv'
  <2> DEFINE r == [NoReq EXCEPT !.email = e]
  <2>1. r \in Requests
    BY DEF NoReq, Requests
  <2> HIDE DEF r
  <2>2. Go(w, "lookUp", r) /\ pc[w] = "idle"
    BY <1>4 DEF SubmitRequest, GoAstray, r
  <2>3. /\ Counts /\ Honoured /\ Alone' /\ pc'[w] = "lookUp"
        /\ \A v \in Workers : v # w => pc[v] = "idle" /\ pc'[v] = "idle"
    BY <1>4, <2>1, <2>2, GoAlone DEF Steps
  <2>4. UNCHANGED <<lost, used, aged, sent, redeemed>>
    BY <1>4 DEF SubmitRequest
  <2> QED
    BY <2>2, <2>3, <2>4 DEF OrderlyInv, Counts, Found, Honoured, Stored
<1>5. ASSUME NEW w \in Workers, LookUp(w), orderly' PROVE OrderlyInv'
  <2> DEFINE docs == lost[req[w].email]
  <2>1. req[w].email \in Emails /\ req[w] \in Requests
    BY <1>5 DEF LookUp, SpentInv, LostInv, HoldsEmail
  <2>2. UNCHANGED <<lost, used, aged, redeemed>>
    BY <1>5 DEF LookUp
  <2>3. CASE docs # <<>> /\ sent' = sent \cup {Head(docs)} /\ Finish(w)
    <3>1. Honoured
      BY <1>5, <2>3, NoReqType, GoAlone DEF Finish, Steps
    <3>2. Head(docs) \in Range(docs)
      BY <2>1, <2>3 DEF LostInv, Range
    <3>3. Honoured'
      BY <2>1, <2>2, <2>3, <3>1, <3>2 DEF Honoured, Stored
    <3> QED
      BY <1>5, <2>2, <2>3, <3>3, EndOrderly DEF LookUp
  <2>4. CASE ~(docs # <<>> /\ IsTokenValid(Head(docs))) /\ UNCHANGED sent /\ Go(w, "upsert", req[w])
    <3>1. /\ Counts /\ Honoured /\ Alone' /\ pc'[w] = "upsert" /\ req'[w] = req[w]
          /\ \A v \in Workers : v # w => pc[v] = "idle" /\ pc'[v] = "idle"
      BY <1>5, <2>1, <2>4, GoAlone DEF Steps
    <3>2. docs = <<>> \/ Head(docs) \in used \cup aged
      BY <2>4 DEF IsTokenValid
    <3>3. Found'
      BY <2>2, <3>1, <3>2 DEF Found
    <3>4. Counts' /\ Honoured'
      BY <1>5, <2>2, <2>4, <3>1 DEF LookUp, Counts, Honoured, Stored
    <3> QED
      BY <3>1, <3>3, <3>4 DEF OrderlyInv
  <2> QED
    BY <1>5, <2>3, <2>4 DEF LookUp, GoAstray
<1>6. ASSUME NEW w \in Workers, Upsert(w) \/ Insert(w), orderly' PROVE OrderlyInv'
  <2> DEFINE docs == lost[req[w].email]
  <2>1. /\ req[w].email \in Emails /\ req[w] \in Requests /\ docs \in Seq(Tokens)
        /\ UNCHANGED <<used, aged, redeemed>>
    BY <1>6 DEF Upsert, Insert, SpentInv, LostInv, HoldsEmail
  <2> DEFINE stores(t, new) == /\ lost' = [lost EXCEPT ![req[w].email] = new]
                               /\ t \in Range(new) /\ Mail(w, t)
                               /\ \A s \in Range(docs) : redeemed[s] > 0 \/ s \in aged \/ s \in Range(new)
  <2>2. ASSUME NEW t \in Tokens, NEW new, stores(t, new) PROVE OrderlyInv'
    <3>1. Honoured
      BY <1>6, <2>2, NoReqType, GoAlone DEF Mail, Finish, Steps
    <3>2. lost'[req[w].email] = new /\ \A e \in Emails : e # req[w].email => lost'[e] = lost[e]
      BY <2>1, <2>2 DEF LostInv
    <3>3. \A s \in Tokens : Stored(s) => redeemed[s] > 0 \/ s \in aged \/ Stored(s)'
      BY <2>1, <2>2, <3>2 DEF Stored
    <3>4. Stored(t)'
      BY <2>1, <2>2, <3>2 DEF Stored
    <3>5. sent' = sent \cup {t} /\ sent \subseteq Tokens
      BY <2>2 DEF Mail, LostInv
    <3>6. Honoured'
      BY <2>1, <3>1, <3>3, <3>4, <3>5 DEF Honoured
    <3>7. Finish(w) /\ pc[w] # "mark"
      BY <1>6, <2>2 DEF Mail, Upsert, Insert
    <3> HIDE DEF stores
    <3> QED
      BY <2>1, <3>6, <3>7, EndOrderly
  <2>3. CASE Upsert(w) /\ docs # <<>>
    <3>1. PICK t \in Tokens : /\ lost' = [lost EXCEPT ![req[w].email] = <<t>> \o Tail(@)]
                              /\ Mail(w, t)
      BY <2>3 DEF Upsert, Fresh
    <3>2. Found
      BY <1>6, <3>1, NoReqType, GoAlone DEF Mail, Finish, Steps
    <3>3. Head(docs) \in used \cup aged
      BY <2>3, <3>2 DEF Upsert, Found
    <3>4. redeemed[Head(docs)] > 0 \/ Head(docs) \in aged
      BY <3>3 DEF SpentInv, SpentOnlyWhenRedeemed
    <3>5. \A s \in Range(docs) : s # Head(docs) => s \in Range(<<t>> \o Tail(docs))
      BY <2>1, <2>3, ReplacedRange
    <3>6. lost' = [lost EXCEPT ![req[w].email] = <<t>> \o Tail(docs)]
      BY <2>1, <3>1 DEF LostInv
    <3>7. t \in Range(<<t>> \o Tail(docs))
      BY <2>1, <2>3, NewStored
    <3>8. stores(t, <<t>> \o Tail(docs))
      BY <3>1, <3>4, <3>5, <3>6, <3>7
    <3> HIDE DEF stores
    <3> QED
      BY <2>2, <3>8
  <2>4. CASE Upsert(w) /\ docs = <<>>
    <3>1. Go(w, "insert", req[w]) /\ UNCHANGED <<lost, used, aged, sent, redeemed>> /\ pc[w] = "upsert"
      BY <2>4 DEF Upsert
    <3>2. /\ Counts /\ Honoured /\ Alone' /\ pc'[w] = "insert"
          /\ \A v \in Workers : v # w => pc[v] = "idle" /\ pc'[v] = "idle"
      BY <1>6, <2>1, <3>1, GoAlone DEF Steps
    <3> QED
      BY <3>1, <3>2 DEF OrderlyInv, Counts, Found, Honoured, Stored
  <2>5. CASE Insert(w)
    <3>1. PICK t \in Tokens : /\ lost' = [lost EXCEPT ![req[w].email] = Append(@, t)]
                              /\ Mail(w, t)
      BY <2>5 DEF Insert, Fresh
    <3>2. lost' = [lost EXCEPT ![req[w].email] = Append(docs, t)]
      BY <2>1, <3>1 DEF LostInv
    <3>3. t \in Range(Append(docs, t)) /\ \A s \in Range(docs) : s \in Range(Append(docs, t))
      BY <2>1, NewStored, AppendedRange
    <3>4. stores(t, Append(docs, t))
      BY <3>1, <3>2, <3>3
    <3> HIDE DEF stores
    <3> QED
      BY <2>2, <3>4
  <2> QED
    BY <1>6, <2>3, <2>4, <2>5
<1>7. ASSUME NEW w \in Workers, NEW t \in Tokens, SubmitReset(w, t), orderly' PROVE OrderlyInv'
  <2>1. PICK e : /\ Go(w, "setPassword", [email |-> e, token |-> t])
                 /\ e = CHOOSE x \in Emails : t \in Range(lost[x])
    BY <1>7 DEF SubmitReset
  <2> DEFINE r == [email |-> e, token |-> t]
  <2>2. r \in Requests /\ r.token = t
    <3>1. e \in Emails
      BY <1>7, <2>1 DEF SubmitReset, Stored
    <3> QED
      BY <3>1 DEF Requests
  <2>3. /\ pc[w] = "idle" /\ Stored(t) /\ t \notin used
        /\ UNCHANGED <<lost, used, aged, sent, redeemed>>
    BY <1>7 DEF SubmitReset, IsTokenValid
  <2> HIDE DEF r
  <2>4. /\ Counts /\ Honoured /\ Alone' /\ pc'[w] = "setPassword" /\ req'[w] = r
        /\ \A v \in Workers : v # w => pc[v] = "idle" /\ pc'[v] = "idle"
    BY <1>7, <2>1, <2>2, GoAlone DEF Steps, r
  <2>5. redeemed[t] = 0
    BY <2>3, <2>4 DEF Counts, SpentInv
  <2>6. Counts' /\ Honoured'
    BY <2>3, <2>4 DEF Counts, Honoured, Stored
  <2>7. Found'
    BY <2>2, <2>3, <2>4, <2>5 DEF Found, Stored
  <2> QED
    BY <2>4, <2>6, <2>7 DEF OrderlyInv
<1>8. ASSUME NEW w \in Workers, ResetPassword(w), orderly' PROVE OrderlyInv'
  <2>1. /\ req[w].token \in Tokens /\ req[w] \in Requests
        /\ pc[w] = "setPassword" /\ Go(w, "mark", req[w]) /\ UNCHANGED <<lost, used, aged, sent>>
    BY <1>8 DEF ResetPassword, SpentInv, HoldsToken
  <2>2. /\ Counts /\ Found /\ Honoured /\ Alone' /\ pc'[w] = "mark" /\ req'[w] = req[w]
        /\ \A v \in Workers : v # w => pc[v] = "idle" /\ pc'[v] = "idle"
    BY <1>8, <2>1, GoAlone DEF Steps
  <2>3. redeemed' = [redeemed EXCEPT ![req[w].token] = 1]
    <3>1. redeemed[req[w].token] = 0 /\ 0 < Uses
      BY <2>1, <2>2, PasswordResetAssumption DEF Found, PasswordResetAssumption
    <3>2. (IF redeemed[req[w].token] < Uses THEN redeemed[req[w].token] + 1 ELSE redeemed[req[w].token]) = 1
      BY <3>1
    <3> QED
      BY <1>8, <3>2 DEF ResetPassword
  <2>4. Counts'
    BY <2>1, <2>2, <2>3 DEF Counts, SpentInv
  <2>5. Found'
    BY <2>1, <2>2 DEF Found, Stored
  <2>6. Honoured'
    BY <2>1, <2>2, <2>3 DEF Honoured, Stored, SpentInv, LostInv
  <2> QED
    BY <2>2, <2>4, <2>5, <2>6 DEF OrderlyInv
<1>9. ASSUME NEW w \in Workers, SetTokenUsed(w), orderly' PROVE OrderlyInv'
  <2>1. /\ Counts /\ Found /\ Honoured /\ Alone' /\ pc'[w] = "idle"
        /\ \A v \in Workers : v # w => pc[v] = "idle" /\ pc'[v] = "idle"
    BY <1>9, NoReqType, GoAlone DEF SetTokenUsed, Finish, Steps
  <2>2. pc[w] = "mark" /\ used' = used \cup {req[w].token} /\ UNCHANGED <<lost, aged, sent, redeemed>>
    BY <1>9, <2>1 DEF SetTokenUsed, Found
  <2> QED
    BY <2>1, <2>2 DEF OrderlyInv, Counts, Found, Honoured, Stored
<1> QED
  BY <1>1, <1>2, <1>3, <1>4, <1>5, <1>6, <1>7, <1>8, <1>9 DEF Next, Work, Fail, GoAstray

LEMMA OrderlyInvariance == Spec => [](SpentInv /\ OrderlyInv)
<1>1. Init => SpentInv /\ LostInv /\ OrderlyInv
  <2>1. Init => LostInv /\ OrderlyInv
    BY DEF Init, LostInv, HoldsEmail, OrderlyInv, Alone, Counts, Found, Honoured
  <2> QED
    BY <2>1, SpentStart
<1>2. SpentInv /\ LostInv /\ OrderlyInv /\ [Next]_vars => (SpentInv /\ LostInv /\ OrderlyInv)'
  BY PasswordResetAssumption, SpentStep, LostStep, OrderlyStep
<1> QED
  BY <1>1, <1>2, PTL DEF Spec

\* A mailed token stays good until it is redeemed or too old: the look-up that
\* comes before a document is overwritten has found its token used up.
THEOREM Honours == Spec => []SentTokensHonoured
<1>1. OrderlyInv => SentTokensHonoured
  BY DEF OrderlyInv, Honoured, SentTokensHonoured
<1> QED
  BY <1>1, OrderlyInvariance, PTL

\* A token sets one password: it is marked before the next request comes.
THEOREM Once == Spec => []RedeemedOnce
<1>1. OrderlyInv => RedeemedOnce
  BY DEF OrderlyInv, Counts, RedeemedOnce
<1> QED
  BY <1>1, OrderlyInvariance, PTL
=============================================================================
