-------------------------- MODULE ActionLogProofs --------------------------
(* The log of user actions, the details of users and their logins, for any  *)
(* number of requests that may fail anywhere and a restore beside them.     *)
EXTENDS ActionLog, TLAPS

(***************************************************************************)
(* Types.                                                                  *)
(***************************************************************************)
Req == [of : People \cup {NoOne}, ip : IPs \cup {NoIP}, last : IPs \cup {NoIP}, origin : Changes,
        log : Logs, entry : Entries \cup {NoEntry}, met : BOOLEAN]

\* What a worker holds fits the step it is at.
Fits(step, r) ==
    /\ step \in {"writeInfo", "findUser", "findActor"} => r.of \in People
    /\ step \in Updating => r.of \in Users
    /\ step \in {"indexUser", "writeUser"} => r.log.of = r.of /\ r.log.act = "modify"
    /\ step \in {"unindexUser", "deleteUser"} => /\ r.log.of \in Admins /\ r.log.act = "delete"
                                                /\ r.log.new = NoChange
    /\ step \in Logging => /\ r.log.of \in People /\ r.log.act # "none"
                           /\ IF r.log.act = "modify" THEN r.log.of \in Users
                              ELSE r.log.new = NoChange
    /\ step = "indexEntry" => r.entry \in Entries

WorkersOK == /\ pc \in [Workers -> Steps] /\ req \in [Workers -> Req]
             /\ \A w \in Workers : Fits(pc[w], req[w])

Seen == [current : IPs \cup {NoIP}, last : IPs \cup {NoIP}, met : BOOLEAN]
LoginsOK == logins \in [People -> Seen]

Restores == [step : {"idle", "users", "actions"}, users : SUBSET Users,
             fresh : SUBSET Users, read : [Users -> Docs]]
RestoreOK == restore \in Restores

TypeInv == TypeOK /\ WorkersOK /\ LoginsOK /\ RestoreOK

LEMMA NoTypes == NoLog \in Logs /\ NoReq \in Req /\ NoDoc \in Docs /\ NoRestore \in Restores
<1>1. NoChange \in Changes
  BY DEF NoChange, Changes
<1>2. NoLog \in Logs
  BY <1>1 DEF NoLog, Logs
<1>3. NoReq \in Req
  BY <1>1, <1>2 DEF NoReq, Req
<1>4. NoDoc \in Docs
  BY DEF NoDoc, Docs
<1> QED
  BY <1>2, <1>3, <1>4 DEF NoRestore, Restores

LEMMA GoTypes ==
    ASSUME WorkersOK, NEW w \in Workers, NEW step \in Steps, NEW r \in Req, Fits(step, r),
           Go(w, step, r)
    PROVE  WorkersOK'
BY DEF WorkersOK, Go

LEMMA FinishTypes == ASSUME WorkersOK, NEW w \in Workers, Finish(w) PROVE WorkersOK'
<1>1. Fits("idle", NoReq)
  BY DEF Fits, Updating, Logging
<1> QED
  BY <1>1, NoTypes, GoTypes DEF Finish, Steps

LEMMA LogTypes ==
    ASSUME WorkersOK, NEW w \in Workers, NEW log \in Logs, log.of \in People, log.act # "none",
           IF log.act = "modify" THEN log.of \in Users ELSE log.new = NoChange, Log(w, log)
    PROVE  WorkersOK'
<1> DEFINE r == [NoReq EXCEPT !.log = log]
<1>1. r \in Req /\ r.log = log
  BY NoTypes DEF Req, NoReq
<1>2. Go(w, "insertEntry", r)
  BY DEF Log
<1> HIDE DEF r
<1> QED
  BY <1>1, <1>2, GoTypes DEF Fits, Updating, Logging, Steps

LEMMA SubmitTypes ==
    ASSUME TypeInv, NEW w \in Workers, NEW step \in Steps, NEW r \in Req, Fits(step, r),
           NEW steps, Submit(w, step, r, steps)
    PROVE  WorkersOK' /\ UNCHANGED <<stores, history>>
<1> DEFINE rivals == {v \in Workers : req[v].of = r.of /\ pc[v] \in steps}
<1>1. pc' \in [Workers -> Steps]
  BY DEF Submit, TypeInv, WorkersOK
<1>2. ASSUME NEW v \in Workers PROVE req'[v] \in Req /\ Fits(pc'[v], req'[v])
  <2>1. CASE v = w
    <3>1. (rivals # {}) \in BOOLEAN
      OBVIOUS
    <3>2. req'[v] = [r EXCEPT !.met = rivals # {}]
      BY <2>1 DEF Submit
    <3>3. pc'[v] = step
      BY <2>1 DEF Submit, TypeInv, WorkersOK
    <3> HIDE DEF rivals
    <3> QED
      BY <3>1, <3>2, <3>3 DEF Req, Fits
  <2>2. CASE v # w
    <3>1. req'[v] \in {req[v], [req[v] EXCEPT !.met = TRUE]}
      BY <2>2 DEF Submit
    <3>2. pc'[v] = pc[v]
      BY <2>2 DEF Submit, TypeInv, WorkersOK
    <3>3. req[v] \in Req /\ Fits(pc[v], req[v])
      BY DEF TypeInv, WorkersOK
    <3> QED
      BY <3>1, <3>2, <3>3 DEF Req, Fits
  <2> QED
    BY <2>1, <2>2
<1>3. req' \in [Workers -> Req]
  BY <1>2 DEF Submit
<1> QED
  BY <1>1, <1>2, <1>3 DEF WorkersOK, Submit

LEMMA TypesInit == Init => TypeInv
<1> SUFFICES ASSUME Init PROVE TypeInv
  OBVIOUS
<1>1. Typed \in Values /\ \A u \in Users : user[u] = [live |-> TRUE, details |-> [f \in Fields |-> Typed]]
  BY ActionLogAssumption DEF Init
<1>2. \A u \in Users : Doc(user[u].details) \in Docs
  BY <1>1 DEF Doc, Docs, Indexed, Fields
<1>3. WorkersOK
  BY NoTypes DEF Init, WorkersOK, Fits, Updating, Logging, Steps
<1>4. TypeOK
  BY <1>1, <1>2, NoTypes DEF Init, TypeOK, Steps, Accounts, Infos
<1> QED
  BY <1>3, <1>4, NoTypes DEF Init, TypeInv, LoginsOK, RestoreOK, Seen

LEMMA BareLogTypes ==
    ASSUME WorkersOK, NEW w \in Workers, NEW p \in People,
           NEW act \in {"login", "login failed", "other"},
           Log(w, [NoLog EXCEPT !.of = p, !.act = act])
    PROVE  WorkersOK'
<1> DEFINE log == [NoLog EXCEPT !.of = p, !.act = act]
<1>1. log \in Logs /\ log.of = p /\ log.act = act /\ log.new = NoChange
  BY NoTypes DEF Logs, NoLog
<1>2. Log(w, log)
  OBVIOUS
<1>3. act # "none" /\ act # "modify"
  OBVIOUS
<1> HIDE DEF log
<1> QED
  BY <1>1, <1>2, <1>3, LogTypes

LEMMA TypesLogin ==
    ASSUME TypeInv, NEW w \in Workers, RecordLogin(w)
    PROVE  TypeInv'
<1> DEFINE r == req[w]
<1>1. r \in Req /\ r.of \in People
  BY DEF TypeInv, WorkersOK, Fits, RecordLogin
<1>3. WorkersOK'
  BY <1>1, BareLogTypes DEF RecordLogin, TypeInv
<1>4. info' \in [People -> Infos] /\ LoginsOK'
  <2> DEFINE was == logins[r.of].current
             new == [current |-> r.ip, last |-> r.last]
             seen == [current |-> r.ip, last |-> was, met |-> r.met]
  <2>1. new \in Infos /\ seen \in Seen
    BY <1>1 DEF TypeInv, LoginsOK, Req, Infos, Seen
  <2>2. \/ info' = [info EXCEPT ![r.of] = new] /\ logins' = [logins EXCEPT ![r.of] = seen]
        \/ UNCHANGED <<info, logins>>
    BY <1>1 DEF RecordLogin
  <2> HIDE DEF new, seen
  <2> QED
    BY <1>1, <2>1, <2>2 DEF TypeInv, TypeOK, LoginsOK
<1> QED
  BY <1>3, <1>4 DEF RecordLogin, TypeInv, TypeOK, WorkersOK, RestoreOK

LEMMA TypesFind ==
    ASSUME TypeInv, NEW w \in Workers, FindUser(w) \/ FindActor(w)
    PROVE  TypeInv'
<1>1. ASSUME FindUser(w) PROVE WorkersOK'
  <2>1. CASE Finish(w)
    BY <2>1, FinishTypes DEF TypeInv
  <2>2. ASSUME NEW u \in Users, Log(w, [NoLog EXCEPT !.of = u, !.act = "login failed"])
        PROVE  WorkersOK'
    BY <2>2, BareLogTypes DEF TypeInv, People
  <2> QED
    BY <1>1, <2>1, <2>2 DEF FindUser
<1>2. ASSUME FindActor(w) PROVE WorkersOK'
  <2>1. req[w].of \in People
    BY <1>2 DEF FindActor, TypeInv, WorkersOK, Fits
  <2>2. CASE Finish(w)
    BY <2>2, FinishTypes DEF TypeInv
  <2>3. CASE Log(w, [NoLog EXCEPT !.of = req[w].of, !.act = "other"])
    BY <2>1, <2>3, BareLogTypes DEF TypeInv
  <2> QED
    BY <1>2, <2>2, <2>3 DEF FindActor
<1> QED
  BY <1>1, <1>2 DEF FindUser, FindActor, stores, history, TypeInv, TypeOK, WorkersOK, LoginsOK, RestoreOK

LEMMA DocTypes == ASSUME NEW details \in Changes PROVE Doc(details) \in Docs
BY DEF Doc, Docs, Changes, Indexed, Fields

LEMMA DiffTypes == ASSUME NEW origin \in Changes, NEW updated \in Changes
                   PROVE  CheckFieldDiff(origin, updated) \in Changes
BY DEF CheckFieldDiff, Changes

LEMMA TypesUpdate ==
    ASSUME TypeInv, NEW w \in Workers, IndexUser(w) \/ WriteUser(w)
    PROVE  TypeInv'
<1> DEFINE r == req[w]
           u == r.of
           asked == r.log.asked
<1>1. /\ r \in Req /\ u \in Users /\ r.log \in Logs /\ asked \in Changes
      /\ r.log.of = u /\ r.log.act = "modify"
  BY DEF TypeInv, WorkersOK, Fits, Updating, IndexUser, WriteUser, Req, Logs
<1>2. CASE IndexUser(w)
  <2>1. Fits("writeUser", r)
    BY <1>1 DEF Fits, Logging, Updating
  <2>2. WorkersOK'
    BY <1>1, <1>2, <2>1, GoTypes, FinishTypes DEF IndexUser, TypeInv, Steps
  <2>3. userDoc' \in [Users -> Docs]
    BY <1>1, <1>2, DocTypes DEF IndexUser, TypeInv, TypeOK
  <2> QED
    BY <1>2, <2>2, <2>3 DEF IndexUser, history, TypeInv, TypeOK, WorkersOK, LoginsOK, RestoreOK
<1>3. CASE WriteUser(w)
  <2> DEFINE updated == [f \in Fields |-> IF asked[f] = Blank THEN user[u].details[f] ELSE asked[f]]
             diff == CheckFieldDiff(r.origin, updated)
             log == [r.log EXCEPT !.new = diff, !.met = r.met]
  <2>1. updated \in [Fields -> Values]
    BY <1>1 DEF TypeInv, TypeOK, Changes, Accounts
  <2>2. diff \in Changes
    BY <1>1, <2>1, DiffTypes DEF Req, Changes
  <2>3. log \in Logs /\ log.of = u /\ u \in People
    BY <1>1, <2>2 DEF Logs, Req, People
  <2>4. log.act = "modify"
    BY <1>1 DEF Logs
  <2>5. torn' \subseteq Users
    BY <1>1, <1>3 DEF WriteUser, TypeInv, TypeOK
  <2>6. WorkersOK' /\ user' \in [Users -> Accounts]
    <3> HIDE DEF log, updated
    <3>1. CASE user[u].live /\ log.new # NoChange
      <4>1. Log(w, log) /\ user' = [user EXCEPT ![u].details = updated]
        BY <1>3, <3>1 DEF WriteUser, log, updated
      <4> QED
        BY <1>1, <4>1, <2>1, <2>3, <2>4, LogTypes DEF TypeInv, TypeOK, Accounts
    <3>2. CASE user[u].live /\ log.new = NoChange
      <4>1. Finish(w) /\ user' = [user EXCEPT ![u].details = updated]
        BY <1>3, <3>2 DEF WriteUser, log, updated
      <4> QED
        BY <1>1, <4>1, <2>1, FinishTypes DEF TypeInv, TypeOK, Accounts
    <3>3. CASE ~user[u].live
      BY <1>3, <3>3, FinishTypes DEF WriteUser, TypeInv, TypeOK
    <3> QED
      BY <3>1, <3>2, <3>3
  <2> QED
    BY <1>3, <2>5, <2>6 DEF WriteUser, TypeInv, TypeOK, WorkersOK, LoginsOK, RestoreOK
<1> QED
  BY <1>2, <1>3
LEMMA TypesDelete ==
    ASSUME TypeInv, NEW w \in Workers, UnindexUser(w) \/ DeleteUser(w)
    PROVE  TypeInv'
<1> DEFINE r == req[w]
           u == r.of
<1>1. /\ r \in Req /\ u \in Users /\ r.log \in Logs
      /\ r.log.of \in Admins /\ r.log.act = "delete" /\ r.log.new = NoChange
  BY DEF TypeInv, WorkersOK, Fits, Updating, UnindexUser, DeleteUser, Req
<1>2. CASE UnindexUser(w)
  <2>1. Fits("deleteUser", r)
    BY <1>1 DEF Fits, Logging, Updating
  <2>2. WorkersOK'
    BY <1>1, <1>2, <2>1, GoTypes, FinishTypes DEF UnindexUser, TypeInv, Steps
  <2>3. userDoc' \in [Users -> Docs] /\ torn' \subseteq Users
    BY <1>1, <1>2, NoTypes DEF UnindexUser, TypeInv, TypeOK
  <2> QED
    BY <1>2, <2>2, <2>3 DEF UnindexUser, TypeInv, TypeOK, WorkersOK, LoginsOK, RestoreOK
<1>3. CASE DeleteUser(w)
  <2>1. WorkersOK'
    BY <1>1, <1>3, FinishTypes, LogTypes DEF DeleteUser, TypeInv, People
  <2> DEFINE gone == [user[u] EXCEPT !.live = FALSE]
  <2>2. gone \in Accounts
    BY <1>1 DEF TypeInv, TypeOK, Accounts
  <2>3. /\ user' \in {user, [user EXCEPT ![u] = gone]}
        /\ torn' \in {torn, torn \cup {u}}
    BY <1>1, <1>3 DEF DeleteUser
  <2>4. user' \in [Users -> Accounts] /\ torn' \subseteq Users
    <3> HIDE DEF gone
    <3> QED
      BY <1>1, <2>2, <2>3 DEF TypeInv, TypeOK
  <2> QED
    BY <1>3, <2>1, <2>4 DEF DeleteUser, TypeInv, TypeOK, WorkersOK, LoginsOK, RestoreOK
<1> QED
  BY <1>2, <1>3

LEMMA TypesEntry ==
    ASSUME TypeInv, NEW w \in Workers, InsertEntry(w) \/ IndexEntry(w)
    PROVE  TypeInv'
<1> DEFINE r == req[w]
<1>1. r \in Req /\ r.log \in Logs /\ Fits(pc[w], r)
  BY DEF TypeInv, WorkersOK, Req
<1>2. CASE InsertEntry(w)
  <2>1. PICK i \in Entries : /\ entry' = [entry EXCEPT ![i] = r.log]
                             /\ Go(w, "indexEntry", [r EXCEPT !.entry = i])
    BY <1>2 DEF InsertEntry, Free
  <2> DEFINE q == [r EXCEPT !.entry = i]
  <2>2. q \in Req /\ q.log = r.log /\ q.entry = i
    BY <1>1 DEF Req
  <2>3. WorkersOK'
    <3> HIDE DEF q
    <3>1. Fits("indexEntry", q)
      BY <1>1, <1>2, <2>2 DEF Fits, Logging, Updating, InsertEntry
    <3>2. Go(w, "indexEntry", q)
      BY <2>1 DEF q
    <3> QED
      BY <2>2, <3>1, <3>2, GoTypes DEF TypeInv, Steps
  <2>4. entry' \in [Entries -> Logs]
    BY <1>1, <2>1 DEF TypeInv, TypeOK
  <2> QED
    BY <1>2, <2>3, <2>4 DEF InsertEntry, history, TypeInv, TypeOK, WorkersOK, LoginsOK, RestoreOK
<1>3. CASE IndexEntry(w)
  <2>1. r.entry \in Entries
    BY <1>1, <1>3 DEF IndexEntry, Fits
  <2>2. entryDoc' \in [Entries \cup People -> Logs]
    BY <1>1, <1>3, <2>1 DEF IndexEntry, TypeInv, TypeOK
  <2>3. WorkersOK'
    BY <1>3, FinishTypes DEF IndexEntry, TypeInv
  <2> QED
    BY <1>3, <2>2, <2>3 DEF IndexEntry, history, TypeInv, TypeOK, WorkersOK, LoginsOK, RestoreOK
<1> QED
  BY <1>2, <1>3

LEMMA TypesAbandon == ASSUME TypeInv, NEW ws \in SUBSET Workers, Abandon(ws) PROVE TypeInv'
<1>1. WorkersOK'
  <2>1. Fits("idle", NoReq)
    BY DEF Fits, Updating, Logging
  <2> QED
    BY <2>1, NoTypes DEF Abandon, TypeInv, WorkersOK, Steps
<1>2. torn' \subseteq Users
  BY DEF Abandon, TypeInv, TypeOK, WorkersOK, Fits, Halfway, Updating
<1>3. lost' \subseteq Users
  BY DEF Abandon, TypeInv, TypeOK, WorkersOK, Fits, Logging
<1> QED
  BY <1>1, <1>2, <1>3 DEF Abandon, stores, TypeInv, TypeOK, WorkersOK, LoginsOK, RestoreOK
\* What the requests that come in have in common.
Enters(w, step, r, steps) ==
    /\ Submit(w, step, r, steps)
    /\ Fits(step, r)
    /\ step \in {"writeInfo", "findUser", "findActor", "indexUser", "unindexUser"}
    /\ step = "writeInfo" => steps = {"writeInfo"} /\ r.last = info[r.of].current
    /\ step = "indexUser" => r.origin = user[r.of].details
    /\ IF step \in Updating
       THEN steps = Updating /\ restore' = [restore EXCEPT !.fresh = @ \ {r.of}]
       ELSE UNCHANGED restore

LEMMA SubmitEnters ==
    ASSUME TypeInv, NEW w \in Workers, SubmitAny(w)
    PROVE  \E step \in Steps, r \in Req, steps \in {{}, {"writeInfo"}, Updating} :
              Enters(w, step, r, steps)
<1>1. ASSUME NEW p \in LogIn, NEW ip \in IPs, SubmitLogin(w, p, ip)
      PROVE  \E r \in Req : Enters(w, "writeInfo", r, {"writeInfo"})
  <2> DEFINE last == info[p].current
             r == [NoReq EXCEPT !.of = p, !.ip = ip, !.last = last]
  <2>1. p \in People /\ last \in IPs \cup {NoIP}
    BY ActionLogAssumption DEF TypeInv, TypeOK, Infos
  <2>2. r \in Req /\ r.of = p /\ r.last = last
    BY <2>1, NoTypes DEF Req, NoReq
  <2>3. Submit(w, "writeInfo", r, {"writeInfo"}) /\ UNCHANGED restore
    BY <1>1 DEF SubmitLogin
  <2> HIDE DEF r
  <2> QED
    BY <2>1, <2>2, <2>3 DEF Enters, Fits, Updating, Logging
<1>2. ASSUME NEW p \in LogIn, SubmitLoginFail(w, p) \/ SubmitOther(w, p)
      PROVE  \E step \in {"findUser", "findActor"}, r \in Req : Enters(w, step, r, {})
  <2> DEFINE r == [NoReq EXCEPT !.of = p]
  <2>1. r \in Req /\ r.of \in People
    BY ActionLogAssumption, NoTypes DEF Req, NoReq
  <2>2. PICK step \in {"findUser", "findActor"} : Submit(w, step, r, {}) /\ UNCHANGED restore
    BY <1>2 DEF SubmitLoginFail, SubmitOther
  <2> HIDE DEF r
  <2> QED
    BY <2>1, <2>2 DEF Enters, Fits, Updating, Logging
<1>3. ASSUME NEW u \in Users, NEW by \in People, NEW asked \in Asks, SubmitUpdate(w, by, u, asked)
      PROVE  \E r \in Req : Enters(w, "indexUser", r, Updating)
  <2> DEFINE log == [NoLog EXCEPT !.of = u, !.act = "modify", !.asked = asked]
             details == user[u].details
             r == [NoReq EXCEPT !.of = u, !.origin = details, !.log = log]
  <2>1. details \in Changes /\ asked \in Changes
    BY ActionLogAssumption DEF TypeInv, TypeOK, Accounts, Changes
  <2>2. log \in Logs /\ log.of = u /\ log.act = "modify"
    BY <2>1, NoTypes DEF Logs, NoLog, People
  <2> HIDE DEF log
  <2>3. r \in Req /\ r.of = u /\ r.log = log /\ r.origin = details
    BY <2>1, <2>2, NoTypes DEF Req, NoReq, People
  <2>4. Submit(w, "indexUser", r, Updating) /\ restore' = [restore EXCEPT !.fresh = @ \ {u}]
    BY <1>3 DEF SubmitUpdate, log
  <2> HIDE DEF r
  <2> QED
    BY <2>2, <2>3, <2>4 DEF Enters, Fits, Updating, Logging
<1>4. ASSUME NEW u \in Users, NEW a \in Admins, SubmitDelete(w, a, u)
      PROVE  \E r \in Req : Enters(w, "unindexUser", r, Updating)
  <2> DEFINE log == [NoLog EXCEPT !.of = a, !.act = "delete"]
             r == [NoReq EXCEPT !.of = u, !.log = log]
  <2>1. log \in Logs /\ log.of = a /\ log.act = "delete" /\ log.new = NoChange
    BY NoTypes DEF Logs, NoLog, People
  <2> HIDE DEF log
  <2>2. r \in Req /\ r.of = u /\ r.log = log
    BY <2>1, NoTypes DEF Req, NoReq, People
  <2>3. Submit(w, "unindexUser", r, Updating) /\ restore' = [restore EXCEPT !.fresh = @ \ {u}]
    BY <1>4 DEF SubmitDelete, log
  <2> HIDE DEF r
  <2> QED
    BY <2>1, <2>2, <2>3 DEF Enters, Fits, Updating, Logging
<1>5. {"writeInfo", "findUser", "findActor", "indexUser", "unindexUser"} \subseteq Steps
  BY DEF Steps
<1> QED
  BY <1>1, <1>2, <1>3, <1>4, <1>5 DEF SubmitAny

LEMMA TypesSubmit == ASSUME TypeInv, NEW w \in Workers, SubmitAny(w) PROVE TypeInv'
<1>1. PICK step \in Steps, r \in Req, steps \in {{}, {"writeInfo"}, Updating} :
         Enters(w, step, r, steps)
  BY SubmitEnters
<1>2. WorkersOK' /\ UNCHANGED <<stores, history>>
  BY <1>1, SubmitTypes DEF Enters
<1>3. restore' \in {restore, [restore EXCEPT !.fresh = @ \ {r.of}]}
  BY <1>1 DEF Enters
<1>4. RestoreOK'
  BY <1>3 DEF TypeInv, RestoreOK, Restores
<1> QED
  BY <1>2, <1>4 DEF stores, history, TypeInv, TypeOK, WorkersOK, LoginsOK

LEMMA TypesRestore == ASSUME TypeInv, Restore PROVE TypeInv'
<1> USE DEF TypeInv, TypeOK, WorkersOK, LoginsOK, RestoreOK
<1>1. CASE RestoreUsers
  <2> DEFINE live == {u \in Users : user[u].live}
             fresh == {u \in live : Undisturbed(u)}
             read == [u \in Users |-> IF u \in live THEN Doc(user[u].details) ELSE NoDoc]
  <2>1. \A u \in Users : Doc(user[u].details) \in Docs
    BY DocTypes DEF Accounts, Changes
  <2>2. read \in [Users -> Docs]
    BY <2>1, NoTypes
  <2>3. restore' = [NoRestore EXCEPT !.step = "users", !.users = live, !.read = read, !.fresh = fresh]
    BY <1>1 DEF RestoreUsers
  <2>4. live \subseteq Users /\ fresh \subseteq Users
    OBVIOUS
  <2> HIDE DEF live, fresh, read
  <2>5. restore' \in Restores
    BY <2>2, <2>3, <2>4, NoTypes DEF Restores, NoRestore
  <2> QED
    BY <1>1, <2>5 DEF RestoreUsers, stores, history
<1>2. CASE RestoreUserActions \/ RestoreEnd
  <2>1. restore' \in Restores
    BY <1>2, NoTypes DEF RestoreUserActions, RestoreEnd, Restores, NoRestore
  <2> QED
    BY <1>2, <2>1 DEF RestoreUserActions, RestoreEnd, stores, history
<1>3. ASSUME NEW u \in Users, RestoreUser(u) PROVE TypeInv'
  <2>1. restore' \in Restores
    BY <1>3, NoTypes DEF RestoreUser, Restores
  <2>2. userDoc' \in [Users -> Docs] /\ torn' \subseteq Users
    BY <1>3 DEF RestoreUser, Restores
  <2> QED
    BY <1>3, <2>1, <2>2 DEF RestoreUser
<1>4. ASSUME NEW i \in Entries, RestoreUserAction(i) PROVE TypeInv'
  <2> DEFINE p == entry[i].of
             log == entry[i]
  <2>1. log \in Logs /\ entryDoc' = [entryDoc EXCEPT ![p] = log]
    BY <1>4 DEF RestoreUserAction
  <2> HIDE DEF p, log, TypeInv, TypeOK, WorkersOK, LoginsOK, RestoreOK
  <2>2. entryDoc \in [Entries \cup People -> Logs]
    BY DEF TypeInv, TypeOK
  <2>3. entryDoc' \in [Entries \cup People -> Logs]
    BY <2>1, <2>2
  <2> QED
    BY <1>4, <2>3 DEF RestoreUserAction, history, TypeInv, TypeOK, WorkersOK, LoginsOK, RestoreOK
<1> QED
  BY <1>1, <1>2, <1>3, <1>4 DEF Restore

LEMMA TypesStep == ASSUME TypeInv, [Next]_vars PROVE TypeInv'
<1>1. CASE UNCHANGED vars
  BY <1>1 DEF vars, stores, history, TypeInv, TypeOK, WorkersOK, LoginsOK, RestoreOK
<1>2. ASSUME NEW w \in Workers, SubmitAny(w) \/ Work(w) \/ Fail(w) \/ InsertFails(w) PROVE TypeInv'
  BY <1>2, TypesSubmit, TypesLogin, TypesFind, TypesUpdate, TypesDelete, TypesEntry, TypesAbandon
  DEF Work, Fail, InsertFails
<1>3. CASE Restore
  BY <1>3, TypesRestore
<1> QED
  BY <1>1, <1>2, <1>3 DEF Next

\* Every reachable state is well typed.
THEOREM TypeCorrect == Spec => []TypeOK
<1>1. TypeInv => TypeOK
  BY DEF TypeInv
<1> QED
  BY <1>1, TypesInit, TypesStep, PTL DEF Spec
\* What a request that comes in changes for the others, and what it holds itself.
Joins(w, step, r, steps) ==
    /\ pc[w] = "idle" /\ pc'[w] = step
    /\ req'[w] \in {[r EXCEPT !.met = FALSE], [r EXCEPT !.met = TRUE]}
    /\ \A v \in Workers \ {w} :
          /\ pc'[v] = pc[v]
          /\ req'[v] \in {req[v], [req[v] EXCEPT !.met = TRUE]}
          /\ req[v].of = r.of /\ pc[v] \in steps => req'[v].met /\ req'[w].met

LEMMA SubmitJoins ==
    ASSUME TypeInv, NEW w \in Workers, NEW step, NEW r \in Req, NEW steps, Submit(w, step, r, steps)
    PROVE  Joins(w, step, r, steps)
<1> DEFINE rivals == {v \in Workers : req[v].of = r.of /\ pc[v] \in steps}
<1>1. pc[w] = "idle" /\ pc'[w] = step
  BY DEF Submit, TypeInv, WorkersOK
<1>2. req'[w] = [r EXCEPT !.met = rivals # {}]
  BY DEF Submit
<1>3. ASSUME NEW v \in Workers \ {w}
      PROVE  pc'[v] = pc[v] /\ req'[v] = IF v \in rivals THEN [req[v] EXCEPT !.met = TRUE] ELSE req[v]
  BY DEF Submit, TypeInv, WorkersOK
<1>4. \A v \in Workers : req[v] \in Req
  BY DEF TypeInv, WorkersOK
<1>5. req'[w] \in {[r EXCEPT !.met = FALSE], [r EXCEPT !.met = TRUE]}
  BY <1>2
<1>6. ASSUME NEW v \in Workers \ {w}, v \in rivals PROVE req'[v].met /\ req'[w].met
  <2>1. (rivals # {}) = TRUE
    BY <1>6
  <2>2. req'[w] = [r EXCEPT !.met = TRUE] /\ req'[v] = [req[v] EXCEPT !.met = TRUE]
    BY <1>2, <1>3, <1>6, <2>1
  <2> QED
    BY <1>4, <2>2 DEF Req
<1>7. ASSUME NEW v \in Workers \ {w}
      PROVE  /\ pc'[v] = pc[v]
             /\ req'[v] \in {req[v], [req[v] EXCEPT !.met = TRUE]}
             /\ req[v].of = r.of /\ pc[v] \in steps => req'[v].met /\ req'[w].met
  BY <1>3, <1>6
<1> QED
  BY <1>1, <1>5, <1>7 DEF Joins

(***************************************************************************)
(* The index of the log.                                                   *)
(***************************************************************************)

\* A document of the index was logged, under the id of the entry or of the person.
DocBacked(d) == \/ entryDoc[d] = NoLog
                \/ d \in Entries /\ entryDoc[d] = entry[d]
                \/ \E i \in Entries : entryDoc[d] = entry[i] /\ entry[i].of = d

\* A worker indexes the entry it has inserted.
Inserted(w) == pc[w] = "indexEntry" => entry[req[w].entry] = req[w].log

LogInv == /\ \A d \in Entries \cup People : DocBacked(d)
          /\ \A w \in Workers : Inserted(w)

\* A step that leaves entries and documents alone, and sends no worker to index.
LEMMA LogAside ==
    ASSUME TypeInv, LogInv, UNCHANGED <<entry, entryDoc>>,
           \A w \in Workers : pc'[w] = "indexEntry" =>
                                 pc[w] = "indexEntry" /\ req'[w].entry = req[w].entry
                                                      /\ req'[w].log = req[w].log
    PROVE  LogInv'
BY DEF LogInv, DocBacked, Inserted

LEMMA LogGo ==
    ASSUME TypeInv, LogInv, UNCHANGED <<entry, entryDoc>>, NEW w \in Workers, NEW step, NEW r,
           Go(w, step, r), step # "indexEntry"
    PROVE  LogInv'
BY LogAside DEF Go, TypeInv, WorkersOK

LEMMA LogSubmit ==
    ASSUME TypeInv, LogInv, NEW w \in Workers, SubmitAny(w)
    PROVE  LogInv'
<1>1. PICK step \in Steps, r \in Req, steps \in {{}, {"writeInfo"}, Updating} :
         Enters(w, step, r, steps)
  BY SubmitEnters
<1>2. step # "indexEntry" /\ Joins(w, step, r, steps) /\ UNCHANGED stores
  BY <1>1, SubmitJoins DEF Enters, Submit
<1>3. ASSUME NEW v \in Workers, pc'[v] = "indexEntry"
      PROVE  pc[v] = "indexEntry" /\ req'[v].entry = req[v].entry /\ req'[v].log = req[v].log
  <2>1. pc[v] = "indexEntry" /\ req'[v] \in {req[v], [req[v] EXCEPT !.met = TRUE]} /\ req[v] \in Req
    BY <1>2, <1>3 DEF Joins, TypeInv, WorkersOK
  <2> QED
    BY <2>1 DEF Req
<1> QED
  BY <1>2, <1>3, LogAside DEF stores

LEMMA LogInsert == ASSUME TypeInv, LogInv, NEW w \in Workers, InsertEntry(w) PROVE LogInv'
<1> DEFINE r == req[w]
<1>1. PICK i \in Free : /\ entry' = [entry EXCEPT ![i] = r.log]
                        /\ Go(w, "indexEntry", [r EXCEPT !.entry = i])
  BY DEF InsertEntry
<1>2. i \in Entries /\ entry[i] = NoLog /\ entryDoc' = entryDoc
  BY <1>1 DEF Free, InsertEntry
<1>3. /\ entry'[i] = r.log
      /\ \A j \in Entries \ {i} : entry'[j] = entry[j]
  BY <1>1, <1>2 DEF TypeInv, TypeOK
<1>4. ASSUME NEW d \in Entries \cup People PROVE DocBacked(d)'
  BY <1>2, <1>3 DEF LogInv, DocBacked
<1>5. ASSUME NEW v \in Workers PROVE Inserted(v)'
  <2>1. CASE v = w
    <3> DEFINE q == [r EXCEPT !.entry = i]
    <3>1. q.entry = i /\ q.log = r.log
      BY DEF TypeInv, WorkersOK, Req
    <3>2. req'[w] = q
      BY <1>1 DEF Go, TypeInv, WorkersOK
    <3> HIDE DEF q
    <3> QED
      BY <1>3, <2>1, <3>1, <3>2 DEF Inserted
  <2>2. CASE v # w /\ pc[v] = "indexEntry"
    <3>1. pc'[v] = pc[v] /\ req'[v] = req[v]
      BY <1>1, <2>2 DEF Go, TypeInv, WorkersOK
    <3>2. req[v].entry \in Entries /\ req[v].log.act # "none" /\ req[v].log = entry[req[v].entry]
      BY <2>2 DEF TypeInv, WorkersOK, Fits, Logging, LogInv, Inserted
    <3>3. req[v].entry # i
      BY <1>2, <3>2 DEF NoLog
    <3> QED
      BY <1>3, <3>1, <3>2, <3>3 DEF Inserted
  <2>3. CASE v # w /\ pc[v] # "indexEntry"
    BY <1>1, <2>3 DEF Go, Inserted, TypeInv, WorkersOK
  <2> QED
    BY <2>1, <2>2, <2>3
<1> QED
  BY <1>4, <1>5 DEF LogInv

LEMMA LogIndex == ASSUME TypeInv, LogInv, NEW w \in Workers, IndexEntry(w) PROVE LogInv'
<1> DEFINE i == req[w].entry
<1>1. i \in Entries /\ entry[i] = req[w].log
  BY DEF IndexEntry, LogInv, Inserted, TypeInv, WorkersOK, Fits, Logging
<1>2. /\ entryDoc'[i] = entry[i]
      /\ \A d \in (Entries \cup People) \ {i} : entryDoc'[d] = entryDoc[d]
      /\ entry' = entry
  BY <1>1 DEF IndexEntry, TypeInv, TypeOK
<1>3. \A d \in Entries \cup People : DocBacked(d)'
  BY <1>1, <1>2 DEF LogInv, DocBacked
<1>4. \A v \in Workers : Inserted(v)'
  BY <1>2 DEF IndexEntry, Finish, Go, LogInv, Inserted, TypeInv, WorkersOK
<1> QED
  BY <1>3, <1>4 DEF LogInv

LEMMA LogRestore == ASSUME TypeInv, LogInv, Restore PROVE LogInv'
<1>1. ASSUME NEW i \in Entries, RestoreUserAction(i) PROVE LogInv'
  <2> DEFINE p == entry[i].of
             log == entry[i]
  <2>1. /\ p \in People \cup {NoOne}
        /\ entryDoc' = [entryDoc EXCEPT ![p] = log]
        /\ UNCHANGED <<entry, pc, req>>
    BY <1>1 DEF RestoreUserAction, TypeInv, TypeOK, Logs
  <2>2. \A d \in Entries \cup People :
           entryDoc'[d] = IF d = p THEN log ELSE entryDoc[d]
    BY <2>1 DEF TypeInv, TypeOK
  <2>3. \A d \in Entries \cup People : DocBacked(d)'
    BY <2>1, <2>2 DEF LogInv, DocBacked
  <2> QED
    BY <2>1, <2>3 DEF LogInv, Inserted
<1>2. CASE RestoreUsers \/ RestoreUserActions \/ RestoreEnd \/ \E u \in Users : RestoreUser(u)
  BY <1>2, LogAside DEF RestoreUsers, RestoreUserActions, RestoreEnd, RestoreUser, stores
<1> QED
  BY <1>1, <1>2 DEF Restore

LEMMA LogStep == ASSUME TypeInv, LogInv, [Next]_vars PROVE LogInv'
<1>1. CASE UNCHANGED vars
  BY <1>1, LogAside DEF vars, stores
<1>2. ASSUME NEW w \in Workers, Work(w) PROVE LogInv'
  <2>1. CASE RecordLogin(w) \/ FindUser(w) \/ FindActor(w)
    BY <2>1, LogGo DEF RecordLogin, FindUser, FindActor, Log, Finish, stores
  <2>2. CASE IndexUser(w) \/ WriteUser(w)
    BY <2>2, LogGo DEF IndexUser, WriteUser, Log, Finish
  <2>3. CASE UnindexUser(w) \/ DeleteUser(w)
    BY <2>3, LogGo DEF UnindexUser, DeleteUser, Log, Finish
  <2> QED
    BY <1>2, <2>1, <2>2, <2>3, LogInsert, LogIndex DEF Work
<1>3. ASSUME NEW ws \in SUBSET Workers, Abandon(ws) PROVE LogInv'
  BY <1>3, LogAside DEF Abandon, stores
<1> QED
  BY <1>1, <1>2, <1>3, LogSubmit, LogRestore DEF Next, Fail, InsertFails

\* Whatever requests, failures and restores interleave, what the index of the log
\* shows was logged, under the id of the entry or of the person it is about.
THEOREM LogTrue == Spec => []LogBacked
<1>1. Init => LogInv
  BY DEF Init, LogInv, DocBacked, Inserted
<1>2. TypeInv /\ LogInv => LogBacked
  BY DEF TypeInv, TypeOK, LogInv, DocBacked, LogBacked
<1> QED
  BY <1>1, <1>2, TypesInit, TypesStep, LogStep, PTL DEF Spec
(***************************************************************************)
(* Requests that meet.                                                     *)
(***************************************************************************)
Meeting(v, w) == /\ v # w /\ req[v].of = req[w].of
                 /\ \/ pc[v] \in Updating /\ pc[w] \in Updating
                    \/ pc[v] = "writeInfo" /\ pc[w] = "writeInfo"

RivalsKnown == \A v, w \in Workers : Meeting(v, w) => req[v].met

\* A worker that is still updating or logging in holds what it held.
Stays(v) == pc'[v] \in Updating \cup {"writeInfo"} =>
               /\ req'[v] = req[v]
               /\ \/ pc'[v] = pc[v]
                  \/ pc[v] = "indexUser" /\ pc'[v] = "writeUser"
                  \/ pc[v] = "unindexUser" /\ pc'[v] = "deleteUser"

LEMMA GoStays ==
    ASSUME TypeInv, NEW w \in Workers, NEW step, NEW r, Go(w, step, r),
           \/ step \notin Updating \cup {"writeInfo"}
           \/ r = req[w] /\ step = "writeUser" /\ pc[w] = "indexUser"
           \/ r = req[w] /\ step = "deleteUser" /\ pc[w] = "unindexUser"
    PROVE  \A v \in Workers : Stays(v)
BY DEF Go, Stays, TypeInv, WorkersOK

LEMMA WorkStays == ASSUME TypeInv, NEW w \in Workers, Work(w) PROVE \A v \in Workers : Stays(v)
<1> USE DEF Updating
<1>1. CASE RecordLogin(w) \/ FindUser(w) \/ FindActor(w)
  BY <1>1, GoStays DEF RecordLogin, FindUser, FindActor, Log, Finish
<1>2. CASE IndexUser(w) \/ WriteUser(w)
  BY <1>2, GoStays DEF IndexUser, WriteUser, Log, Finish
<1>3. CASE UnindexUser(w) \/ DeleteUser(w)
  BY <1>3, GoStays DEF UnindexUser, DeleteUser, Log, Finish
<1>4. CASE InsertEntry(w) \/ IndexEntry(w)
  BY <1>4, GoStays DEF InsertEntry, IndexEntry, Finish
<1> QED
  BY <1>1, <1>2, <1>3, <1>4 DEF Work

LEMMA AbandonStays == ASSUME NEW ws \in SUBSET Workers, Abandon(ws) PROVE \A v \in Workers : Stays(v)
BY DEF Abandon, Stays, Updating

LEMMA RestoreStays == ASSUME Restore PROVE \A v \in Workers : Stays(v)
BY DEF Restore, RestoreUsers, RestoreUserActions, RestoreEnd, RestoreUser, RestoreUserAction, Stays

LEMMA RivalsStay ==
    ASSUME RivalsKnown, \A v \in Workers : Stays(v)
    PROVE  RivalsKnown'
<1> SUFFICES ASSUME NEW v \in Workers, NEW w \in Workers, Meeting(v, w)' PROVE req'[v].met
  BY DEF RivalsKnown
<1>1. Meeting(v, w) /\ req'[v] = req[v]
  BY DEF Meeting, Stays, Updating
<1> QED
  BY <1>1 DEF RivalsKnown

LEMMA RivalsSubmit == ASSUME TypeInv, RivalsKnown, NEW w \in Workers, SubmitAny(w) PROVE RivalsKnown'
<1>1. PICK step \in Steps, r \in Req, steps \in {{}, {"writeInfo"}, Updating} :
         Enters(w, step, r, steps)
  BY SubmitEnters
<1>2. Joins(w, step, r, steps)
  BY <1>1, SubmitJoins DEF Enters
<1>3. req'[w].of = r.of
  BY <1>2 DEF Joins, Req
<1>4. ASSUME NEW v \in Workers \ {w}
      PROVE  pc'[v] = pc[v] /\ req'[v].of = req[v].of /\ (req[v].met => req'[v].met)
  <2>1. pc'[v] = pc[v] /\ req'[v] \in {req[v], [req[v] EXCEPT !.met = TRUE]} /\ req[v] \in Req
    BY <1>2 DEF Joins, TypeInv, WorkersOK
  <2> QED
    BY <2>1 DEF Req
<1>5. ASSUME NEW v \in Workers \ {w}, Meeting(v, w)' \/ Meeting(w, v)' PROVE req'[v].met /\ req'[w].met
  <2>1. pc[v] \in steps /\ req[v].of = r.of
    BY <1>1, <1>2, <1>3, <1>4, <1>5 DEF Meeting, Enters, Joins, Updating
  <2> QED
    BY <1>2, <2>1 DEF Joins
<1>6. ASSUME NEW v \in Workers \ {w}, NEW x \in Workers \ {w}, Meeting(v, x)' PROVE req'[v].met
  BY <1>4, <1>6 DEF Meeting, RivalsKnown
<1> QED
  BY <1>5, <1>6 DEF RivalsKnown, Meeting

LEMMA RivalsStep == ASSUME TypeInv, RivalsKnown, [Next]_vars PROVE RivalsKnown'
<1>1. CASE UNCHANGED vars
  BY <1>1 DEF vars, RivalsKnown, Meeting
<1>2. ASSUME NEW w \in Workers, SubmitAny(w) PROVE RivalsKnown'
  BY <1>2, RivalsSubmit
<1>3. ASSUME NEW w \in Workers, Work(w) PROVE RivalsKnown'
  BY <1>3, WorkStays, RivalsStay
<1>4. CASE Restore
  BY <1>4, RestoreStays, RivalsStay
<1>5. ASSUME NEW ws \in SUBSET Workers, Abandon(ws) PROVE RivalsKnown'
  BY <1>5, AbandonStays, RivalsStay
<1> QED
  BY <1>1, <1>2, <1>3, <1>4, <1>5 DEF Next, Fail, InsertFails

(***************************************************************************)
(* The last login.                                                         *)
(***************************************************************************)
LoginKept(p) == /\ logins[p].current = info[p].current
                /\ ~logins[p].met => info[p].last = logins[p].last

\* What was read before the login is written is still so, unless another login met it.
LastRead(w) == pc[w] = "writeInfo" /\ ~req[w].met => req[w].last = info[req[w].of].current

LoginInv == /\ \A p \in People : LoginKept(p)
            /\ \A w \in Workers : LastRead(w)

LEMMA LoginAside ==
    ASSUME LoginInv, UNCHANGED <<info, logins>>, \A v \in Workers : Stays(v)
    PROVE  LoginInv'
BY DEF LoginInv, LoginKept, LastRead, Stays, Updating

LEMMA LoginSubmit == ASSUME TypeInv, LoginInv, NEW w \in Workers, SubmitAny(w) PROVE LoginInv'
<1>1. PICK step \in Steps, r \in Req, steps \in {{}, {"writeInfo"}, Updating} :
         Enters(w, step, r, steps)
  BY SubmitEnters
<1>2. Joins(w, step, r, steps) /\ UNCHANGED <<info, logins>>
  BY <1>1, SubmitJoins DEF Enters, Submit, stores, history
<1>3. LastRead(w)'
  <2>1. req'[w].of = r.of /\ req'[w].last = r.last
    BY <1>2 DEF Joins, Req
  <2> QED
    BY <1>1, <1>2, <2>1 DEF Enters, Joins, LastRead
<1>4. ASSUME NEW v \in Workers \ {w} PROVE LastRead(v)'
  <2>1. pc'[v] = pc[v] /\ req'[v] \in {req[v], [req[v] EXCEPT !.met = TRUE]} /\ req[v] \in Req
    BY <1>2 DEF Joins, TypeInv, WorkersOK
  <2>2. req'[v].of = req[v].of /\ req'[v].last = req[v].last /\ (req[v].met => req'[v].met)
    BY <2>1 DEF Req
  <2> QED
    BY <1>2, <2>1, <2>2 DEF LoginInv, LastRead
<1> QED
  BY <1>2, <1>3, <1>4 DEF LoginInv, LoginKept

LEMMA LoginRecord ==
    ASSUME TypeInv, RivalsKnown, LoginInv, NEW w \in Workers, RecordLogin(w)
    PROVE  LoginInv'
<1> DEFINE r == req[w]
           was == logins[r.of].current
           new == [current |-> r.ip, last |-> r.last]
           seen == [current |-> r.ip, last |-> was, met |-> r.met]
<1>1. r \in Req /\ r.of \in People /\ pc[w] = "writeInfo" /\ pc'[w] # "writeInfo"
  BY DEF TypeInv, WorkersOK, Fits, RecordLogin, Log, Go
<1>2. \A v \in Workers : Stays(v)
  BY WorkStays DEF Work
<1>3. \/ info' = [info EXCEPT ![r.of] = new] /\ logins' = [logins EXCEPT ![r.of] = seen]
      \/ UNCHANGED <<info, logins>>
  BY <1>1 DEF RecordLogin
<1>4. CASE UNCHANGED <<info, logins>>
  BY <1>2, <1>4, LoginAside
<1>5. CASE info' = [info EXCEPT ![r.of] = new] /\ logins' = [logins EXCEPT ![r.of] = seen]
  <2>1. /\ info'[r.of] = new /\ logins'[r.of] = seen
        /\ \A p \in People \ {r.of} : info'[p] = info[p] /\ logins'[p] = logins[p]
    BY <1>1, <1>5 DEF TypeInv, TypeOK, LoginsOK
  <2>2. ASSUME NEW p \in People, p = r.of PROVE LoginKept(p)'
    <3>1. ~r.met => r.last = info[r.of].current
      BY <1>1 DEF LoginInv, LastRead
    <3>2. was = info[r.of].current
      BY <1>1 DEF LoginInv, LoginKept
    <3> QED
      BY <2>1, <2>2, <3>1, <3>2 DEF LoginKept
  <2>3. ASSUME NEW p \in People, p # r.of PROVE LoginKept(p)'
    BY <2>1, <2>3 DEF LoginInv, LoginKept
  <2>4. ASSUME NEW v \in Workers PROVE LastRead(v)'
    <3> SUFFICES ASSUME pc'[v] = "writeInfo" PROVE LastRead(v)'
      BY DEF LastRead
    <3>1. v # w /\ pc[v] = "writeInfo" /\ req'[v] = req[v]
      BY <1>1, <1>2 DEF Stays, Updating
    <3>2. CASE req[v].of = r.of
      BY <1>1, <3>1, <3>2 DEF RivalsKnown, Meeting, LastRead
    <3>3. CASE req[v].of # r.of
      <4>1. req[v].of \in People
        BY <3>1 DEF TypeInv, WorkersOK, Fits
      <4> QED
        BY <2>1, <3>1, <3>3, <4>1 DEF LoginInv, LastRead
    <3> QED
      BY <3>2, <3>3
  <2> QED
    BY <2>2, <2>3, <2>4 DEF LoginInv
<1> QED
  BY <1>3, <1>4, <1>5

LEMMA LoginStep == ASSUME TypeInv, RivalsKnown, LoginInv, [Next]_vars PROVE LoginInv'
<1>1. CASE UNCHANGED vars
  BY <1>1 DEF vars, stores, history, LoginInv, LoginKept, LastRead
<1>2. ASSUME NEW w \in Workers, Work(w) PROVE LoginInv'
  <2>1. CASE RecordLogin(w)
    BY <2>1, LoginRecord
  <2>2. CASE ~RecordLogin(w)
    <3>1. UNCHANGED <<info, logins>>
      BY <1>2, <2>2 DEF Work, FindUser, FindActor, IndexUser, WriteUser, UnindexUser, DeleteUser,
                        InsertEntry, IndexEntry, stores, history
    <3> QED
      BY <1>2, <3>1, WorkStays, LoginAside
  <2> QED
    BY <2>1, <2>2
<1>3. CASE Restore
  <2>1. UNCHANGED <<info, logins>>
    BY <1>3 DEF Restore, RestoreUsers, RestoreUserActions, RestoreEnd, RestoreUser,
                RestoreUserAction, stores, history
  <2> QED
    BY <1>3, <2>1, RestoreStays, LoginAside
<1>4. ASSUME NEW ws \in SUBSET Workers, Abandon(ws) PROVE LoginInv'
  BY <1>4, AbandonStays, LoginAside DEF Abandon, stores
<1> QED
  BY <1>1, <1>2, <1>3, <1>4, LoginSubmit DEF Next, Fail, InsertFails

\* A login always reports the login before it, however logins fail or stop, unless
\* two logins of the person met.
THEOREM LastLoginKept == Spec => []LastLoginTrue
<1>1. Init => LoginInv /\ RivalsKnown
  BY DEF Init, LoginInv, LoginKept, LastRead, RivalsKnown, Meeting, Updating
<1>2. LoginInv => LastLoginTrue
  BY DEF LoginInv, LoginKept, LastLoginTrue
<1> QED
  BY <1>1, <1>2, TypesInit, TypesStep, RivalsStep, LoginStep, PTL DEF Spec

(***************************************************************************)
(* Whom the log blames.                                                    *)
(***************************************************************************)
Honest(log) == log.met \/ \A f \in Fields : log.new[f] \in {Blank, log.asked[f]}

\* What was read before the update is still so, unless another request met it.
OriginRead(w) == pc[w] \in {"indexUser", "writeUser"} /\ ~req[w].met =>
                    req[w].origin = user[req[w].of].details

HonestInv == /\ \A i \in Entries : Honest(entry[i])
             /\ \A w \in Workers : /\ pc[w] \in Logging => Honest(req[w].log)
                                   /\ OriginRead(w)

LEMMA BareHonest == \A log \in Logs : log.new = NoChange => Honest(log)
BY DEF Honest, NoChange

LEMMA OthersStay ==
    ASSUME TypeInv, NEW w \in Workers, Work(w)
    PROVE  \A v \in Workers \ {w} : pc'[v] = pc[v] /\ req'[v] = req[v]
<1>1. ASSUME NEW step, NEW r, Go(w, step, r)
      PROVE  \A v \in Workers \ {w} : pc'[v] = pc[v] /\ req'[v] = req[v]
  BY <1>1 DEF Go, TypeInv, WorkersOK
<1>2. CASE RecordLogin(w) \/ FindUser(w) \/ FindActor(w)
  BY <1>1, <1>2 DEF RecordLogin, FindUser, FindActor, Log, Finish
<1>3. CASE IndexUser(w) \/ WriteUser(w)
  BY <1>1, <1>3 DEF IndexUser, WriteUser, Log, Finish
<1>4. CASE UnindexUser(w) \/ DeleteUser(w)
  BY <1>1, <1>4 DEF UnindexUser, DeleteUser, Log, Finish
<1>5. CASE InsertEntry(w) \/ IndexEntry(w)
  BY <1>1, <1>5 DEF InsertEntry, IndexEntry, Finish
<1> QED
  BY <1>2, <1>3, <1>4, <1>5 DEF Work

\* A step that changes no details and adds no entry.
LEMMA HonestAside ==
    ASSUME TypeInv, HonestInv, UNCHANGED entry, \A v \in Workers : Stays(v),
           \A u \in Users : user'[u].details = user[u].details,
           \A v \in Workers : pc'[v] \in Logging => Honest(req'[v].log)
    PROVE  HonestInv'
<1>1. ASSUME NEW v \in Workers PROVE OriginRead(v)'
  <2> SUFFICES ASSUME pc'[v] \in {"indexUser", "writeUser"}, ~req'[v].met
               PROVE  req'[v].origin = user'[req'[v].of].details
    BY DEF OriginRead
  <2>1. req'[v] = req[v] /\ pc[v] \in {"indexUser", "writeUser"}
    BY DEF Stays, Updating
  <2>2. req[v].of \in Users
    BY <2>1 DEF TypeInv, WorkersOK, Fits, Updating
  <2> QED
    BY <2>1, <2>2 DEF HonestInv, OriginRead
<1>2. \A v \in Workers : (pc[v] \in Logging => Honest(req[v].log))'
  BY DEF Honest
<1>3. \A i \in Entries : Honest(entry[i])'
  BY DEF HonestInv, Honest
<1> QED
  BY <1>1, <1>2, <1>3 DEF HonestInv

LEMMA HonestSubmit == ASSUME TypeInv, HonestInv, NEW w \in Workers, SubmitAny(w) PROVE HonestInv'
<1>1. PICK step \in Steps, r \in Req, steps \in {{}, {"writeInfo"}, Updating} :
         Enters(w, step, r, steps)
  BY SubmitEnters
<1>2. Joins(w, step, r, steps) /\ UNCHANGED <<user, entry>>
  BY <1>1, SubmitJoins DEF Enters, Submit, stores
<1>3. OriginRead(w)' /\ pc'[w] \notin Logging
  <2>1. req'[w].of = r.of /\ req'[w].origin = r.origin
    BY <1>2 DEF Joins, Req
  <2> QED
    BY <1>1, <1>2, <2>1 DEF Enters, Joins, OriginRead, Logging
<1>4. ASSUME NEW v \in Workers \ {w}
      PROVE  OriginRead(v)' /\ (pc'[v] \in Logging => Honest(req'[v].log))
  <2>1. pc'[v] = pc[v] /\ req'[v] \in {req[v], [req[v] EXCEPT !.met = TRUE]} /\ req[v] \in Req
    BY <1>2 DEF Joins, TypeInv, WorkersOK
  <2>2. /\ req'[v].of = req[v].of /\ req'[v].origin = req[v].origin /\ req'[v].log = req[v].log
        /\ req[v].met => req'[v].met
    BY <2>1 DEF Req
  <2> QED
    BY <1>2, <2>1, <2>2 DEF HonestInv, OriginRead
<1>5. ASSUME NEW v \in Workers PROVE OriginRead(v)' /\ (pc[v] \in Logging => Honest(req[v].log))'
  BY <1>3, <1>4 DEF Honest
<1> QED
  BY <1>2, <1>5 DEF HonestInv, Honest

LEMMA HonestWrite ==
    ASSUME TypeInv, RivalsKnown, HonestInv, NEW w \in Workers, WriteUser(w)
    PROVE  HonestInv'
<1> DEFINE r == req[w]
           asked == r.log.asked
<1> PICK u \in Users : u = r.of
  BY DEF WriteUser, TypeInv, WorkersOK, Fits, Updating
<1> DEFINE updated == [f \in Fields |-> IF asked[f] = Blank THEN user[u].details[f] ELSE asked[f]]
           diff == CheckFieldDiff(r.origin, updated)
           log == [r.log EXCEPT !.new = diff, !.met = r.met]
<1>1. r \in Req /\ r.log \in Logs /\ pc[w] = "writeUser" /\ UNCHANGED entry
  BY DEF WriteUser, TypeInv, WorkersOK, Req
<1>2. log.new = diff /\ log.met = r.met /\ log.asked = asked
  BY <1>1 DEF Logs
<1>3. \A v \in Workers : Stays(v)
  BY WorkStays DEF Work
<1>4. Honest(log)
  <2>1. CASE ~r.met
    <3>1. r.origin = user[u].details
      BY <1>1, <2>1 DEF HonestInv, OriginRead
    <3>2. ASSUME NEW f \in Fields PROVE diff[f] \in {Blank, asked[f]}
      BY <3>1 DEF CheckFieldDiff
    <3> QED
      BY <1>2, <3>2 DEF Honest
  <2>2. CASE r.met
    BY <1>2, <2>2 DEF Honest
  <2> QED
    BY <2>1, <2>2
<1>5. pc'[w] \in Logging => req'[w].log = log
  <2> HIDE DEF updated, log
  <2>1. Finish(w) \/ Log(w, log)
    BY DEF WriteUser, updated, log
  <2> QED
    BY <2>1 DEF Finish, Log, Go, TypeInv, WorkersOK, Logging, NoReq
<1>6. \A v \in Users \ {u} : user'[v] = user[v]
  BY DEF WriteUser, TypeInv, TypeOK
<1>7. ASSUME NEW v \in Workers
      PROVE  OriginRead(v)' /\ (pc'[v] \in Logging => Honest(req'[v].log))
  <2>1. CASE v = w
    <3>1. pc'[w] \notin {"indexUser", "writeUser"}
      BY DEF WriteUser, Finish, Log, Go, TypeInv, WorkersOK
    <3> QED
      BY <1>4, <1>5, <2>1, <3>1 DEF OriginRead
  <2>2. CASE v # w
    <3>1. pc'[v] = pc[v] /\ req'[v] = req[v]
      BY <2>2, OthersStay DEF Work
    <3>2. pc[v] \in {"indexUser", "writeUser"} => req[v].of \in Users
      BY DEF TypeInv, WorkersOK, Fits, Updating
    <3>3. CASE req[v].of = u
      BY <1>1, <2>2, <3>1, <3>3 DEF RivalsKnown, Meeting, Updating, OriginRead, HonestInv
    <3>4. CASE req[v].of # u
      BY <1>6, <3>1, <3>2, <3>4 DEF OriginRead, HonestInv
    <3> QED
      BY <3>3, <3>4
  <2> QED
    BY <2>1, <2>2
<1> HIDE DEF r, asked, updated, diff, log
<1>8. \A i \in Entries : Honest(entry[i])'
  BY <1>1 DEF HonestInv, Honest
<1>9. \A v \in Workers : (pc[v] \in Logging => Honest(req[v].log))'
  BY <1>7 DEF Honest
<1> QED
  BY <1>7, <1>8, <1>9 DEF HonestInv

LEMMA HonestWork ==
    ASSUME TypeInv, RivalsKnown, HonestInv, NEW w \in Workers, Work(w)
    PROVE  HonestInv'
<1>1. \A v \in Workers : Stays(v)
  BY WorkStays
<1>2. \A v \in Workers \ {w} : pc'[v] = pc[v] /\ req'[v] = req[v]
  BY OthersStay
<1>3. \A u \in Users : WriteUser(w) \/ user'[u].details = user[u].details
  <2>1. CASE DeleteUser(w)
    <3> DEFINE gone(u) == [user[u] EXCEPT !.live = FALSE]
    <3>1. \A u \in Users : gone(u).details = user[u].details
      BY DEF TypeInv, TypeOK, Accounts
    <3>2. \A u \in Users : user'[u] \in {user[u], gone(u)}
      BY <2>1 DEF DeleteUser, TypeInv, TypeOK
    <3> HIDE DEF gone
    <3> QED
      BY <3>1, <3>2
  <2>2. CASE ~DeleteUser(w)
    BY <2>2 DEF Work, RecordLogin, FindUser, FindActor, IndexUser, UnindexUser, InsertEntry,
                IndexEntry, stores
  <2> QED
    BY <2>1, <2>2
<1>4. ASSUME pc'[w] \in Logging, ~WriteUser(w) PROVE Honest(req'[w].log)
  <2>1. CASE InsertEntry(w)
    <3> DEFINE r == req[w]
    <3>1. PICK i \in Free : Go(w, "indexEntry", [r EXCEPT !.entry = i])
      BY <2>1 DEF InsertEntry
    <3>2. r \in Req /\ Honest(r.log) /\ req'[w] = [r EXCEPT !.entry = i]
      BY <2>1, <3>1 DEF InsertEntry, HonestInv, Logging, Go, TypeInv, WorkersOK
    <3>3. req'[w].log = r.log
      BY <3>2 DEF Req
    <3> QED
      BY <3>2, <3>3
  <2>2. CASE ~InsertEntry(w)
    <3>1. \E log \in Logs : Log(w, log) /\ log.new = NoChange
      <4>1. ASSUME NEW p \in People, NEW act \in {"login", "login failed", "other"},
                   Log(w, [NoLog EXCEPT !.of = p, !.act = act])
            PROVE  \E log \in Logs : Log(w, log) /\ log.new = NoChange
        <5> DEFINE log == [NoLog EXCEPT !.of = p, !.act = act]
        <5>1. log \in Logs /\ log.new = NoChange
          BY NoTypes DEF Logs, NoLog
        <5> QED
          BY <4>1, <5>1
      <4>2. pc[w] \in {"writeInfo", "findUser", "findActor"} => req[w].of \in People
        BY DEF TypeInv, WorkersOK, Fits
      <4>3. CASE RecordLogin(w)
        BY <4>1, <4>2, <4>3 DEF RecordLogin
      <4>4. CASE FindUser(w)
        <5>1. ~Finish(w)
          BY <1>4 DEF Finish, Go, Logging, TypeInv, WorkersOK
        <5> QED
          BY <4>1, <4>4, <5>1 DEF FindUser, People
      <4>5. CASE FindActor(w)
        <5>1. ~Finish(w)
          BY <1>4 DEF Finish, Go, Logging, TypeInv, WorkersOK
        <5> QED
          BY <4>1, <4>2, <4>5, <5>1 DEF FindActor
      <4>6. CASE DeleteUser(w)
        <5>1. ~Finish(w)
          BY <1>4 DEF Finish, Go, Logging, TypeInv, WorkersOK
        <5>2. req[w].log \in Logs /\ req[w].log.new = NoChange
          BY <4>6 DEF DeleteUser, TypeInv, WorkersOK, Fits, Req, Updating
        <5> QED
          BY <4>6, <5>1, <5>2 DEF DeleteUser
      <4>7. CASE IndexUser(w) \/ UnindexUser(w) \/ IndexEntry(w)
        BY <1>4, <4>7 DEF IndexUser, UnindexUser, IndexEntry, Finish, Go, Logging, TypeInv, WorkersOK
      <4> QED
        BY <1>4, <2>2, <4>3, <4>4, <4>5, <4>6, <4>7 DEF Work
    <3>2. PICK log \in Logs : Log(w, log) /\ log.new = NoChange
      BY <3>1
    <3>3. req'[w].log = log
      BY <3>2 DEF Log, Go, NoReq, TypeInv, WorkersOK
    <3> QED
      BY <3>2, <3>3, BareHonest
  <2> QED
    BY <2>1, <2>2
<1>5. CASE WriteUser(w)
  BY <1>5, HonestWrite
<1>6. CASE InsertEntry(w)
  <2>1. pc[w] \in Logging /\ \E i \in Entries : entry' = [entry EXCEPT ![i] = req[w].log]
    BY <1>6 DEF InsertEntry, Free, Logging
  <2>2. \A i \in Entries : Honest(entry'[i])
    BY <2>1 DEF HonestInv, TypeInv, TypeOK
  <2>3. \A v \in Workers : pc'[v] \in Logging => Honest(req'[v].log)
    BY <1>2, <1>4, <1>6 DEF HonestInv, WriteUser, InsertEntry
  <2>4. UNCHANGED user
    BY <1>6 DEF InsertEntry
  <2>5. ASSUME NEW v \in Workers PROVE OriginRead(v)'
    BY <1>1, <2>4 DEF OriginRead, HonestInv, Stays, Updating
  <2> QED
    BY <2>2, <2>3, <2>5 DEF HonestInv, Honest
<1>7. CASE ~WriteUser(w) /\ ~InsertEntry(w)
  <2>1. UNCHANGED entry
    BY <1>7 DEF Work, RecordLogin, FindUser, FindActor, IndexUser, UnindexUser, DeleteUser,
                IndexEntry, stores
  <2>2. \A v \in Workers : pc'[v] \in Logging => Honest(req'[v].log)
    BY <1>2, <1>4, <1>7 DEF HonestInv
  <2> QED
    BY <1>1, <1>3, <1>7, <2>1, <2>2, HonestAside
<1> QED
  BY <1>5, <1>6, <1>7

LEMMA HonestStep == ASSUME TypeInv, RivalsKnown, HonestInv, [Next]_vars PROVE HonestInv'
<1>1. CASE UNCHANGED vars
  BY <1>1 DEF vars, stores, HonestInv, Honest, OriginRead
<1>2. CASE Restore
  <2>1. UNCHANGED <<user, entry, pc, req>>
    BY <1>2 DEF Restore, RestoreUsers, RestoreUserActions, RestoreEnd, RestoreUser,
                RestoreUserAction, stores
  <2> QED
    BY <2>1 DEF HonestInv, Honest, OriginRead
<1>3. ASSUME NEW ws \in SUBSET Workers, Abandon(ws) PROVE HonestInv'
  <2>1. UNCHANGED <<user, entry>> /\ \A v \in Workers : Stays(v)
    BY <1>3, AbandonStays DEF Abandon, stores
  <2>2. \A v \in Workers : pc'[v] \in Logging => pc'[v] = pc[v] /\ req'[v] = req[v]
    BY <1>3 DEF Abandon, Logging
  <2> QED
    BY <2>1, <2>2, HonestAside DEF HonestInv
<1> QED
  BY <1>1, <1>2, <1>3, HonestSubmit, HonestWork DEF Next, Fail, InsertFails

\* An entry never blames a person for a change somebody else made, unless two
\* requests met at the user.
THEOREM LogAttributed == Spec => []Attributed
<1>1. Init => HonestInv /\ RivalsKnown
  BY BareHonest, NoTypes DEF Init, HonestInv, OriginRead, RivalsKnown, Meeting, Updating, Logging, NoLog
<1>2. HonestInv => Attributed
  BY DEF HonestInv, Honest, Attributed
<1> QED
  BY <1>1, <1>2, TypesInit, TypesStep, RivalsStep, HonestStep, PTL DEF Spec

(***************************************************************************)
(* What the users index shows.                                             *)
(***************************************************************************)
DocTrue(u) == /\ userDoc[u].live <=> user[u].live
              /\ user[u].live => \A f \in Indexed : userDoc[u].shown[f] \in {Blank, user[u].details[f]}

Half(w, u) == req[w].of = u /\ pc[w] \in Halfway

\* Between the two writes the document is what the request has made of it.
ShownOK(u) == u \notin torn =>
    /\ (\A w \in Workers : ~Half(w, u)) => DocTrue(u)
    /\ (\E w \in Workers : Half(w, u)) => user[u].live
    /\ \A w \in Workers : Half(w, u) /\ ~req[w].met =>
          /\ pc[w] = "writeUser" => userDoc[u] = Doc(req[w].log.asked)
          /\ pc[w] = "deleteUser" => ~userDoc[u].live

\* What the restore program has read is still so, if nothing met it.
FreshOK(u) == u \in restore.users \cap restore.fresh =>
    Undisturbed(u) /\ user[u].live /\ restore.read[u] = Doc(user[u].details)

ShownInv == \A u \in Users : ShownOK(u) /\ FreshOK(u)

\* A step that is no step of the user's.
LEMMA ShownAside ==
    ASSUME NEW u \in Users, ShownOK(u), user'[u] = user[u], userDoc'[u] = userDoc[u],
           u \in torn => u \in torn',
           u \notin torn' =>
              \A v \in Workers :
                 /\ Half(v, u)' <=> Half(v, u)
                 /\ Half(v, u) => /\ pc'[v] = pc[v] /\ req'[v].log = req[v].log
                                  /\ req[v].met => req'[v].met
    PROVE  ShownOK(u)'
BY DEF ShownOK, DocTrue

LEMMA FreshAside ==
    ASSUME NEW u \in Users, FreshOK(u), user'[u] = user[u],
           UNCHANGED restore,
           \A v \in Workers : Stays(v)
    PROVE  FreshOK(u)'
BY DEF FreshOK, Undisturbed, Stays, Updating

LEMMA ShownSubmit == ASSUME TypeInv, ShownInv, NEW w \in Workers, SubmitAny(w) PROVE ShownInv'
<1>1. PICK step \in Steps, r \in Req, steps \in {{}, {"writeInfo"}, Updating} :
         Enters(w, step, r, steps)
  BY SubmitEnters
<1>2. Joins(w, step, r, steps) /\ UNCHANGED <<user, userDoc, torn>> /\ step \notin Halfway
  BY <1>1, SubmitJoins DEF Enters, Submit, stores, history, Halfway
<1>3. ASSUME NEW v \in Workers \ {w}
      PROVE  /\ pc'[v] = pc[v] /\ req'[v].of = req[v].of /\ req'[v].log = req[v].log
             /\ req[v].met => req'[v].met
  <2>1. pc'[v] = pc[v] /\ req'[v] \in {req[v], [req[v] EXCEPT !.met = TRUE]} /\ req[v] \in Req
    BY <1>2 DEF Joins, TypeInv, WorkersOK
  <2> QED
    BY <2>1 DEF Req
<1>4. pc[w] = "idle" /\ pc'[w] = step /\ req'[w].of = r.of
  BY <1>2 DEF Joins, Req
<1>5. ASSUME NEW u \in Users PROVE ShownOK(u)'
  <2>1. \A v \in Workers : Half(v, u)' <=> Half(v, u)
    BY <1>2, <1>3, <1>4 DEF Half, Halfway
  <2>2. \A v \in Workers : Half(v, u) => v # w
    BY <1>4 DEF Half, Halfway
  <2> QED
    BY <1>2, <1>3, <2>1, <2>2, ShownAside DEF ShownInv
<1>6. ASSUME NEW u \in Users PROVE FreshOK(u)'
  <2> SUFFICES ASSUME (u \in restore.users \cap restore.fresh)'
               PROVE  (Undisturbed(u) /\ user[u].live /\ restore.read[u] = Doc(user[u].details))'
    BY DEF FreshOK
  <2>1. restore \in Restores
    BY DEF TypeInv, RestoreOK
  <2>2. CASE step \in Updating
    <3>1. restore' = [restore EXCEPT !.fresh = @ \ {r.of}]
      BY <1>1, <2>2 DEF Enters
    <3>2. u \in restore.users \cap restore.fresh /\ u # r.of /\ restore'.read = restore.read
      BY <2>1, <3>1 DEF Restores
    <3> QED
      BY <1>2, <1>3, <1>4, <3>2 DEF ShownInv, FreshOK, Undisturbed
  <2>3. CASE step \notin Updating
    <3>1. UNCHANGED restore
      BY <1>1, <2>3 DEF Enters
    <3> QED
      BY <1>2, <1>3, <1>4, <2>3, <3>1 DEF ShownInv, FreshOK, Undisturbed
  <2> QED
    BY <2>2, <2>3
<1> QED
  BY <1>5, <1>6 DEF ShownInv

\* Two that are updating the same user have met.
LEMMA OthersMet ==
    ASSUME RivalsKnown, NEW w \in Workers, NEW v \in Workers, NEW u, v # w,
           pc[w] \in Updating, req[w].of = u, Half(v, u)
    PROVE  req[v].met /\ req[w].met
BY DEF RivalsKnown, Meeting, Half, Updating, Halfway

LEMMA ShownIndex ==
    ASSUME TypeInv, RivalsKnown, ShownInv, NEW w \in Workers, IndexUser(w),
           NEW u \in Users, u = req[w].of
    PROVE  ShownOK(u)'
<1> DEFINE r == req[w]
           asked == r.log.asked
<1>1. pc[w] = "indexUser" /\ UNCHANGED <<user, torn>>
  BY DEF IndexUser, history
<1>2. \A v \in Workers \ {w} : pc'[v] = pc[v] /\ req'[v] = req[v]
  BY OthersStay DEF Work
<1>3. CASE ~userDoc[u].live
  <2>1. UNCHANGED userDoc /\ pc'[w] = "idle"
    BY <1>3 DEF IndexUser, Finish, Go, TypeInv, WorkersOK
  <2>2. \A v \in Workers : /\ Half(v, u)' <=> Half(v, u)
                           /\ Half(v, u) => v # w
    BY <1>1, <1>2, <2>1 DEF Half, Halfway
  <2> QED
    BY <1>1, <1>2, <2>1, <2>2, ShownAside DEF ShownInv
<1>4. CASE userDoc[u].live
  <2>1. userDoc'[u] = Doc(asked) /\ pc'[w] = "writeUser" /\ req'[w] = r
    BY <1>4 DEF IndexUser, Go, TypeInv, TypeOK, WorkersOK
  <2> SUFFICES ASSUME u \notin torn PROVE ShownOK(u)'
    BY <1>1 DEF ShownOK
  <2>2. Half(w, u)'
    BY <2>1 DEF Half, Halfway
  <2>3. user[u].live
    BY <1>4 DEF ShownInv, ShownOK, DocTrue
  <2>4. ASSUME NEW v \in Workers, v # w, Half(v, u)' PROVE req'[v].met
    <3>1. Half(v, u)
      BY <1>2, <2>4 DEF Half
    <3> QED
      BY <1>1, <1>2, <2>4, <3>1, OthersMet DEF Updating
  <2> QED
    BY <1>1, <2>1, <2>2, <2>3, <2>4 DEF ShownOK
<1> QED
  BY <1>3, <1>4

LEMMA ShownWrite ==
    ASSUME TypeInv, RivalsKnown, ShownInv, NEW w \in Workers, WriteUser(w),
           NEW u \in Users, u = req[w].of
    PROVE  ShownOK(u)'
<1> DEFINE r == req[w]
           asked == r.log.asked
           updated == [f \in Fields |-> IF asked[f] = Blank THEN user[u].details[f] ELSE asked[f]]
<1>1. pc[w] = "writeUser" /\ UNCHANGED userDoc /\ Half(w, u)
  BY DEF WriteUser, Half, Halfway
<1>2. \A v \in Workers \ {w} : pc'[v] = pc[v] /\ req'[v] = req[v]
  BY OthersStay DEF Work
<1>3. pc'[w] \notin Halfway
  BY DEF WriteUser, Finish, Log, Go, TypeInv, WorkersOK, Halfway
<1>4. torn \subseteq torn' /\ (~user[u].live \/ r.met => u \in torn')
  BY DEF WriteUser
<1> SUFFICES ASSUME u \notin torn' PROVE ShownOK(u)'
  BY DEF ShownOK
<1>5. user[u].live /\ ~r.met /\ u \notin torn
  BY <1>4
<1>6. userDoc[u] = Doc(asked)
  BY <1>1, <1>5 DEF ShownInv, ShownOK
<1>7. \A v \in Workers : ~Half(v, u)'
  <2>1. SUFFICES ASSUME NEW v \in Workers, v # w, Half(v, u)' PROVE FALSE
    BY <1>3 DEF Half
  <2>2. Half(v, u)
    BY <1>2, <2>1 DEF Half
  <2> QED
    BY <1>1, <1>5, <2>1, <2>2, OthersMet DEF Updating
<1>8. user'[u].live /\ user'[u].details = updated
  <2> HIDE DEF updated
  <2>1. user' = [user EXCEPT ![u].details = updated]
    BY <1>5 DEF WriteUser, updated
  <2> QED
    BY <1>5, <2>1 DEF TypeInv, TypeOK, Accounts
<1>9. DocTrue(u)'
  BY <1>1, <1>6, <1>8 DEF DocTrue, Doc, Indexed, Fields
<1> QED
  BY <1>7, <1>9 DEF ShownOK

LEMMA ShownUnindex ==
    ASSUME TypeInv, RivalsKnown, ShownInv, NEW w \in Workers, UnindexUser(w),
           NEW u \in Users, u = req[w].of
    PROVE  ShownOK(u)'
<1>1. pc[w] = "unindexUser" /\ UNCHANGED user
  BY DEF UnindexUser
<1>2. \A v \in Workers \ {w} : pc'[v] = pc[v] /\ req'[v] = req[v]
  BY OthersStay DEF Work
<1>3. \/ userDoc[u].live /\ userDoc' = [userDoc EXCEPT ![u] = NoDoc] /\ Go(w, "deleteUser", req[w])
                         /\ torn' = torn
      \/ u \in torn'
      \/ UNCHANGED <<userDoc, torn>> /\ Finish(w)
  BY DEF UnindexUser
<1>4. CASE u \in torn'
  BY <1>4 DEF ShownOK
<1>5. CASE UNCHANGED <<userDoc, torn>> /\ Finish(w)
  <2>1. pc'[w] = "idle"
    BY <1>5 DEF Finish, Go, TypeInv, WorkersOK
  <2>2. \A v \in Workers : /\ Half(v, u)' <=> Half(v, u)
                           /\ Half(v, u) => v # w
    BY <1>1, <1>2, <2>1 DEF Half, Halfway
  <2> QED
    BY <1>1, <1>2, <1>5, <2>2, ShownAside DEF ShownInv
<1>6. CASE /\ userDoc[u].live /\ userDoc' = [userDoc EXCEPT ![u] = NoDoc]
           /\ Go(w, "deleteUser", req[w]) /\ torn' = torn
  <2>1. userDoc'[u] = NoDoc /\ pc'[w] = "deleteUser" /\ req'[w] = req[w]
    BY <1>6 DEF Go, TypeInv, TypeOK, WorkersOK
  <2> SUFFICES ASSUME u \notin torn PROVE ShownOK(u)'
    BY <1>6 DEF ShownOK
  <2>2. Half(w, u)'
    BY <2>1 DEF Half, Halfway
  <2>3. user[u].live
    BY <1>6 DEF ShownInv, ShownOK, DocTrue
  <2>4. ASSUME NEW v \in Workers, v # w, Half(v, u)' PROVE req'[v].met
    <3>1. Half(v, u)
      BY <1>2, <2>4 DEF Half
    <3> QED
      BY <1>1, <1>2, <2>4, <3>1, OthersMet DEF Updating
  <2> QED
    BY <1>1, <2>1, <2>2, <2>3, <2>4 DEF ShownOK, NoDoc
<1> QED
  BY <1>3, <1>4, <1>5, <1>6

LEMMA ShownDelete ==
    ASSUME TypeInv, RivalsKnown, ShownInv, NEW w \in Workers, DeleteUser(w),
           NEW u \in Users, u = req[w].of
    PROVE  ShownOK(u)'
<1> DEFINE r == req[w]
<1>1. pc[w] = "deleteUser" /\ UNCHANGED userDoc /\ Half(w, u)
  BY DEF DeleteUser, Half, Halfway
<1>2. \A v \in Workers \ {w} : pc'[v] = pc[v] /\ req'[v] = req[v]
  BY OthersStay DEF Work
<1>3. pc'[w] \notin Halfway
  BY DEF DeleteUser, Finish, Log, Go, TypeInv, WorkersOK, Halfway
<1>4. torn \subseteq torn' /\ (user[u].live /\ r.met => u \in torn')
  BY DEF DeleteUser
<1> SUFFICES ASSUME u \notin torn' PROVE ShownOK(u)'
  BY DEF ShownOK
<1>5. user[u].live /\ ~r.met /\ u \notin torn
  BY <1>1, <1>4 DEF ShownInv, ShownOK
<1>6. ~userDoc[u].live
  BY <1>1, <1>5 DEF ShownInv, ShownOK
<1>7. \A v \in Workers : ~Half(v, u)'
  <2>1. SUFFICES ASSUME NEW v \in Workers, v # w, Half(v, u)' PROVE FALSE
    BY <1>3 DEF Half
  <2>2. Half(v, u)
    BY <1>2, <2>1 DEF Half
  <2> QED
    BY <1>1, <1>5, <2>1, <2>2, OthersMet DEF Updating
<1>8. ~user'[u].live
  BY <1>5 DEF DeleteUser, TypeInv, TypeOK, Accounts
<1> QED
  BY <1>1, <1>6, <1>7, <1>8 DEF ShownOK, DocTrue

\* A step of a request changes no user but the one it is updating.
LEMMA WorkTouches ==
    ASSUME TypeInv, NEW w \in Workers, Work(w), NEW u \in Users,
           req[w].of # u \/ pc[w] \notin Updating
    PROVE  user'[u] = user[u] /\ userDoc'[u] = userDoc[u] /\ (u \in torn => u \in torn')
<1>1. CASE IndexUser(w) \/ WriteUser(w)
  BY <1>1 DEF IndexUser, WriteUser, Updating, TypeInv, TypeOK, history
<1>2. CASE UnindexUser(w) \/ DeleteUser(w)
  BY <1>2 DEF UnindexUser, DeleteUser, Updating, TypeInv, TypeOK
<1>3. CASE RecordLogin(w) \/ FindUser(w) \/ FindActor(w) \/ InsertEntry(w) \/ IndexEntry(w)
  BY <1>3 DEF RecordLogin, FindUser, FindActor, InsertEntry, IndexEntry, stores, history
<1> QED
  BY <1>1, <1>2, <1>3 DEF Work

LEMMA ShownWork ==
    ASSUME TypeInv, RivalsKnown, ShownInv, NEW w \in Workers, Work(w)
    PROVE  ShownInv'
<1>1. \A v \in Workers : Stays(v)
  BY WorkStays
<1>2. \A v \in Workers \ {w} : pc'[v] = pc[v] /\ req'[v] = req[v]
  BY OthersStay
<1>3. UNCHANGED restore
  BY DEF Work, RecordLogin, FindUser, FindActor, IndexUser, WriteUser, UnindexUser, DeleteUser,
         InsertEntry, IndexEntry
<1>4. ASSUME NEW u \in Users PROVE ShownOK(u)'
  <2>1. CASE req[w].of = u /\ pc[w] \in Updating
    <3>1. IndexUser(w) \/ WriteUser(w) \/ UnindexUser(w) \/ DeleteUser(w)
      BY <2>1 DEF Work, RecordLogin, FindUser, FindActor, InsertEntry, IndexEntry, Updating
    <3> QED
      BY <2>1, <3>1, ShownIndex, ShownWrite, ShownUnindex, ShownDelete
  <2>2. CASE req[w].of # u \/ pc[w] \notin Updating
    <3>1. user'[u] = user[u] /\ userDoc'[u] = userDoc[u] /\ (u \in torn => u \in torn')
      BY <2>2, WorkTouches
    <3>2. ~Half(w, u) /\ ~Half(w, u)'
      BY <1>1, <2>2 DEF Half, Halfway, Updating, Stays
    <3>3. \A v \in Workers : (Half(v, u)' <=> Half(v, u)) /\ (Half(v, u) => v # w)
      BY <1>2, <3>2 DEF Half
    <3> QED
      BY <1>2, <3>1, <3>3, ShownAside DEF ShownInv
  <2> QED
    BY <2>1, <2>2
<1>5. ASSUME NEW u \in Users PROVE FreshOK(u)'
  <2>1. CASE u \in restore.users \cap restore.fresh
    <3>1. user'[u] = user[u]
      BY <2>1, WorkTouches DEF ShownInv, FreshOK, Undisturbed
    <3> QED
      BY <1>1, <1>3, <3>1, FreshAside DEF ShownInv
  <2>2. CASE u \notin restore.users \cap restore.fresh
    BY <1>3, <2>2 DEF FreshOK
  <2> QED
    BY <2>1, <2>2
<1> QED
  BY <1>4, <1>5 DEF ShownInv

LEMMA ShownRestore == ASSUME TypeInv, ShownInv, Restore PROVE ShownInv'
<1>1. ASSUME NEW x \in Users, RestoreUser(x) PROVE ShownInv'
  <2> DEFINE read == restore.read[x]
  <2>1. UNCHANGED <<user, pc, req>> /\ restore \in Restores
    BY <1>1 DEF RestoreUser, TypeInv, RestoreOK
  <2>2. /\ restore'.users = restore.users \ {x} /\ restore'.fresh = restore.fresh \ {x}
        /\ \A u \in Users \ {x} : restore'.read[u] = restore.read[u]
    BY <1>1, <2>1 DEF RestoreUser, Restores
  <2>3. userDoc'[x] = read /\ \A u \in Users \ {x} : userDoc'[u] = userDoc[u]
    BY <1>1 DEF RestoreUser, TypeInv, TypeOK
  <2>4. ASSUME NEW u \in Users PROVE FreshOK(u)'
    BY <2>1, <2>2 DEF ShownInv, FreshOK, Undisturbed
  <2>5. ASSUME NEW u \in Users, u # x PROVE ShownOK(u)'
    <3>1. u \in torn => u \in torn'
      BY <1>1, <2>5 DEF RestoreUser
    <3> QED
      BY <2>1, <2>3, <2>5, <3>1, ShownAside DEF ShownInv, Half
  <2>6. ASSUME NEW u \in Users, u = x PROVE ShownOK(u)'
    <3>1. CASE u \in restore.fresh
      <4>1. Undisturbed(u) /\ user[u].live /\ userDoc'[u] = Doc(user[u].details)
        BY <1>1, <2>3, <2>6, <3>1 DEF RestoreUser, ShownInv, FreshOK
      <4>2. DocTrue(u)'
        BY <2>1, <4>1 DEF DocTrue, Doc
      <4>3. \A v \in Workers : ~Half(v, u)'
        BY <2>1, <4>1 DEF Undisturbed, Half, Halfway, Updating
      <4> QED
        BY <4>2, <4>3 DEF ShownOK
    <3>2. CASE u \notin restore.fresh
      BY <1>1, <2>6, <3>2 DEF RestoreUser, ShownOK
    <3> QED
      BY <3>1, <3>2
  <2> QED
    BY <2>4, <2>5, <2>6 DEF ShownInv
<1>2. CASE RestoreUsers
  <2> DEFINE live == {u \in Users : user[u].live}
             fresh == {u \in live : Undisturbed(u)}
             read == [u \in Users |-> IF u \in live THEN Doc(user[u].details) ELSE NoDoc]
  <2>1. UNCHANGED <<user, userDoc, torn, pc, req>>
    BY <1>2 DEF RestoreUsers, stores, history
  <2>2. restore'.users = live /\ restore'.fresh = fresh /\ restore'.read = read
    <3> HIDE DEF live, fresh, read
    <3>1. restore' = [NoRestore EXCEPT !.step = "users", !.users = live, !.read = read, !.fresh = fresh]
      BY <1>2 DEF RestoreUsers, live, fresh, read
    <3> QED
      BY <3>1 DEF NoRestore
  <2>3. ASSUME NEW u \in Users PROVE FreshOK(u)'
    BY <2>1, <2>2 DEF FreshOK, Undisturbed
  <2>4. ASSUME NEW u \in Users PROVE ShownOK(u)'
    BY <2>1, ShownAside DEF ShownInv, Half
  <2> QED
    BY <2>3, <2>4 DEF ShownInv
<1>3. CASE RestoreUserActions \/ RestoreEnd \/ \E i \in Entries : RestoreUserAction(i)
  <2>1. UNCHANGED <<user, userDoc, torn, pc, req>> /\ (restore'.users = {} \/ UNCHANGED restore)
    BY <1>3 DEF RestoreUserActions, RestoreEnd, RestoreUserAction, stores, history, NoRestore
  <2>2. ASSUME NEW u \in Users PROVE FreshOK(u)'
    BY <2>1 DEF FreshOK, ShownInv, Undisturbed
  <2>3. ASSUME NEW u \in Users PROVE ShownOK(u)'
    BY <2>1, ShownAside DEF ShownInv, Half
  <2> QED
    BY <2>2, <2>3 DEF ShownInv
<1> QED
  BY <1>1, <1>2, <1>3 DEF Restore

LEMMA ShownAbandon ==
    ASSUME TypeInv, ShownInv, NEW ws \in SUBSET Workers, Abandon(ws)
    PROVE  ShownInv'
<1>1. UNCHANGED <<user, userDoc, restore>> /\ \A v \in Workers : Stays(v)
  BY AbandonStays DEF Abandon, stores
<1>2. ASSUME NEW u \in Users PROVE FreshOK(u)'
  BY <1>1, FreshAside DEF ShownInv
<1>3. ASSUME NEW u \in Users PROVE ShownOK(u)'
  <2>1. u \in torn => u \in torn'
    BY DEF Abandon
  <2>2. ASSUME u \notin torn', NEW v \in Workers
        PROVE  /\ Half(v, u)' <=> Half(v, u)
               /\ Half(v, u) => pc'[v] = pc[v] /\ req'[v] = req[v]
    <3>1. CASE v \in ws
      BY <2>2, <3>1 DEF Abandon, Half, Halfway
    <3>2. CASE v \notin ws
      BY <3>2 DEF Abandon, Half
    <3> QED
      BY <3>1, <3>2
  <2> QED
    BY <1>1, <2>1, <2>2, ShownAside DEF ShownInv
<1> QED
  BY <1>2, <1>3 DEF ShownInv

LEMMA ShownStep == ASSUME TypeInv, RivalsKnown, ShownInv, [Next]_vars PROVE ShownInv'
<1>1. CASE UNCHANGED vars
  BY <1>1 DEF vars, stores, history, ShownInv, ShownOK, FreshOK, DocTrue, Half, Undisturbed
<1>2. ASSUME NEW ws \in SUBSET Workers, Abandon(ws) PROVE ShownInv'
  BY <1>2, ShownAbandon
<1> QED
  BY <1>1, <1>2, ShownSubmit, ShownWork, ShownRestore DEF Next, Fail, InsertFails

\* The users index never shows anything false of a user whose updates neither stop
\* halfway nor meet another.
THEOREM IndexTrue == Spec => []ShownTrue
<1>1. Init => ShownInv /\ RivalsKnown
  <2> SUFFICES ASSUME Init PROVE ShownInv /\ RivalsKnown
    OBVIOUS
  <2>1. \A w \in Workers : pc[w] = "idle"
    BY DEF Init
  <2>2. RivalsKnown /\ \A u \in Users, w \in Workers : ~Half(w, u)
    BY <2>1 DEF RivalsKnown, Meeting, Updating, Half, Halfway
  <2>3. \A u \in Users : DocTrue(u)
    BY DEF Init, DocTrue, Doc
  <2>4. restore.users = {}
    BY DEF Init, NoRestore
  <2> QED
    BY <2>2, <2>3, <2>4 DEF ShownInv, ShownOK, FreshOK
<1>2. ShownInv => ShownTrue
  BY DEF ShownInv, ShownOK, DocTrue, ShownTrue, Undisturbed, Half, Halfway, Updating
<1> QED
  BY <1>1, <1>2, TypesInit, TypesStep, RivalsStep, ShownStep, PTL DEF Spec

(***************************************************************************)
(* Changes reach the index of the log.                                     *)
(***************************************************************************)
Holds(w, u, f, v) == pc[w] \in Logging /\ req[w].log.of = u /\ req[w].log.new[f] = v
Shows(i, u, f, v) == entryDoc[i].of = u /\ entryDoc[i].new[f] = v

Told(u, f, v) == \/ \E i \in Entries : Shows(i, u, f, v)
                 \/ \E w \in Workers : Holds(w, u, f, v)

Read(w, u, f, v) == pc[w] \in {"indexUser", "writeUser"} /\ req[w].of = u /\ req[w].origin[f] = v

\* A value that was, or that a request has read, is told of, or will be.
ToldInv ==
    /\ \A i \in Entries : entryDoc[i] \in {NoLog, entry[i]}
    /\ \A u \in Users \ lost, f \in Fields, v \in Values \ {Typed} :
          /\ user[u].details[f] = v => Told(u, f, v)
          /\ \A w \in Workers : Read(w, u, f, v) => Told(u, f, v)

\* What is told stays told, unless an entry is lost.
ToldStays == \A u \in Users, f \in Fields, v \in Values : Told(u, f, v) /\ u \notin lost' => Told(u, f, v)'

LEMMA ToldAside ==
    ASSUME TypeInv, ToldInv, lost \subseteq lost', ToldStays, \A v \in Workers : Stays(v),
           \A u \in Users : user'[u].details = user[u].details,
           \A i \in Entries : entryDoc'[i] \in {NoLog, entry'[i]}
    PROVE  ToldInv'
<1> SUFFICES ASSUME NEW u \in Users \ lost', NEW f \in Fields, NEW v \in Values \ {Typed}
             PROVE  /\ user'[u].details[f] = v => Told(u, f, v)'
                    /\ \A w \in Workers : Read(w, u, f, v)' => Told(u, f, v)'
  BY DEF ToldInv
<1>1. u \in Users \ lost /\ (Told(u, f, v) => Told(u, f, v)')
  BY DEF ToldStays
<1>2. user'[u].details[f] = v => Told(u, f, v)'
  BY <1>1 DEF ToldInv
<1>3. ASSUME NEW w \in Workers, Read(w, u, f, v)'
      PROVE  Told(u, f, v)'
  <2>1. pc[w] \in {"indexUser", "writeUser"} /\ req'[w] = req[w]
    BY <1>3 DEF Read, Stays, Updating
  <2> QED
    BY <1>1, <1>3, <2>1 DEF ToldInv, Read
<1> QED
  BY <1>2, <1>3

\* Entries and documents stay, and so do those that are on their way.
LEMMA ToldKept ==
    ASSUME UNCHANGED entryDoc,
           \A w \in Workers : pc[w] \in Logging => pc'[w] \in Logging /\ req'[w].log = req[w].log
    PROVE  ToldStays
BY DEF ToldStays, Told, Shows, Holds

LEMMA ToldSubmit == ASSUME TypeInv, ToldInv, NEW w \in Workers, SubmitAny(w) PROVE ToldInv'
<1>1. PICK step \in Steps, r \in Req, steps \in {{}, {"writeInfo"}, Updating} :
         Enters(w, step, r, steps)
  BY SubmitEnters
<1>2. Joins(w, step, r, steps) /\ UNCHANGED <<user, entry, entryDoc, lost>>
  BY <1>1, SubmitJoins DEF Enters, Submit, stores, history
<1>3. ASSUME NEW x \in Workers \ {w}
      PROVE  /\ pc'[x] = pc[x] /\ req'[x].of = req[x].of /\ req'[x].log = req[x].log
             /\ req'[x].origin = req[x].origin
  <2>1. pc'[x] = pc[x] /\ req'[x] \in {req[x], [req[x] EXCEPT !.met = TRUE]} /\ req[x] \in Req
    BY <1>2 DEF Joins, TypeInv, WorkersOK
  <2> QED
    BY <2>1 DEF Req
<1>4. pc[w] = "idle" /\ pc'[w] = step /\ req'[w].of = r.of /\ req'[w].origin = r.origin
  BY <1>2 DEF Joins, Req
<1>5. ToldStays
  BY <1>2, <1>3, <1>4, ToldKept DEF Logging
<1> SUFFICES ASSUME NEW u \in Users \ lost, NEW f \in Fields, NEW v \in Values \ {Typed}
             PROVE  /\ user[u].details[f] = v => Told(u, f, v)'
                    /\ \A x \in Workers : Read(x, u, f, v)' => Told(u, f, v)'
  BY <1>2 DEF ToldInv
<1>6. user[u].details[f] = v => Told(u, f, v)'
  BY <1>2, <1>5 DEF ToldInv, ToldStays
<1>7. ASSUME NEW x \in Workers, Read(x, u, f, v)'
      PROVE  Told(u, f, v)'
  <2>1. CASE x = w
    BY <1>1, <1>4, <1>6, <1>7, <2>1 DEF Enters, Read
  <2>2. CASE x # w
    BY <1>2, <1>3, <1>5, <1>7, <2>2 DEF ToldInv, ToldStays, Read
  <2> QED
    BY <2>1, <2>2
<1> QED
  BY <1>6, <1>7

LEMMA ToldWrite == ASSUME TypeInv, ToldInv, NEW w \in Workers, WriteUser(w) PROVE ToldInv'
<1> DEFINE r == req[w]
           asked == r.log.asked
<1> PICK x \in Users : x = r.of
  BY DEF WriteUser, TypeInv, WorkersOK, Fits, Updating
<1> DEFINE updated == [f \in Fields |-> IF asked[f] = Blank THEN user[x].details[f] ELSE asked[f]]
           diff == CheckFieldDiff(r.origin, updated)
           log == [r.log EXCEPT !.new = diff, !.met = r.met]
<1>1. /\ r \in Req /\ r.log \in Logs /\ pc[w] = "writeUser" /\ r.log.of = x
      /\ UNCHANGED <<entry, entryDoc, lost>>
  BY DEF WriteUser, TypeInv, WorkersOK, Req, Fits
<1>2. log.new = diff /\ log.of = x
  BY <1>1 DEF Logs
<1>3. \A v \in Workers : Stays(v)
  BY WorkStays DEF Work
<1>4. \A v \in Workers \ {w} : pc'[v] = pc[v] /\ req'[v] = req[v]
  BY OthersStay DEF Work
<1>5. ToldStays
  BY <1>1, <1>4, ToldKept DEF Logging
<1>6. CASE ~user[x].live
  <2>1. UNCHANGED user
    BY <1>6 DEF WriteUser
  <2> QED
    BY <1>1, <1>3, <1>5, <2>1, ToldAside DEF ToldInv
<1>7. CASE user[x].live
  <2>1. /\ user' = [user EXCEPT ![x].details = updated]
        /\ diff = NoChange \/ (pc'[w] \in Logging /\ req'[w].log = log)
    <3>1. user' = [user EXCEPT ![x].details = updated]
      BY <1>7 DEF WriteUser
    <3>2. log.new = NoChange \/ Log(w, log)
      BY <1>7 DEF WriteUser
    <3> HIDE DEF log, updated
    <3>3. Log(w, log) => pc'[w] \in Logging /\ req'[w].log = log
      BY DEF Log, Go, TypeInv, WorkersOK, Logging, NoReq
    <3> QED
      BY <1>2, <3>1, <3>2, <3>3
  <2>2. user'[x].details = updated /\ \A u \in Users \ {x} : user'[u] = user[u]
    BY <2>1 DEF TypeInv, TypeOK, Accounts
  <2>3. ASSUME NEW f \in Fields, NEW v \in Values \ {Typed}, x \notin lost, updated[f] = v
        PROVE  Told(x, f, v)'
    <3>1. CASE asked[f] = Blank
      <4>1. user[x].details[f] = v
        BY <2>3, <3>1
      <4> QED
        BY <1>1, <1>5, <2>3, <4>1 DEF ToldInv, ToldStays
    <3>2. CASE asked[f] # Blank /\ r.origin[f] = v
      BY <1>1, <1>5, <2>3, <3>2 DEF ToldInv, ToldStays, Read
    <3>3. CASE asked[f] # Blank /\ r.origin[f] # v
      <4>1. diff[f] = v
        BY <2>3, <3>3 DEF CheckFieldDiff
      <4>2. diff # NoChange
        BY <4>1, ActionLogAssumption DEF NoChange
      <4>3. pc'[w] \in Logging /\ req'[w].log.of = x /\ req'[w].log.new[f] = v
        BY <1>2, <2>1, <4>1, <4>2
      <4> QED
        BY <4>3 DEF Told, Holds
    <3> QED
      BY <3>1, <3>2, <3>3
  <2> HIDE DEF r, asked, updated, diff, log
  <2> SUFFICES ASSUME NEW u \in Users \ lost, NEW f \in Fields, NEW v \in Values \ {Typed}
               PROVE  /\ user'[u].details[f] = v => Told(u, f, v)'
                      /\ \A y \in Workers : Read(y, u, f, v)' => Told(u, f, v)'
    BY <1>1 DEF ToldInv
  <2>4. user'[u].details[f] = v => Told(u, f, v)'
    BY <1>1, <1>5, <2>2, <2>3 DEF ToldInv, ToldStays
  <2>5. ASSUME NEW y \in Workers, Read(y, u, f, v)'
        PROVE  Told(u, f, v)'
    <3>1. pc[y] \in {"indexUser", "writeUser"} /\ req'[y] = req[y]
      BY <1>3, <2>5 DEF Read, Stays, Updating
    <3> QED
      BY <1>1, <1>5, <2>5, <3>1 DEF ToldInv, ToldStays, Read
  <2> QED
    BY <2>4, <2>5
<1> QED
  BY <1>6, <1>7

LEMMA ToldEntry ==
    ASSUME TypeInv, LogInv, ToldInv, NEW w \in Workers, InsertEntry(w) \/ IndexEntry(w)
    PROVE  ToldInv'
<1> DEFINE r == req[w]
<1>1. \A x \in Workers : Stays(x)
  BY WorkStays DEF Work
<1>2. \A x \in Workers \ {w} : pc'[x] = pc[x] /\ req'[x] = req[x]
  BY OthersStay DEF Work
<1>3. UNCHANGED <<user, lost>>
  BY DEF InsertEntry, IndexEntry, history
<1>4. CASE InsertEntry(w)
  <2>1. PICK i \in Free : /\ entry' = [entry EXCEPT ![i] = r.log]
                          /\ Go(w, "indexEntry", [r EXCEPT !.entry = i])
    BY <1>4 DEF InsertEntry
  <2>2. pc'[w] \in Logging /\ req'[w].log = r.log /\ entryDoc' = entryDoc
    BY <1>4, <2>1 DEF InsertEntry, Go, TypeInv, WorkersOK, Logging, Req
  <2>3. \A j \in Entries : entryDoc'[j] \in {NoLog, entry'[j]}
    BY <2>1, <2>2 DEF ToldInv, Free, TypeInv, TypeOK
  <2>4. ToldStays
    BY <1>2, <2>2, ToldKept
  <2> QED
    BY <1>1, <1>3, <2>3, <2>4, ToldAside
<1>5. CASE IndexEntry(w)
  <2> PICK i \in Entries : i = r.entry
    BY <1>5 DEF IndexEntry, TypeInv, WorkersOK, Fits
  <2>1. entry[i] = r.log /\ entry' = entry
    BY <1>5 DEF IndexEntry, LogInv, Inserted
  <2>2. entryDoc'[i] = r.log /\ \A j \in Entries \ {i} : entryDoc'[j] = entryDoc[j]
    BY <1>5 DEF IndexEntry, TypeInv, TypeOK
  <2>3. \A j \in Entries : entryDoc'[j] \in {NoLog, entry'[j]}
    BY <2>1, <2>2 DEF ToldInv
  <2>4. ASSUME NEW u \in Users, NEW f \in Fields, NEW v \in Values, Told(u, f, v)
        PROVE  Told(u, f, v)'
    <3>1. ASSUME NEW j \in Entries, Shows(j, u, f, v) PROVE Shows(j, u, f, v)'
      <4>1. CASE j # i
        BY <2>2, <3>1, <4>1 DEF Shows
      <4>2. CASE j = i
        <5>1. entryDoc[j] # NoLog
          BY <3>1, ActionLogAssumption DEF Shows, NoLog, People
        <5> QED
          BY <2>1, <2>2, <3>1, <4>2, <5>1 DEF Shows, ToldInv
      <4> QED
        BY <4>1, <4>2
    <3>2. ASSUME Holds(w, u, f, v) PROVE Shows(i, u, f, v)'
      BY <2>2, <3>2 DEF Holds, Shows
    <3>3. ASSUME NEW x \in Workers, x # w, Holds(x, u, f, v) PROVE Holds(x, u, f, v)'
      BY <1>2, <3>3 DEF Holds
    <3> QED
      BY <2>4, <3>1, <3>2, <3>3 DEF Told
  <2>5. ToldStays
    BY <2>4 DEF ToldStays
  <2> QED
    BY <1>1, <1>3, <2>3, <2>5, ToldAside
<1> QED
  BY <1>4, <1>5

LEMMA ToldWork ==
    ASSUME TypeInv, LogInv, ToldInv, NEW w \in Workers, Work(w)
    PROVE  ToldInv'
<1>1. CASE WriteUser(w)
  BY <1>1, ToldWrite
<1>2. CASE InsertEntry(w) \/ IndexEntry(w)
  BY <1>2, ToldEntry
<1>3. CASE ~(WriteUser(w) \/ InsertEntry(w) \/ IndexEntry(w))
  <2>1. UNCHANGED <<entry, entryDoc, lost>> /\ pc[w] \notin Logging
    BY <1>3 DEF Work, RecordLogin, FindUser, FindActor, IndexUser, UnindexUser, DeleteUser,
                stores, history, Logging
  <2>2. \A u \in Users : user'[u].details = user[u].details
    <3>1. CASE DeleteUser(w)
      <4> DEFINE gone(u) == [user[u] EXCEPT !.live = FALSE]
      <4>1. \A u \in Users : gone(u).details = user[u].details
        BY DEF TypeInv, TypeOK, Accounts
      <4>2. \A u \in Users : user'[u] \in {user[u], gone(u)}
        BY <3>1 DEF DeleteUser, TypeInv, TypeOK
      <4> HIDE DEF gone
      <4> QED
        BY <4>1, <4>2
    <3>2. CASE ~DeleteUser(w)
      BY <1>3, <3>2 DEF Work, RecordLogin, FindUser, FindActor, IndexUser, UnindexUser, stores
    <3> QED
      BY <3>1, <3>2
  <2>3. ToldStays
    BY <2>1, OthersStay, ToldKept
  <2> QED
    BY <2>1, <2>2, <2>3, WorkStays, ToldAside DEF ToldInv
<1> QED
  BY <1>1, <1>2, <1>3

LEMMA ToldRestore == ASSUME TypeInv, ToldInv, Restore PROVE ToldInv'
<1>1. UNCHANGED <<user, entry, pc, req, lost>> /\ \A x \in Workers : Stays(x)
  BY RestoreStays DEF Restore, RestoreUsers, RestoreUserActions, RestoreEnd, RestoreUser,
                      RestoreUserAction, stores, history
<1>2. \A i \in Entries : entryDoc'[i] = entryDoc[i]
  <2>1. ASSUME NEW j \in Entries, RestoreUserAction(j)
        PROVE  \A i \in Entries : entryDoc'[i] = entryDoc[i]
    <3> DEFINE log == entry[j]
    <3>1. log.of \in People \cup {NoOne}
      BY DEF TypeInv, TypeOK, Logs
    <3>2. entryDoc' = [entryDoc EXCEPT ![log.of] = log]
      BY <2>1 DEF RestoreUserAction
    <3> HIDE DEF log
    <3> QED
      BY <3>1, <3>2, ActionLogAssumption DEF TypeInv, TypeOK
  <2> QED
    BY <2>1 DEF Restore, RestoreUsers, RestoreUserActions, RestoreEnd, RestoreUser, stores
<1>3. ToldStays
  BY <1>1, <1>2 DEF ToldStays, Told, Shows, Holds
<1>4. \A i \in Entries : entryDoc'[i] \in {NoLog, entry'[i]}
  BY <1>1, <1>2 DEF ToldInv
<1> QED
  BY <1>1, <1>3, <1>4, ToldAside

LEMMA ToldAbandon ==
    ASSUME TypeInv, ToldInv, NEW ws \in SUBSET Workers, Abandon(ws)
    PROVE  ToldInv'
<1>1. UNCHANGED <<user, entry, entryDoc>> /\ lost \subseteq lost' /\ \A x \in Workers : Stays(x)
  BY AbandonStays DEF Abandon, stores
<1>2. ASSUME NEW u \in Users, NEW f \in Fields, NEW v \in Values, u \notin lost',
             NEW w \in Workers, Holds(w, u, f, v)
      PROVE  Holds(w, u, f, v)'
  <2>1. req[w].log.act = "modify"
    BY <1>2, ActionLogAssumption DEF Holds, TypeInv, WorkersOK, Fits, NoChange
  <2>2. w \notin ws
    BY <1>2, <2>1 DEF Abandon, Holds
  <2> QED
    BY <1>2, <2>2 DEF Abandon, Holds
<1>3. ToldStays
  BY <1>1, <1>2 DEF ToldStays, Told, Shows
<1> QED
  BY <1>1, <1>3, ToldAside DEF ToldInv

LEMMA ToldStep == ASSUME TypeInv, LogInv, ToldInv, [Next]_vars PROVE ToldInv'
<1>1. CASE UNCHANGED vars
  BY <1>1 DEF vars, stores, history, ToldInv, Told, Shows, Holds, Read
<1>2. ASSUME NEW ws \in SUBSET Workers, Abandon(ws) PROVE ToldInv'
  BY <1>2, ToldAbandon
<1> QED
  BY <1>1, <1>2, ToldSubmit, ToldWork, ToldRestore DEF Next, Fail, InsertFails

\* Every value a detail of a user takes is shown by the index of the log or on its
\* way there, unless a call failed or the process stopped while it was logged.
THEOREM ChangesReachLog == Spec => []ChangesLogged
<1>1. Init => ToldInv /\ LogInv
  BY DEF Init, ToldInv, Read, LogInv, DocBacked, Inserted
<1>2. TypeInv /\ ToldInv => ChangesLogged
  BY DEF TypeInv, TypeOK, ToldInv, Told, Shows, Holds, ChangesLogged
<1> QED
  BY <1>1, <1>2, TypesInit, TypesStep, LogStep, ToldStep, PTL DEF Spec
=============================================================================
