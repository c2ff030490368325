----------------------------- MODULE ActionLog -----------------------------
(***************************************************************************)
(* Logins, the details of users, and the log of what users and admins do:  *)
(* the userActions collection and its index.  A worker is a request        *)
(* goroutine followed by the goroutine that logs it; beside the workers    *)
(* runs cmd/es-restore, a process of its own, which rewrites the indexes.  *)
(* Wording, addresses and times of entries are left out.                   *)
(***************************************************************************)
EXTENDS Integers, FiniteSets

CONSTANTS Workers, Users, Admins,
          Entries,    \* the object ids log entries may draw (bound)
          IPs, NoIP,
          LogIn,      \* the people who log in (bound)
          Values,     \* of the details of users
          Typed,      \* what users have signed up with
          Blank,      \* the empty string
          Asks,       \* the changes of details that may be asked for (bound)
          NoOne, NoEntry,
          StoresFail  \* whether a store call may fail or the process stop

People == Users \cup Admins
Fields == {"email", "firstName", "telephone"}
Indexed == {"email", "firstName"}
Changes == [Fields -> Values \cup {Blank}]

ASSUME ActionLogAssumption ==
    /\ Users \cap Admins = {} /\ Entries \cap People = {}
    /\ NoOne \notin People \cup Entries /\ NoEntry \notin Entries
    /\ NoIP \notin IPs /\ Blank \notin Values /\ Typed \in Values /\ Asks \subseteq Changes
    /\ LogIn \subseteq People
    /\ StoresFail \in BOOLEAN

VARIABLES user,      \* users collection: the details
          userDoc,   \* users index
          info,      \* login information of users and admins
          entry,     \* userActions collection
          entryDoc,  \* user_actions index, by the id a document was given
          pc,
          req,       \* what each worker holds
          restore,   \* what the restore program holds
          logins,    \* history: the last login that was recorded, and the one before
          torn,      \* history: users whose update or deletion stopped halfway or met another
          lost       \* history: users of whom a change was not logged

stores == <<user, userDoc, info, entry, entryDoc>>
history == <<logins, torn, lost>>
vars == <<stores, pc, req, restore, history>>

Steps == {"idle", "writeInfo", "indexUser", "writeUser", "unindexUser", "deleteUser",
          "findUser", "findActor", "insertEntry", "indexEntry"}
Updating == {"indexUser", "writeUser", "unindexUser", "deleteUser"}
Halfway == {"writeUser", "deleteUser"}
Logging == {"insertEntry", "indexEntry"}

NoChange == [f \in Fields |-> Blank]
\* asked and met are history: what was asked for, and whether the request met another.
NoLog == [of |-> NoOne, act |-> "none", new |-> NoChange, asked |-> NoChange, met |-> FALSE]
NoReq == [of |-> NoOne, ip |-> NoIP, last |-> NoIP, origin |-> NoChange,
          log |-> NoLog, entry |-> NoEntry, met |-> FALSE]
NoDoc == [live |-> FALSE, shown |-> [f \in Indexed |-> Blank]]
NoRestore == [step |-> "idle", users |-> {}, fresh |-> {},
              read |-> [u \in Users |-> NoDoc]]

Doc(details) == [live |-> TRUE, shown |-> [f \in Indexed |-> details[f]]]

Init == /\ user = [u \in Users |-> [live |-> TRUE, details |-> [f \in Fields |-> Typed]]]
        /\ userDoc = [u \in Users |-> Doc(user[u].details)]
        /\ info = [p \in People |-> [current |-> NoIP, last |-> NoIP]]
        /\ entry = [i \in Entries |-> NoLog]
        /\ entryDoc = [d \in Entries \cup People |-> NoLog]
        /\ pc = [w \in Workers |-> "idle"]
        /\ req = [w \in Workers |-> NoReq]
        /\ restore = NoRestore
        /\ logins = [p \in People |-> [current |-> NoIP, last |-> NoIP, met |-> FALSE]]
        /\ torn = {} /\ lost = {}

-----------------------------------------------------------------------------
Free == {i \in Entries : entry[i] = NoLog}
Live(p) == p \in Users => user[p].live

Go(w, step, r) == /\ pc' = [pc EXCEPT ![w] = step]
                  /\ req' = [req EXCEPT ![w] = r]
Finish(w) == Go(w, "idle", NoReq)
Log(w, log) == Go(w, "insertEntry", [NoReq EXCEPT !.log = log])

\* A request meets those that are at one of the steps with the same person.
Submit(w, step, r, steps) ==
    LET rivals == {v \in Workers : req[v].of = r.of /\ pc[v] \in steps}
    IN  /\ pc[w] = "idle"
        /\ Cardinality(Free) > Cardinality({v \in Workers : pc[v] # "idle"})
        /\ pc' = [pc EXCEPT ![w] = step]
        /\ req' = [v \in Workers |-> IF v = w THEN [r EXCEPT !.met = rivals # {}]
                                     ELSE IF v \in rivals THEN [req[v] EXCEPT !.met = TRUE]
                                     ELSE req[v]]
        /\ UNCHANGED <<stores, history>>

-----------------------------------------------------------------------------
(* POST /login and POST /admin/login, after the password was checked.      *)

\* UpdateLoginInfo reads before it writes.
SubmitLogin(w, p, ip) ==
    /\ Live(p)
    /\ Submit(w, "writeInfo", [NoReq EXCEPT !.of = p, !.ip = ip, !.last = info[p].current],
              {"writeInfo"})
    /\ UNCHANGED restore

\* Mutant: the last login is kept instead of the one that was current.
RecordLoginKept(w) ==
    /\ pc[w] = "writeInfo"
    /\ LET r == req[w]
       IN  /\ info' = [info EXCEPT ![r.of].current = r.ip]
           /\ logins' = [logins EXCEPT ![r.of] = [current |-> r.ip, last |-> @.current,
                                                  met |-> r.met]]
           /\ Log(w, [NoLog EXCEPT !.of = r.of, !.act = "login"])
    /\ UNCHANGED <<user, userDoc, entry, entryDoc, restore, torn, lost>>

\* Of a deleted user nothing is written, which is no error.  A write that fails
\* leaves the request without an answer, but the login is logged.
RecordLogin(w) ==
    /\ pc[w] = "writeInfo"
    /\ LET r == req[w]
       IN  /\ \/ /\ Live(r.of)
                 /\ info' = [info EXCEPT ![r.of] = [current |-> r.ip, last |-> r.last]]
                 /\ logins' = [logins EXCEPT ![r.of] = [current |-> r.ip, last |-> @.current,
                                                        met |-> r.met]]
              \/ (StoresFail \/ ~Live(r.of)) /\ UNCHANGED <<info, logins>>
           /\ Log(w, [NoLog EXCEPT !.of = r.of, !.act = "login"])
    /\ UNCHANGED <<user, userDoc, entry, entryDoc, restore, torn, lost>>

SubmitLoginFail(w, p) == /\ Submit(w, "findUser", [NoReq EXCEPT !.of = p], {})
                         /\ UNCHANGED restore

\* Logged about the user with the email, if there is one; the email of an admin
\* is looked up among the users, too.
FindUser(w) ==
    /\ pc[w] = "findUser"
    /\ LET p == req[w].of
       IN  \/ \E u \in Users : /\ user[u].live /\ p \in {u} \cup Admins
                               /\ Log(w, [NoLog EXCEPT !.of = u, !.act = "login failed"])
           \/ (p \in Admins \/ ~Live(p)) /\ Finish(w)
    /\ UNCHANGED <<stores, restore, history>>

-----------------------------------------------------------------------------
(* What the handlers of transfers, tags, categories and entities log.      *)

SubmitOther(w, p) == /\ Submit(w, "findActor", [NoReq EXCEPT !.of = p], {})
                     /\ UNCHANGED restore

\* Logged about the person who acted, if that is found and something was changed.
FindActor(w) ==
    /\ pc[w] = "findActor"
    /\ LET p == req[w].of
       IN  \/ Live(p) /\ Log(w, [NoLog EXCEPT !.of = p, !.act = "other"])
           \/ Finish(w)
    /\ UNCHANGED <<stores, restore, history>>

-----------------------------------------------------------------------------
(* PATCH /user and PATCH /admin/users/{userID}.                            *)

\* Only an admin may change the email.
SubmitUpdate(w, by, u, asked) ==
    /\ user[u].live
    /\ by = u \/ by \in Admins
    /\ by = u => asked["email"] = Blank
    /\ Submit(w, "indexUser",
              [NoReq EXCEPT !.of = u, !.origin = user[u].details,
                            !.log = [NoLog EXCEPT !.of = u, !.act = "modify", !.asked = asked]],
              Updating)
    /\ restore' = [restore EXCEPT !.fresh = @ \ {u}]

\* The document gets all indexed fields, empty ones for what was not asked for.
IndexUser(w) ==
    /\ pc[w] = "indexUser"
    /\ LET u == req[w].of
       IN  IF userDoc[u].live
           THEN /\ userDoc' = [userDoc EXCEPT ![u] = Doc(req[w].log.asked)]
                /\ Go(w, "writeUser", req[w])
           ELSE UNCHANGED userDoc /\ Finish(w)
    /\ UNCHANGED <<user, info, entry, entryDoc, restore, history>>

\* Mutant: all details are logged.
CheckFieldDiffWhole(origin, updated) == updated

\* What the log says was modified.
CheckFieldDiff(origin, updated) ==
    [f \in Fields |-> IF updated[f] # origin[f] THEN updated[f] ELSE Blank]

\* Mutant: fields that are empty are written, too.
WriteUserWhole(w) ==
    /\ pc[w] = "writeUser"
    /\ user' = [user EXCEPT ![req[w].of].details = req[w].log.asked]
    /\ Finish(w)
    /\ UNCHANGED <<userDoc, info, entry, entryDoc, restore, history>>

\* In the collection, fields that are empty are left alone.
WriteUser(w) ==
    /\ pc[w] = "writeUser"
    /\ LET r == req[w]
           u == r.of
           asked == r.log.asked
           updated == [f \in Fields |-> IF asked[f] = Blank THEN user[u].details[f] ELSE asked[f]]
           log == [r.log EXCEPT !.new = CheckFieldDiff(r.origin, updated), !.met = r.met]
       IN  IF user[u].live
           THEN /\ user' = [user EXCEPT ![u].details = updated]
                /\ IF log.new = NoChange THEN Finish(w) ELSE Log(w, log)
                /\ torn' = IF r.met THEN torn \cup {u} ELSE torn
           ELSE /\ Finish(w)
                /\ torn' = torn \cup {u}
                /\ UNCHANGED user
    /\ UNCHANGED <<userDoc, info, entry, entryDoc, restore, logins, lost>>

-----------------------------------------------------------------------------
(* DELETE /admin/users/{userID}.                                           *)

SubmitDelete(w, a, u) ==
    /\ Submit(w, "unindexUser", [NoReq EXCEPT !.of = u, !.log = [NoLog EXCEPT !.of = a, !.act = "delete"]],
              Updating)
    /\ restore' = [restore EXCEPT !.fresh = @ \ {u}]

\* Only a document that is missing is an error: if the call fails otherwise, the
\* document stays and the deletion goes on.
UnindexUser(w) ==
    /\ pc[w] = "unindexUser"
    /\ LET u == req[w].of
       IN  \/ /\ userDoc[u].live
              /\ userDoc' = [userDoc EXCEPT ![u] = NoDoc]
              /\ Go(w, "deleteUser", req[w])
              /\ UNCHANGED torn
           \/ /\ StoresFail
              /\ Go(w, "deleteUser", req[w])
              /\ torn' = torn \cup {u}
              /\ UNCHANGED userDoc
           \/ /\ ~userDoc[u].live
              /\ Finish(w)
              /\ UNCHANGED <<userDoc, torn>>
    /\ UNCHANGED <<user, info, entry, entryDoc, restore, logins, lost>>

DeleteUser(w) ==
    /\ pc[w] = "deleteUser"
    /\ LET r == req[w]
           u == r.of
       IN  IF user[u].live
           THEN /\ user' = [user EXCEPT ![u].live = FALSE]
                /\ Log(w, r.log)
                /\ torn' = IF r.met THEN torn \cup {u} ELSE torn
           ELSE UNCHANGED <<user, torn>> /\ Finish(w)
    /\ UNCHANGED <<userDoc, info, entry, entryDoc, restore, logins, lost>>

-----------------------------------------------------------------------------
(* userAction.create.                                                      *)

InsertEntry(w) ==
    /\ pc[w] = "insertEntry"
    /\ \E i \in Free : /\ entry' = [entry EXCEPT ![i] = req[w].log]
                       /\ Go(w, "indexEntry", [req[w] EXCEPT !.entry = i])
    /\ UNCHANGED <<user, userDoc, info, entryDoc, restore, history>>

\* Mutant: as the restore program does it.
IndexEntryByUser(w) ==
    /\ pc[w] = "indexEntry"
    /\ entryDoc' = [entryDoc EXCEPT ![req[w].log.of] = req[w].log]
    /\ Finish(w)
    /\ UNCHANGED <<user, userDoc, info, entry, restore, history>>

IndexEntry(w) ==
    /\ pc[w] = "indexEntry"
    /\ entryDoc' = [entryDoc EXCEPT ![req[w].entry] = req[w].log]
    /\ Finish(w)
    /\ UNCHANGED <<user, userDoc, info, entry, restore, history>>

-----------------------------------------------------------------------------
(* What goes wrong.                                                        *)

\* What the requests of these workers leave undone.
Abandon(ws) ==
    /\ pc' = [w \in Workers |-> IF w \in ws THEN "idle" ELSE pc[w]]
    /\ req' = [w \in Workers |-> IF w \in ws THEN NoReq ELSE req[w]]
    /\ torn' = torn \cup {req[w].of : w \in {v \in ws : pc[v] \in Halfway}}
    /\ lost' = lost \cup {req[w].log.of : w \in {v \in ws : pc[v] \in Logging /\ req[v].log.act = "modify"}}
    /\ UNCHANGED <<stores, restore, logins>>

\* A call fails, or the process stops.
Fail(w) == /\ StoresFail
           /\ pc[w] # "idle"
           /\ Abandon({w})

\* A failed insert is reported, and then its missing result is dereferenced in a
\* goroutine that nothing recovers: the process ends, and all it was doing.
InsertFails(w) == /\ StoresFail
                  /\ pc[w] = "insertEntry"
                  /\ Abandon(Workers)

-----------------------------------------------------------------------------
(* cmd/es-restore, as far as users and log entries go.                     *)

\* Whether nothing is under way with the user, so that the document will be right.
Undisturbed(u) == \A w \in Workers : ~(req[w].of = u /\ pc[w] \in Updating)

\* Mutant: deleted users are read, too.
RestoreUsersAll ==
    /\ restore.step = "idle"
    /\ restore' = [NoRestore EXCEPT !.step = "users", !.users = Users,
                                    !.read = [u \in Users |-> Doc(user[u].details)],
                                    !.fresh = {u \in Users : Undisturbed(u)}]
    /\ UNCHANGED <<stores, pc, req, history>>

RestoreUsers ==
    /\ restore.step = "idle"
    /\ LET live == {u \in Users : user[u].live}
       IN  restore' = [NoRestore EXCEPT
             !.step = "users", !.users = live,
             !.read = [u \in Users |-> IF u \in live THEN Doc(user[u].details) ELSE NoDoc],
             !.fresh = {u \in live : Undisturbed(u)}]
    /\ UNCHANGED <<stores, pc, req, history>>

RestoreUser(u) ==
    /\ u \in restore.users
    /\ userDoc' = [userDoc EXCEPT ![u] = restore.read[u]]
    /\ torn' = IF u \in restore.fresh THEN torn \ {u} ELSE torn \cup {u}
    /\ restore' = [restore EXCEPT !.users = @ \ {u}, !.read[u] = NoDoc, !.fresh = @ \ {u}]
    /\ UNCHANGED <<user, info, entry, entryDoc, pc, req, logins, lost>>

RestoreUserActions ==
    /\ restore.step = "users" /\ restore.users = {}
    /\ restore' = [NoRestore EXCEPT !.step = "actions"]
    /\ UNCHANGED <<stores, pc, req, history>>

\* Mutant: what was modified is not restored.
RestoreUserActionBare(i) ==
    /\ restore.step = "actions" /\ i \notin Free
    /\ entryDoc' = [entryDoc EXCEPT ![entry[i].of] = [entry[i] EXCEPT !.new = NoChange]]
    /\ UNCHANGED <<user, userDoc, info, entry, pc, req, restore, history>>

\* The document of an entry gets the id of the person.  How far the cursor has
\* got is not kept: an entry may come at any time, again, or not at all.
RestoreUserAction(i) ==
    /\ restore.step = "actions" /\ i \notin Free
    /\ entryDoc' = [entryDoc EXCEPT ![entry[i].of] = entry[i]]
    /\ UNCHANGED <<user, userDoc, info, entry, pc, req, restore, history>>

\* The first call that fails ends the program.
RestoreEnd ==
    /\ restore.step = "actions" \/ (restore.step = "users" /\ StoresFail)
    /\ restore' = NoRestore
    /\ UNCHANGED <<stores, pc, req, history>>

Restore == \/ RestoreUsers \/ RestoreUserActions \/ RestoreEnd
           \/ \E u \in Users : RestoreUser(u)
           \/ \E i \in Entries : RestoreUserAction(i)

-----------------------------------------------------------------------------
SubmitAny(w) ==
    \/ \E p \in LogIn : \/ SubmitLoginFail(w, p) \/ SubmitOther(w, p)
                       \/ \E ip \in IPs : SubmitLogin(w, p, ip)
    \/ \E u \in Users, by \in People, asked \in Asks : SubmitUpdate(w, by, u, asked)
    \/ \E u \in Users, a \in Admins : SubmitDelete(w, a, u)

Work(w) ==
    \/ RecordLogin(w) \/ FindUser(w) \/ FindActor(w) \/ IndexUser(w) \/ WriteUser(w)
    \/ UnindexUser(w) \/ DeleteUser(w) \/ InsertEntry(w) \/ IndexEntry(w)

Next == \/ \E w \in Workers : SubmitAny(w) \/ Work(w) \/ Fail(w) \/ InsertFails(w)
        \/ Restore

Spec == Init /\ [][Next]_vars

-----------------------------------------------------------------------------
Logs == [of : People \cup {NoOne}, act : {"none", "login", "login failed", "other", "modify", "delete"},
         new : Changes, asked : Changes, met : BOOLEAN]
Docs == [live : BOOLEAN, shown : [Indexed -> Values \cup {Blank}]]
Accounts == [live : BOOLEAN, details : [Fields -> Values]]
Infos == [current : IPs \cup {NoIP}, last : IPs \cup {NoIP}]

\* Every variable stays within its type.
TypeOK ==
    /\ user \in [Users -> Accounts]
    /\ userDoc \in [Users -> Docs]
    /\ info \in [People -> Infos]
    /\ entry \in [Entries -> Logs] /\ entryDoc \in [Entries \cup People -> Logs]
    /\ pc \in [Workers -> Steps]
    /\ torn \subseteq Users /\ lost \subseteq Users

\* What the index of the log shows was logged, under the id of the entry or of the
\* person it is about: neither the requests nor a restore beside them invent,
\* mix up or date back an entry.
LogBacked ==
    \A d \in DOMAIN entryDoc : entryDoc[d] # NoLog =>
       \E i \in Entries : entry[i] = entryDoc[d] /\ d \in {i, entry[i].of}

\* An entry blames nobody for a change somebody else made, unless two requests met
\* at the user: the entry compares what was read before with what was written.
Attributed ==
    \A i \in Entries : ~entry[i].met =>
       \A f \in Fields : entry[i].new[f] \in {Blank, entry[i].asked[f]}

\* The users index never shows anything false of a user: a document is there
\* exactly for users that are, and a field has the user's value or is blank (an
\* update blanks what it was not asked to change).  Excepted are users whose
\* update stopped halfway or met another, until a restore that meets none.
ShownTrue ==
    \A u \in Users \ torn : Undisturbed(u) =>
       /\ userDoc[u].live <=> user[u].live
       /\ user[u].live => \A f \in Indexed : userDoc[u].shown[f] \in {Blank, user[u].details[f]}

\* A login reports the login before it, whatever failed or stopped in between,
\* unless the two met.
LastLoginTrue ==
    \A p \in People : ~logins[p].met => info[p].last = logins[p].last

\* Every value a detail of a user takes is in the index of the log, or a goroutine
\* is on its way to put it there, unless an entry was lost to a failure or with
\* the process.
ChangesLogged ==
    \A u \in Users \ lost, f \in Fields, v \in Values \ {Typed} :
       user[u].details[f] = v =>
          \/ \E d \in DOMAIN entryDoc : entryDoc[d].of = u /\ entryDoc[d].new[f] = v
          \/ \E w \in Workers : /\ pc[w] \in Logging
                                /\ req[w].log.of = u /\ req[w].log.new[f] = v
=============================================================================
