------------------------------ MODULE Throttle ------------------------------
(***************************************************************************)
(* The Redis counters that limit requests per client and failed logins per *)
(* email.  A worker is a request goroutine, or the goroutine a failed      *)
(* login leaves behind.  Every Redis command is one action; keys expire in *)
(* between.                                                                *)
(***************************************************************************)
EXTENDS Integers, FiniteSets

CONSTANTS Workers,
          Clients,      \* IP addresses
          Emails,
          RequestLimit, \* rate_limiting.limit
          Duration,     \* rate_limiting.duration, in ticks
          AttemptLimit, \* login_attempts.limit
          Timeout,      \* login_attempts.timeout, in ticks
          RedisFails    \* whether a Redis command may fail

ASSUME ThrottleAssumption ==
    /\ {RequestLimit, Duration, AttemptLimit, Timeout} \subseteq Nat \ {0}
    /\ Clients \cap Emails = {}
    /\ RedisFails \in BOOLEAN

VARIABLES counter, \* Redis: the value of each key and its time to live
          passed,  \* history: how often each limit has let pass since its key was absent
          unfound, \* history: the look-ups of each email that have found no user since then
          failed,  \* history: whether a Redis command has failed
          pc,
          req      \* what each worker's handler holds

vars == <<counter, passed, unfound, failed, pc, req>>

Keys == Clients \cup Emails
LimitOf(k) == IF k \in Clients THEN RequestLimit ELSE AttemptLimit
Lifetime(k) == IF k \in Clients THEN Duration ELSE Timeout

\* The most that n concurrent requests get past a limit, and where passed stops
\* counting.
Excess(k) == LET n == Cardinality(Workers) IN n * (LimitOf(k) + n - 2) + 1
HistoryBound(k) == Excess(k) + 1

Forever == -1
Absent == [count |-> 0, ttl |-> Forever]

Steps == {"idle", "rate", "seeRequests", "countRequest", "findUser",
          "login", "reset", "seeAttempts", "countFailure"}
NoReq == [kind |-> "none", keys |-> [client |-> "none", email |-> "none"], seen |-> FALSE]

Init == /\ counter = [k \in Keys |-> Absent]
        /\ passed = [k \in Keys |-> 0]
        /\ unfound = [e \in Emails |-> 0]
        /\ failed = FALSE
        /\ pc = [w \in Workers |-> "idle"]
        /\ req = [w \in Workers |-> NoReq]

-----------------------------------------------------------------------------
(* Redis commands.                                                         *)

Exists(k) == counter[k].count > 0

\* Whether this step's command fails, which one does in a run (bound).
Fails(f) == failed' = (failed \/ f)
MayFail == IF RedisFails /\ ~failed THEN BOOLEAN ELSE {FALSE}

\* The value is only compared with the limit, so it is not counted much further.
Counted(k) == IF counter[k].count <= LimitOf(k) THEN counter[k].count + 1 ELSE counter[k].count

SetOne(k) == counter' = [counter EXCEPT ![k] = [count |-> 1, ttl |-> Lifetime(k)]]

\* Mutant: each increment sets the time to live again.
IncrRenewing(k) == counter' = [counter EXCEPT ![k] = [count |-> Counted(k), ttl |-> Lifetime(k)]]

\* INCR keeps the time to live, and creates an absent key without one.
Incr(k) == counter' = [counter EXCEPT ![k].count = Counted(k)]

\* Mutant: the value is set to zero and the key stays.
DelToZero(e) == /\ counter' = [counter EXCEPT ![e].count = 0]
                /\ passed' = [passed EXCEPT ![e] = 0]
                /\ unfound' = [unfound EXCEPT ![e] = 0]

Del(e) == /\ counter' = [counter EXCEPT ![e] = Absent]
          /\ passed' = [passed EXCEPT ![e] = 0]
          /\ unfound' = [unfound EXCEPT ![e] = 0]

-----------------------------------------------------------------------------
(* Steps both increments and both limits share.                            *)

Go(w, step, r) == /\ pc' = [pc EXCEPT ![w] = step]
                  /\ req' = [req EXCEPT ![w] = r]
Finish(w) == Go(w, "idle", NoReq)

Pass(k) == passed' = [passed EXCEPT ![k] = IF @ < HistoryBound(k) THEN @ + 1 ELSE @]
Miss(e) == unfound' = [unfound EXCEPT ![e] = IF @ < AttemptLimit THEN @ + 1 ELSE @]

\* GET: any error but "no such key" counts as a key.
See(w, k, step) ==
    /\ \E f \in MayFail : /\ Fails(f)
                          /\ Go(w, step, [req[w] EXCEPT !.seen = f \/ Exists(k)])
    /\ UNCHANGED <<counter, passed, unfound>>

Count(w, k) ==
    /\ \E f \in MayFail : /\ Fails(f)
                          /\ IF f THEN UNCHANGED counter
                                  ELSE IF req[w].seen THEN Incr(k) ELSE SetOne(k)
    /\ UNCHANGED <<passed, unfound>>

-----------------------------------------------------------------------------
(* The middleware: every request, before its handler.  A GET that fails    *)
(* gives zero.                                                             *)

Submit(w, kind, c, e) ==
    /\ pc[w] = "idle"
    /\ Go(w, "rate", [kind |-> kind, keys |-> [client |-> c, email |-> e], seen |-> FALSE])
    /\ UNCHANGED <<counter, passed, unfound, failed>>

\* Mutant: one request more.
LimitRequestsOffByOne(w) ==
    /\ pc[w] = "rate"
    /\ LET c == req[w].keys.client
       IN  \E f \in MayFail :
             /\ Fails(f)
             /\ IF ~f /\ counter[c].count > RequestLimit
                THEN Finish(w) /\ UNCHANGED passed
                ELSE Go(w, "seeRequests", req[w]) /\ Pass(c)
    /\ UNCHANGED <<counter, unfound>>

LimitRequests(w) ==
    /\ pc[w] = "rate"
    /\ LET c == req[w].keys.client
       IN  \E f \in MayFail :
             /\ Fails(f)
             /\ IF ~f /\ counter[c].count >= RequestLimit
                THEN Finish(w) /\ UNCHANGED passed
                ELSE Go(w, "seeRequests", req[w]) /\ Pass(c)
    /\ UNCHANGED <<counter, unfound>>

SeeRequests(w) == /\ pc[w] = "seeRequests"
                  /\ See(w, req[w].keys.client, "countRequest")

CountRequest(w) ==
    /\ pc[w] = "countRequest"
    /\ Count(w, req[w].keys.client)
    /\ IF req[w].kind = "login" THEN Go(w, "findUser", [req[w] EXCEPT !.seen = FALSE])
                                ELSE Finish(w)

-----------------------------------------------------------------------------
(* Login, of a user or of an admin.                                        *)

\* The user is looked up first.  An email that nobody has and a store that does
\* not answer end alike: the login has failed, and is counted as such although
\* neither the limit was looked at nor a password tried.
FindUser(w) ==
    /\ pc[w] = "findUser"
    /\ \/ Go(w, "login", req[w]) /\ UNCHANGED unfound
       \/ Go(w, "seeAttempts", req[w]) /\ Miss(req[w].keys.email)
    /\ UNCHANGED <<counter, passed, failed>>

\* Mutant: whoever gets past the limit is counted, with the right password too.
LoginCounted(w) ==
    /\ pc[w] = "login"
    /\ LET e == req[w].keys.email
       IN  /\ Go(w, "seeAttempts", req[w])
           /\ \/ UNCHANGED passed
              \/ counter[e].count < AttemptLimit /\ Pass(e)
    /\ UNCHANGED <<counter, unfound, failed>>

\* A locked email is refused before its password is compared, which is right or
\* wrong.
Login(w) ==
    /\ pc[w] = "login"
    /\ LET e == req[w].keys.email
       IN  \E f \in MayFail :
             /\ Fails(f)
             /\ IF ~f /\ counter[e].count >= AttemptLimit
                THEN Go(w, "seeAttempts", req[w]) /\ UNCHANGED passed
                ELSE \/ Go(w, "reset", req[w]) /\ UNCHANGED passed
                     \/ Go(w, "seeAttempts", req[w]) /\ Pass(e)
    /\ UNCHANGED <<counter, unfound>>

Reset(w) ==
    /\ pc[w] = "reset"
    /\ \E f \in MayFail :
          /\ Fails(f)
          /\ IF f THEN UNCHANGED <<counter, passed, unfound>> ELSE Del(req[w].keys.email)
    /\ Finish(w)

\* Every failed login is counted, after the response; those of a locked email too.
SeeAttempts(w) == /\ pc[w] = "seeAttempts"
                  /\ See(w, req[w].keys.email, "countFailure")

CountFailure(w) == /\ pc[w] = "countFailure"
                   /\ Count(w, req[w].keys.email)
                   /\ Finish(w)

-----------------------------------------------------------------------------
\* Time passes: keys with a time to live come closer to their end, or reach it.
Tick ==
    /\ counter' = [k \in Keys |->
                     IF counter[k].ttl = 1 THEN Absent
                     ELSE IF counter[k].ttl > 1 THEN [counter[k] EXCEPT !.ttl = @ - 1]
                          ELSE counter[k]]
    /\ passed' = [k \in Keys |-> IF counter[k].ttl = 1 THEN 0 ELSE passed[k]]
    /\ unfound' = [e \in Emails |-> IF counter[e].ttl = 1 THEN 0 ELSE unfound[e]]
    /\ UNCHANGED <<failed, pc, req>>

SubmitAny(w) ==
    \E kind \in {"plain", "login"}, c \in Clients, e \in Emails : Submit(w, kind, c, e)

Work(w) == \/ LimitRequests(w) \/ SeeRequests(w) \/ CountRequest(w)
           \/ FindUser(w) \/ Login(w) \/ Reset(w) \/ SeeAttempts(w) \/ CountFailure(w)

Next == Tick \/ \E w \in Workers : SubmitAny(w) \/ Work(w)

\* Goroutines are scheduled and the clock goes on.
Fairness == WF_vars(Tick) /\ \A w \in Workers : WF_vars(Work(w))

Spec == Init /\ [][Next]_vars /\ Fairness

-----------------------------------------------------------------------------
\* Every variable stays within its type, and an absent key has one form.
TypeOK ==
    /\ counter \in [Keys -> [count : Nat, ttl : Nat \cup {Forever}]]
    /\ \A k \in Keys : /\ counter[k].count <= LimitOf(k) + 1
                       /\ counter[k].ttl \in {Forever} \cup 1..Lifetime(k)
                       /\ counter[k].count = 0 => counter[k] = Absent
    /\ passed \in [Keys -> Nat] /\ \A k \in Keys : passed[k] <= HistoryBound(k)
    /\ unfound \in [Emails -> 0..AttemptLimit]
    /\ failed \in BOOLEAN
    /\ pc \in [Workers -> Steps]

\* In one lifetime of its key, a limit lets pass what it is set to (the requests
\* of a client, the wrong passwords tried for an email), except that concurrent
\* requests undercount: those that find no key together each set it to one, and
\* each may do so late.  The excess is bounded by the number of requests that
\* run at a time, as long as no command fails.
ExcessBounded == failed \/ \A k \in Keys : passed[k] <= Excess(k)

Reached(k) == counter[k].count >= LimitOf(k)

\* What was let past the limit of k, or failed before it was looked at.
Attempted(k) == passed[k] + IF k \in Emails THEN unfound[k] ELSE 0

\* Nobody is refused without cause: when a limit is reached, as many requests
\* have passed it in this lifetime of its key (for an email: as many wrong
\* passwords were tried), or their user was not found; but for what was in flight
\* when the key expired.  That Redis commands fail, keys expire at any time and
\* refused logins are counted too makes no difference.
RefusedForCause ==
    \A k \in Keys : Reached(k) => Attempted(k) + Cardinality(Workers) >= LimitOf(k)

\* A client or an email that has reached its limit is let in again after a
\* time, however often it is tried meanwhile, if its counter has a time to live.
DatedLocksEnd ==
    \A k \in Keys : Reached(k) /\ counter[k].ttl # Forever ~> ~Reached(k)

\* An email that is locked is let in again: no lock is for ever.
LocksEnd == \A e \in Emails : Reached(e) ~> ~Reached(e)
=============================================================================
