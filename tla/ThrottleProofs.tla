--------------------------- MODULE ThrottleProofs ---------------------------
(* How much a limit lets pass, and whom it refuses, for any number of       *)
(* workers, clients and emails and any limits.                              *)
EXTENDS Throttle, FiniteSetTheorems, TLAPS

\* The circumstances: finitely many requests run at a time.
FiniteWorkers == IsFiniteSet(Workers)

N == Cardinality(Workers)

-----------------------------------------------------------------------------
(* Numbers.                                                                *)

LEMMA WorkersCounted == FiniteWorkers => N \in Nat
  BY FS_CardinalityType DEF FiniteWorkers, N

LEMMA LimitPositive ==
  ASSUME ThrottleAssumption, NEW k \in Keys
  PROVE  LimitOf(k) \in Nat \ {0} /\ Lifetime(k) \in Nat \ {0}
  BY DEF ThrottleAssumption, LimitOf, Lifetime, Keys

LEMMA Distributes ==
  ASSUME NEW a \in Nat, NEW d \in Nat, NEW m \in Nat
  PROVE  /\ (a + d) * m = a * m + d * m
         /\ a * m \in Nat /\ d * m \in Nat
<1>1. (a + d) * m = a * m + d * m
  OBVIOUS
<1>2. a * m \in Nat /\ d * m \in Nat
  OBVIOUS
<1> QED
  BY <1>1, <1>2

LEMMA ExcessPositive ==
  ASSUME ThrottleAssumption, FiniteWorkers, NEW k \in Keys
  PROVE  Excess(k) \in Nat \ {0} /\ HistoryBound(k) = Excess(k) + 1
<1> DEFINE L == LimitOf(k)
<1>1. L \in Nat \ {0} /\ N \in Nat
  BY LimitPositive, WorkersCounted
<1>2. N * (L + N - 2) \in Nat
  <2>1. CASE N = 0
    <3>1. \A x \in Int : 0 * x = 0
      OBVIOUS
    <3>2. L + N - 2 \in Int
      BY <1>1
    <3> QED
      BY <2>1, <3>1, <3>2
  <2>2. CASE N # 0
    <3>1. L + N - 2 \in Nat
      BY <1>1, <2>2
    <3> HIDE DEF L
    <3>2. \A x, y \in Nat : x * y \in Nat
      OBVIOUS
    <3> QED
      BY <1>1, <3>1, <3>2
  <2> QED
    BY <2>1, <2>2
<1>3. Excess(k) = N * (L + N - 2) + 1
  BY DEF Excess, N
<1> HIDE DEF L
<1> QED
  BY <1>2, <1>3 DEF HistoryBound

\* How many a limit L has let pass (x), when its counter is at c, p requests
\* have yet to count and z of these will set it to one: while the key is absent
\* those that passed have not counted; afterwards each request may set it to one
\* once, but for the one that created it, and takes back what was counted since.
Undercounted(c, x, p, z, L) ==
    IF c = 0 THEN x <= p
    ELSE /\ z < N
         /\ x <= (N - 1 - z) * (L + N - 2) + IF c < L THEN c + p ELSE L - 1 + N

\* Whoever gets past the limit has yet to count.
LEMMA PassUndercounts ==
  ASSUME NEW c \in Nat, NEW x \in Nat, NEW p \in Nat, NEW z \in Nat, NEW L \in Nat \ {0}, N \in Nat,
         Undercounted(c, x, p, z, L), c < L, NEW y \in Nat, y <= x + 1
  PROVE  Undercounted(c, y, p + 1, z, L)
<1>1. CASE c = 0
  BY <1>1 DEF Undercounted
<1>2. CASE c # 0
  <2>1. PICK X \in Int : X = (N - 1 - z) * (L + N - 2)
    OBVIOUS
  <2>2. z < N /\ x <= X + c + p
    BY <1>2, <2>1 DEF Undercounted
  <2>3. y <= X + (c + (p + 1))
    BY <2>2
  <2> QED
    BY <1>2, <2>1, <2>2, <2>3 DEF Undercounted
<1> QED
  BY <1>1, <1>2

\* Whoever is refused at the limit counts too.
LEMMA RefusalUndercounts ==
  ASSUME NEW c \in Nat, NEW x \in Nat, NEW p \in Nat, NEW z \in Nat, NEW L \in Nat \ {0}, N \in Nat,
         Undercounted(c, x, p, z, L), c >= L
  PROVE  Undercounted(c, x, p + 1, z, L)
  BY DEF Undercounted

\* The first count creates the key, by whichever command.
LEMMA CreationUndercounts ==
  ASSUME NEW x \in Nat, NEW p \in Nat, NEW z \in Nat, NEW L \in Nat \ {0}, N \in Nat,
         Undercounted(0, x, p + 1, z, L), p + 1 <= N, NEW y \in Nat, y < N
  PROVE  Undercounted(1, x, p, y, L)
<1>1. x <= p + 1
  BY DEF Undercounted
<1>2. N - 1 - y \in Nat /\ L + N - 2 \in Nat
  OBVIOUS
<1>3. PICK X \in Nat : X = (N - 1 - y) * (L + N - 2)
  BY <1>2, Distributes
<1>4. x <= X + IF 1 < L THEN 1 + p ELSE L - 1 + N
  BY <1>1
<1> QED
  BY <1>3, <1>4 DEF Undercounted

\* An increment: what counts no more has counted.
LEMMA IncrUndercounts ==
  ASSUME NEW c \in Nat \ {0}, NEW x \in Nat, NEW p \in Nat, NEW z \in Nat, NEW L \in Nat \ {0},
         N \in Nat, Undercounted(c, x, p + 1, z, L), p + 1 <= N, NEW d \in Nat,
         d = c + 1 \/ (d = c /\ c > L)
  PROVE  Undercounted(d, x, p, z, L)
<1>1. PICK X \in Int : X = (N - 1 - z) * (L + N - 2)
  OBVIOUS
<1>2. z < N /\ x <= X + IF c < L THEN c + (p + 1) ELSE L - 1 + N
  BY <1>1 DEF Undercounted
<1>3. x <= X + IF d < L THEN d + p ELSE L - 1 + N
  BY <1>2
<1> QED
  BY <1>1, <1>2, <1>3 DEF Undercounted

\* A late SET to one uses up one of those that are left.
LEMMA SetUndercounts ==
  ASSUME NEW c \in Nat \ {0}, NEW x \in Nat, NEW p \in Nat, NEW z \in Nat, NEW L \in Nat \ {0},
         N \in Nat, Undercounted(c, x, p + 1, z + 1, L)
  PROVE  Undercounted(1, x, p, z, L)
<1>1. z + 1 < N
  BY DEF Undercounted
<1>2. PICK K \in Nat : K = L + N - 2
  BY <1>1
<1>3. PICK a \in Nat : a = N - 1 - (z + 1)
  BY <1>1
<1>4. PICK X \in Int : X = a * K
  OBVIOUS
<1>5. x <= X + IF c < L THEN c + (p + 1) ELSE L - 1 + N
  BY <1>2, <1>3, <1>4 DEF Undercounted
<1>6. (N - 1 - z) * (L + N - 2) = X + K
  <2>1. N - 1 - z = a + 1
    BY <1>3
  <2>2. (a + 1) * K = a * K + 1 * K
    BY Distributes
  <2> QED
    BY <1>2, <1>4, <2>1, <2>2
<1>7. x <= (X + K) + IF 1 < L THEN 1 + p ELSE L - 1 + N
  BY <1>1, <1>2, <1>5
<1> QED
  BY <1>1, <1>6, <1>7 DEF Undercounted

\* In the end: no more than Excess.
LEMMA UndercountedExcess ==
  ASSUME NEW c \in Nat, NEW x \in Nat, NEW p \in Nat, NEW z \in Nat, NEW L \in Nat \ {0}, N \in Nat,
         p <= N, Undercounted(c, x, p, z, L)
  PROVE  x <= N * (L + N - 2) + 1
<1>1. CASE N = 0
  <2>1. x = 0
    BY <1>1 DEF Undercounted
  <2>2. \A i \in Int : 0 * i = 0
    OBVIOUS
  <2>3. L + N - 2 \in Int
    OBVIOUS
  <2> QED
    BY <1>1, <2>1, <2>2, <2>3
<1>2. CASE N # 0
  <2>1. PICK K \in Nat : K = L + N - 2
    BY <1>2
  <2>2. PICK M \in Nat : N = M + 1
    BY <1>2
  <2>3. N * K = M * K + K /\ M * K \in Nat
    <3>1. (M + 1) * K = M * K + 1 * K
      BY Distributes
    <3> QED
      BY <2>2, <3>1, Distributes
  <2>4. CASE c = 0
    BY <2>1, <2>2, <2>3, <2>4 DEF Undercounted
  <2>5. CASE c # 0
    <3>1. z < N /\ x <= (N - 1 - z) * K + IF c < L THEN c + p ELSE L - 1 + N
      BY <2>1, <2>5 DEF Undercounted
    <3>2. PICK a \in Nat : a = N - 1 - z
      BY <3>1
    <3>3. M * K = a * K + z * K /\ z * K \in Nat /\ a * K \in Nat
      <4>1. M = a + z
        BY <2>2, <3>2
      <4> QED
        BY <4>1, Distributes
    <3>4. PICK A \in Nat, MK \in Nat : A = a * K /\ MK = M * K /\ A <= MK
      BY <2>3, <3>3
    <3>5. x <= A + IF c < L THEN c + p ELSE L - 1 + N
      BY <3>1, <3>2, <3>4
    <3>6. x <= MK + K + 1
      BY <2>1, <3>4, <3>5
    <3> QED
      BY <2>1, <2>3, <3>4, <3>6
  <2> QED
    BY <2>4, <2>5
<1> QED
  BY <1>1, <1>2

-----------------------------------------------------------------------------
(* Types.                                                                  *)

Requests == [kind : {"none", "plain", "login"},
             keys : [client : Clients \cup {"none"}, email : Emails \cup {"none"}],
             seen : BOOLEAN]

\* A request under way knows its client and its email.
Addressed(step, r) == step # "idle" => r.keys.client \in Clients /\ r.keys.email \in Emails

WorkersTyped == /\ pc \in [Workers -> Steps] /\ req \in [Workers -> Requests]
                /\ \A w \in Workers : Addressed(pc[w], req[w])

\* The counter c of a key.
Formed(k, c) ==
    /\ c \in [count : Nat, ttl : Nat \cup {Forever}]
    /\ c.count <= LimitOf(k) + 1
    /\ c.ttl \in {Forever} \cup 1..Lifetime(k)
    /\ c.count = 0 => c = Absent

KeysTyped == /\ counter \in [Keys -> [count : Nat, ttl : Nat \cup {Forever}]]
             /\ \A k \in Keys : Formed(k, counter[k])
             /\ passed \in [Keys -> Nat]
             /\ \A k \in Keys : passed[k] <= HistoryBound(k)
             /\ unfound \in [Emails -> 0..AttemptLimit]
             /\ failed \in BOOLEAN

\* The look-ups of a key's user that found none: there are none of a client's.
Missed(k) == IF k \in Emails THEN unfound[k] ELSE 0

Typed == KeysTyped /\ WorkersTyped

LEMMA TypesApart == Typed => TypeOK
  BY DEF TypeOK, Typed, KeysTyped, WorkersTyped, Formed

LEMMA AbsentFormed ==
  ASSUME NEW k \in Keys, ThrottleAssumption
  PROVE  Formed(k, Absent)
  BY LimitPositive DEF Formed, Absent, Forever

\* What an increment, or a SET to one, makes of a counter.
LEMMA IncrFormed ==
  ASSUME ThrottleAssumption, KeysTyped, NEW k \in Keys,
         NEW c, c = [counter[k] EXCEPT !.count = Counted(k)]
  PROVE  Formed(k, c) /\ c.count = Counted(k)
<1>1. LimitOf(k) \in Nat \ {0}
  BY LimitPositive
<1>2. Formed(k, counter[k])
  BY DEF KeysTyped
<1>3. c.count = Counted(k) /\ c.ttl = counter[k].ttl
  BY <1>2 DEF Formed
<1>4. Counted(k) \in Nat \ {0} /\ Counted(k) <= LimitOf(k) + 1
  BY <1>1, <1>2 DEF Formed, Counted
<1>5. c \in [count : Nat, ttl : Nat \cup {Forever}]
  BY <1>2, <1>4 DEF Formed
<1> QED
  BY <1>2, <1>3, <1>4, <1>5 DEF Formed

LEMMA OneFormed ==
  ASSUME ThrottleAssumption, NEW k \in Keys
  PROVE  Formed(k, [count |-> 1, ttl |-> Lifetime(k)])
  BY LimitPositive DEF Formed

LEMMA CountEffect ==
  ASSUME ThrottleAssumption, KeysTyped, NEW w \in Workers, NEW k \in Keys, Count(w, k)
  PROVE  /\ KeysTyped' /\ UNCHANGED <<passed, unfound>> /\ (failed => failed')
         /\ \A q \in Keys \ {k} : counter'[q] = counter[q]
         /\ \/ failed' /\ counter'[k] = counter[k]
            \/ req[w].seen /\ counter'[k].count = Counted(k)
            \/ ~req[w].seen /\ counter'[k].count = 1
<1>1. PICK f \in MayFail : /\ Fails(f)
                           /\ IF f THEN UNCHANGED counter
                                   ELSE IF req[w].seen THEN Incr(k) ELSE SetOne(k)
  BY DEF Count
<1>2. UNCHANGED <<passed, unfound>> /\ f \in BOOLEAN /\ failed' = (failed \/ f)
  BY <1>1 DEF Count, Fails, MayFail
<1>3. failed' \in BOOLEAN /\ (failed => failed')
  BY <1>2 DEF KeysTyped
<1>4. ASSUME NEW c, Formed(k, c), counter' = [counter EXCEPT ![k] = c]
      PROVE  KeysTyped' /\ counter'[k] = c /\ \A q \in Keys \ {k} : counter'[q] = counter[q]
  <2>1. c \in [count : Nat, ttl : Nat \cup {Forever}]
    BY <1>4 DEF Formed
  <2>2. /\ counter' \in [Keys -> [count : Nat, ttl : Nat \cup {Forever}]]
        /\ counter'[k] = c /\ \A q \in Keys \ {k} : counter'[q] = counter[q]
    BY <1>4, <2>1 DEF KeysTyped
  <2>3. \A q \in Keys : Formed(q, counter'[q])
    BY <1>4, <2>2 DEF KeysTyped
  <2>4. KeysTyped'
    BY <1>2, <1>3, <2>2, <2>3 DEF KeysTyped, Formed, LimitOf, Lifetime, HistoryBound, Excess
  <2> QED
    BY <2>2, <2>4
<1>5. CASE f
  <2>1. counter' = counter /\ failed'
    BY <1>1, <1>2, <1>5
  <2>2. KeysTyped'
    BY <1>2, <1>3, <2>1 DEF KeysTyped, Formed, LimitOf, Lifetime, HistoryBound, Excess
  <2>3. failed' /\ counter'[k] = counter[k] /\ \A q \in Keys \ {k} : counter'[q] = counter[q]
    BY <2>1
  <2> QED
    BY <1>2, <1>3, <2>2, <2>3
<1>6. CASE ~f /\ req[w].seen
  <2>1. PICK c : c = [counter[k] EXCEPT !.count = Counted(k)]
    OBVIOUS
  <2>2. counter' = [counter EXCEPT ![k] = c]
    BY <1>1, <1>6, <2>1 DEF Incr, KeysTyped
  <2> QED
    BY <1>2, <1>3, <1>4, <1>6, <2>1, <2>2, IncrFormed
<1>7. CASE ~f /\ ~req[w].seen
  <2>1. PICK c : c = [count |-> 1, ttl |-> Lifetime(k)]
    OBVIOUS
  <2>2. Formed(k, c) /\ c.count = 1
    BY <2>1, OneFormed
  <2>3. counter' = [counter EXCEPT ![k] = c]
    BY <1>1, <1>7, <2>1 DEF SetOne
  <2> QED
    BY <1>2, <1>3, <1>4, <1>7, <2>2, <2>3
<1> QED
  BY <1>2, <1>5, <1>6, <1>7

-----------------------------------------------------------------------------
(* Who has yet to count.                                                   *)

\* Between the check of a limit and the count that follows it.
Bound(step, r, k) == \/ step \in {"seeRequests", "countRequest"} /\ r.keys.client = k
                     \/ step \in {"seeAttempts", "countFailure"} /\ r.keys.email = k

\* It has seen no key, and will set it to one.
SetsOne(step, r, k) == /\ Bound(step, r, k)
                       /\ step \in {"countRequest", "countFailure"} /\ ~r.seen

Counting(k) == {w \in Workers : Bound(pc[w], req[w], k)}
Late(k) == {w \in Workers : SetsOne(pc[w], req[w], k)}

\* A worker that goes on is found where its step and what it holds say.
LEMMA WorkerGoes ==
  ASSUME WorkersTyped, NEW w \in Workers, NEW step \in Steps, NEW r \in Requests,
         Addressed(step, r), Go(w, step, r)
  PROVE  /\ WorkersTyped'
         /\ \A k \in Keys :
               /\ Counting(k)' = IF Bound(step, r, k) THEN Counting(k) \cup {w} ELSE Counting(k) \ {w}
               /\ Late(k)' = IF SetsOne(step, r, k) THEN Late(k) \cup {w} ELSE Late(k) \ {w}
<1>1. /\ pc' \in [Workers -> Steps] /\ req' \in [Workers -> Requests]
      /\ pc'[w] = step /\ req'[w] = r
      /\ \A v \in Workers \ {w} : pc'[v] = pc[v] /\ req'[v] = req[v]
  BY DEF Go, WorkersTyped
<1>2. WorkersTyped'
  <2> SUFFICES ASSUME NEW v \in Workers PROVE Addressed(pc'[v], req'[v])
    BY <1>1 DEF WorkersTyped, Addressed
  <2>1. CASE v = w
    BY <1>1, <2>1
  <2>2. CASE v # w
    BY <1>1, <2>2 DEF WorkersTyped
  <2> QED
    BY <2>1, <2>2
<1>3. ASSUME NEW k \in Keys
      PROVE  /\ Counting(k)' = IF Bound(step, r, k) THEN Counting(k) \cup {w} ELSE Counting(k) \ {w}
             /\ Late(k)' = IF SetsOne(step, r, k) THEN Late(k) \cup {w} ELSE Late(k) \ {w}
  <2>1. Counting(k)' = {v \in Workers : Bound(pc'[v], req'[v], k)}
    BY DEF Counting, Bound
  <2>2. Late(k)' = {v \in Workers : SetsOne(pc'[v], req'[v], k)}
    BY DEF Late, SetsOne, Bound
  <2>3. /\ Bound(pc'[w], req'[w], k) <=> Bound(step, r, k)
        /\ SetsOne(pc'[w], req'[w], k) <=> SetsOne(step, r, k)
    BY <1>1
  <2>4. \A v \in Workers \ {w} : /\ Bound(pc'[v], req'[v], k) <=> Bound(pc[v], req[v], k)
                                 /\ SetsOne(pc'[v], req'[v], k) <=> SetsOne(pc[v], req[v], k)
    BY <1>1
  <2>5. Counting(k)' = IF Bound(step, r, k) THEN Counting(k) \cup {w} ELSE Counting(k) \ {w}
    BY <2>1, <2>3, <2>4 DEF Counting
  <2>6. Late(k)' = IF SetsOne(step, r, k) THEN Late(k) \cup {w} ELSE Late(k) \ {w}
    BY <2>2, <2>3, <2>4 DEF Late
  <2> QED
    BY <2>5, <2>6
<1> QED
  BY <1>2, <1>3

\* What a worker at a step is to each key.
LEMMA WorkerIsAt ==
  ASSUME WorkersTyped, NEW w \in Workers
  PROVE  /\ pc[w] \in Steps /\ req[w] \in Requests /\ Addressed(pc[w], req[w])
         /\ \A k \in Keys : /\ w \in Counting(k) <=> Bound(pc[w], req[w], k)
                            /\ w \in Late(k) <=> SetsOne(pc[w], req[w], k)
  BY DEF WorkersTyped, Counting, Late

-----------------------------------------------------------------------------
(* What a step does to one key.                                            *)

Unmoved(k) == /\ counter'[k].count = counter[k].count /\ passed'[k] = passed[k]
              /\ Missed(k)' = Missed(k)
              /\ Counting(k)' = Counting(k) /\ Late(k)' = Late(k)

\* A request is checked: it passes below the limit, or when a command fails; at
\* the limit it may go on to count without passing, and before it is looked at,
\* when no user is found.
Enters(w, k) ==
    /\ w \notin Counting(k) /\ Counting(k)' = Counting(k) \cup {w} /\ Late(k)' = Late(k)
    /\ counter'[k] = counter[k]
    /\ \/ passed'[k] = passed[k] /\ Missed(k)' = Missed(k) /\ Reached(k)
       \/ /\ failed' \/ ~Reached(k)
          /\ passed'[k] = IF passed[k] < HistoryBound(k) THEN passed[k] + 1 ELSE passed[k]
          /\ Missed(k)' = Missed(k)
       \/ /\ passed'[k] = passed[k]
          /\ Missed(k)' = IF Missed(k) < LimitOf(k) THEN Missed(k) + 1 ELSE Missed(k)

\* Only who finds no key will set it to one.
Sees(w, k) ==
    /\ Counting(k)' = Counting(k)
    /\ Late(k)' \in {Late(k), Late(k) \cup {w}} /\ (Exists(k) => Late(k)' = Late(k))
    /\ counter'[k] = counter[k] /\ passed'[k] = passed[k] /\ Missed(k)' = Missed(k)

Counts(w, k) ==
    /\ w \in Counting(k) /\ Counting(k)' = Counting(k) \ {w} /\ Late(k)' = Late(k) \ {w}
    /\ passed'[k] = passed[k] /\ Missed(k)' = Missed(k)
    /\ \/ failed' /\ counter'[k] = counter[k]
       \/ w \notin Late(k) /\ counter'[k].count = Counted(k)
       \/ w \in Late(k) /\ counter'[k].count = 1

\* The time to live is over, or a login succeeds.
Expires(k) == /\ counter'[k] = Absent /\ passed'[k] = 0 /\ Missed(k)' = 0
              /\ Counting(k)' = Counting(k) /\ Late(k)' = Late(k)

KeyStep(k) == \/ Unmoved(k) \/ Expires(k)
              \/ \E w \in Workers : Enters(w, k) \/ Sees(w, k) \/ Counts(w, k)

Stepped == Typed' /\ (failed => failed') /\ \A k \in Keys : KeyStep(k)

LEMMA KeysKept ==
  ASSUME KeysTyped, counter' = counter, passed' \in [Keys -> Nat],
         \A k \in Keys : passed'[k] <= HistoryBound(k), failed' \in BOOLEAN,
         unfound' \in [Emails -> 0..AttemptLimit]
  PROVE  KeysTyped'
  BY DEF KeysTyped, Formed, LimitOf, Lifetime, HistoryBound, Excess

LEMMA FailsEffect ==
  ASSUME KeysTyped, NEW f \in MayFail, Fails(f)
  PROVE  f \in BOOLEAN /\ failed' \in BOOLEAN /\ (failed => failed') /\ (f => failed')
  BY DEF KeysTyped, Fails, MayFail

LEMMA PassEffect ==
  ASSUME ThrottleAssumption, FiniteWorkers, KeysTyped, NEW k \in Keys, Pass(k)
  PROVE  /\ passed' \in [Keys -> Nat] /\ \A q \in Keys : passed'[q] <= HistoryBound(q)
         /\ \A q \in Keys \ {k} : passed'[q] = passed[q]
         /\ passed'[k] = IF passed[k] < HistoryBound(k) THEN passed[k] + 1 ELSE passed[k]
<1>1. passed \in [Keys -> Nat] /\ \A q \in Keys : passed[q] <= HistoryBound(q)
  BY DEF KeysTyped
<1>2. HistoryBound(k) \in Nat
  BY ExcessPositive
<1>3. PICK x \in Nat : /\ x = IF passed[k] < HistoryBound(k) THEN passed[k] + 1 ELSE passed[k]
                       /\ x <= HistoryBound(k)
  BY <1>1, <1>2
<1>4. passed' = [passed EXCEPT ![k] = x]
  BY <1>3 DEF Pass
<1> QED
  BY <1>1, <1>3, <1>4

\* Neither before the check nor after the count does a worker matter to a key.
LEMMA Elsewhere ==
  ASSUME NEW step \in {"idle", "rate", "findUser", "login", "reset"}, NEW r, NEW k
  PROVE  ~Bound(step, r, k) /\ ~SetsOne(step, r, k)
  BY DEF Bound, SetsOne

LEMMA GoesElsewhere ==
  ASSUME ThrottleAssumption, Typed, NEW w \in Workers, NEW r \in Requests,
         NEW step \in {"idle", "rate", "findUser", "login", "reset"}, Addressed(step, r), Go(w, step, r),
         pc[w] \in {"idle", "rate", "findUser", "login", "reset"}
  PROVE  /\ WorkersTyped'
         /\ \A k \in Keys : Counting(k)' = Counting(k) /\ Late(k)' = Late(k)
<1>1. \A k \in Keys : w \notin Counting(k) /\ w \notin Late(k)
  BY Elsewhere, WorkerIsAt DEF Typed
<1>2. step \in Steps /\ \A k \in Keys : ~Bound(step, r, k) /\ ~SetsOne(step, r, k)
  BY Elsewhere DEF Steps
<1>3. /\ WorkersTyped' /\ \A k \in Keys : /\ Counting(k)' = Counting(k) \ {w}
                                         /\ Late(k)' = Late(k) \ {w}
  BY <1>2, WorkerGoes DEF Typed
<1> QED
  BY <1>1, <1>3

LEMMA StaysApart ==
  ASSUME ThrottleAssumption, Typed, NEW w \in Workers, NEW r \in Requests,
         NEW step \in {"idle", "rate", "findUser", "login", "reset"}, Addressed(step, r), Go(w, step, r),
         pc[w] \in {"idle", "rate", "findUser", "login", "reset"},
         UNCHANGED <<counter, passed, unfound>>, failed' \in BOOLEAN, failed => failed'
  PROVE  Stepped
<1>1. WorkersTyped' /\ \A k \in Keys : Unmoved(k)
  BY GoesElsewhere DEF Unmoved, Missed
<1>2. KeysTyped'
  BY KeysKept DEF Typed, KeysTyped
<1> QED
  BY <1>1, <1>2 DEF Stepped, Typed, KeyStep

LEMMA MissEffect ==
  ASSUME ThrottleAssumption, KeysTyped, NEW e \in Emails, Miss(e)
  PROVE  /\ unfound' \in [Emails -> 0..AttemptLimit]
         /\ Missed(e)' = IF Missed(e) < LimitOf(e) THEN Missed(e) + 1 ELSE Missed(e)
         /\ \A q \in Keys \ {e} : Missed(q)' = Missed(q)
<1>1. unfound \in [Emails -> 0..AttemptLimit] /\ AttemptLimit \in Nat /\ LimitOf(e) = AttemptLimit
  BY DEF KeysTyped, ThrottleAssumption, LimitOf
<1>2. PICK x \in 0..AttemptLimit : x = IF unfound[e] < AttemptLimit THEN unfound[e] + 1 ELSE unfound[e]
  BY <1>1
<1>3. unfound' = [unfound EXCEPT ![e] = x]
  BY <1>2 DEF Miss
<1>4. /\ unfound' \in [Emails -> 0..AttemptLimit] /\ unfound'[e] = x
      /\ \A q \in Emails \ {e} : unfound'[q] = unfound[q]
  BY <1>1, <1>3
<1> QED
  BY <1>1, <1>2, <1>4 DEF Missed

\* A worker that passes the check of k, or goes on at the limit, or whose user is
\* not found, is to count.
LEMMA EntersKey ==
  ASSUME ThrottleAssumption, FiniteWorkers, Typed, NEW w \in Workers, NEW k \in Keys,
         pc[w] \in {"rate", "findUser", "login"}, NEW step \in {"seeRequests", "seeAttempts"},
         \A q \in Keys : Bound(step, req[w], q) <=> q = k,
         Go(w, step, req[w]), counter' = counter, NEW f \in MayFail, Fails(f),
         \/ UNCHANGED <<passed, unfound>> /\ Reached(k)
         \/ (f \/ ~Reached(k)) /\ Pass(k) /\ UNCHANGED unfound
         \/ k \in Emails /\ Miss(k) /\ UNCHANGED passed
  PROVE  Stepped
<1>1. /\ pc[w] \in Steps /\ req[w] \in Requests /\ Addressed(pc[w], req[w])
      /\ \A q \in Keys : w \notin Counting(q) /\ w \notin Late(q)
  BY Elsewhere, WorkerIsAt DEF Typed
<1>2. step \in Steps /\ Addressed(step, req[w]) /\ \A q \in Keys : ~SetsOne(step, req[w], q)
  BY <1>1 DEF Steps, Addressed, SetsOne
<1>3. /\ WorkersTyped'
      /\ Counting(k)' = Counting(k) \cup {w}
      /\ \A q \in Keys \ {k} : Counting(q)' = Counting(q)
      /\ \A q \in Keys : Late(q)' = Late(q)
  <2>1. /\ WorkersTyped'
        /\ \A q \in Keys :
              /\ Counting(q)' = IF Bound(step, req[w], q) THEN Counting(q) \cup {w} ELSE Counting(q) \ {w}
              /\ Late(q)' = IF SetsOne(step, req[w], q) THEN Late(q) \cup {w} ELSE Late(q) \ {w}
    BY <1>1, <1>2, WorkerGoes DEF Typed
  <2>2. \A q \in Keys : Counting(q)' = IF q = k THEN Counting(q) \cup {w} ELSE Counting(q) \ {w}
    BY <2>1
  <2>3. \A q \in Keys : Late(q)' = Late(q) \ {w}
    BY <1>2, <2>1
  <2>4. \A q \in Keys : Counting(q) \ {w} = Counting(q) /\ Late(q) \ {w} = Late(q)
    BY <1>1
  <2> QED
    BY <2>1, <2>2, <2>3, <2>4
<1>4. failed' \in BOOLEAN /\ (failed => failed') /\ (f => failed')
  BY FailsEffect DEF Typed
<1>5. /\ passed' \in [Keys -> Nat] /\ \A q \in Keys : passed'[q] <= HistoryBound(q)
      /\ \A q \in Keys \ {k} : passed'[q] = passed[q]
  BY PassEffect DEF Typed, KeysTyped
<1>6. /\ unfound' \in [Emails -> 0..AttemptLimit]
      /\ \A q \in Keys \ {k} : Missed(q)' = Missed(q)
  BY MissEffect DEF Typed, KeysTyped, Missed
<1>7. KeysTyped'
  BY <1>4, <1>5, <1>6, KeysKept DEF Typed
<1>8. \/ passed'[k] = passed[k] /\ Missed(k)' = Missed(k) /\ Reached(k)
      \/ /\ failed' \/ ~Reached(k)
         /\ passed'[k] = IF passed[k] < HistoryBound(k) THEN passed[k] + 1 ELSE passed[k]
         /\ Missed(k)' = Missed(k)
      \/ /\ passed'[k] = passed[k]
         /\ Missed(k)' = IF Missed(k) < LimitOf(k) THEN Missed(k) + 1 ELSE Missed(k)
  <2>1. CASE UNCHANGED <<passed, unfound>> /\ Reached(k)
    BY <2>1 DEF Missed
  <2>2. CASE (f \/ ~Reached(k)) /\ Pass(k) /\ UNCHANGED unfound
    <3>1. passed'[k] = IF passed[k] < HistoryBound(k) THEN passed[k] + 1 ELSE passed[k]
      BY <2>2, PassEffect DEF Typed
    <3>2. Missed(k)' = Missed(k) /\ (failed' \/ ~Reached(k))
      BY <1>4, <2>2 DEF Missed
    <3> QED
      BY <3>1, <3>2
  <2>3. CASE k \in Emails /\ Miss(k) /\ UNCHANGED passed
    BY <2>3, MissEffect DEF Typed
  <2> QED
    BY <2>1, <2>2, <2>3
<1>9. Enters(w, k)
  BY <1>1, <1>3, <1>8 DEF Enters
<1>10. \A q \in Keys \ {k} : Unmoved(q)
  BY <1>3, <1>5, <1>6 DEF Unmoved
<1> QED
  BY <1>3, <1>4, <1>7, <1>9, <1>10 DEF Stepped, Typed, KeyStep

LEMMA SeesKey ==
  ASSUME ThrottleAssumption, Typed, NEW w \in Workers, NEW k \in Keys,
         pc[w] \in {"seeRequests", "seeAttempts"}, NEW step \in {"countRequest", "countFailure"},
         \A q \in Keys : Bound(pc[w], req[w], q) <=> q = k,
         \A q \in Keys : \A r : r.keys = req[w].keys => (Bound(step, r, q) <=> q = k),
         See(w, k, step)
  PROVE  Stepped
<1>1. PICK f \in MayFail : /\ Fails(f)
                           /\ Go(w, step, [req[w] EXCEPT !.seen = f \/ Exists(k)])
  BY DEF See
<1>2. PICK b \in BOOLEAN : b = (f \/ Exists(k))
  OBVIOUS
<1>3. PICK r : r = [req[w] EXCEPT !.seen = b]
  OBVIOUS
<1>4. req[w] \in Requests /\ Addressed(pc[w], req[w])
  BY WorkerIsAt DEF Typed
<1>5. r \in Requests /\ r.keys = req[w].keys /\ r.seen = b
  BY <1>3, <1>4 DEF Requests
<1>6. Go(w, step, r)
  BY <1>1, <1>2, <1>3
<1>7. step \in Steps /\ Addressed(step, r)
  BY <1>4, <1>5 DEF Steps, Addressed
<1>8. \A q \in Keys : /\ Bound(step, r, q) <=> q = k
                      /\ SetsOne(step, r, q) <=> (q = k /\ ~b)
  BY <1>5 DEF SetsOne
<1>9. \A q \in Keys : (w \in Counting(q) <=> q = k) /\ w \notin Late(q)
  BY WorkerIsAt DEF Typed, SetsOne
<1>10. /\ WorkersTyped'
       /\ \A q \in Keys : Counting(q)' = Counting(q)
       /\ \A q \in Keys : Late(q)' = IF q = k /\ ~b THEN Late(q) \cup {w} ELSE Late(q)
  <2>1. /\ WorkersTyped'
        /\ \A q \in Keys :
              /\ Counting(q)' = IF Bound(step, r, q) THEN Counting(q) \cup {w} ELSE Counting(q) \ {w}
              /\ Late(q)' = IF SetsOne(step, r, q) THEN Late(q) \cup {w} ELSE Late(q) \ {w}
    BY <1>5, <1>6, <1>7, WorkerGoes DEF Typed
  <2>2. \A q \in Keys : Counting(q)' = IF q = k THEN Counting(q) \cup {w} ELSE Counting(q) \ {w}
    BY <1>8, <2>1
  <2>3. \A q \in Keys : Late(q)' = IF q = k /\ ~b THEN Late(q) \cup {w} ELSE Late(q) \ {w}
    BY <1>8, <2>1
  <2>4. \A q \in Keys : q = k => Counting(q) \cup {w} = Counting(q)
    BY <1>9
  <2>5. \A q \in Keys : (q # k => Counting(q) \ {w} = Counting(q)) /\ Late(q) \ {w} = Late(q)
    BY <1>9
  <2> QED
    BY <2>1, <2>2, <2>3, <2>4, <2>5
<1>11. UNCHANGED <<counter, passed, unfound>>
  BY DEF See
<1>12. Sees(w, k) /\ \A q \in Keys \ {k} : Unmoved(q)
  BY <1>2, <1>10, <1>11 DEF Sees, Unmoved, Missed
<1>13. failed' \in BOOLEAN /\ (failed => failed')
  BY <1>1, FailsEffect DEF Typed
<1>14. KeysTyped'
  BY <1>11, <1>13, KeysKept DEF Typed, KeysTyped
<1> QED
  BY <1>10, <1>12, <1>13, <1>14 DEF Stepped, Typed, KeyStep

LEMMA CountsKey ==
  ASSUME ThrottleAssumption, Typed, NEW w \in Workers, NEW k \in Keys,
         pc[w] \in {"countRequest", "countFailure"},
         \A q \in Keys : Bound(pc[w], req[w], q) <=> q = k,
         NEW step \in {"idle", "findUser"}, NEW r \in Requests, Addressed(step, r),
         Go(w, step, r), Count(w, k)
  PROVE  Stepped
<1>1. \A q \in Keys : /\ w \in Counting(q) <=> q = k
                      /\ w \in Late(q) <=> (q = k /\ ~req[w].seen)
  BY WorkerIsAt DEF Typed, SetsOne
<1>2. step \in Steps /\ \A q \in Keys : ~Bound(step, r, q) /\ ~SetsOne(step, r, q)
  BY Elsewhere DEF Steps
<1>3. /\ WorkersTyped' /\ \A q \in Keys : /\ Counting(q)' = Counting(q) \ {w}
                                         /\ Late(q)' = Late(q) \ {w}
  BY <1>2, WorkerGoes DEF Typed
<1>4. /\ KeysTyped' /\ UNCHANGED <<passed, unfound>> /\ (failed => failed')
      /\ \A q \in Keys \ {k} : counter'[q] = counter[q]
      /\ \/ failed' /\ counter'[k] = counter[k]
         \/ req[w].seen /\ counter'[k].count = Counted(k)
         \/ ~req[w].seen /\ counter'[k].count = 1
  BY CountEffect DEF Typed
<1>5. Counts(w, k)
  BY <1>1, <1>3, <1>4 DEF Counts, Missed
<1>6. \A q \in Keys \ {k} : Unmoved(q)
  <2>1. \A q \in Keys \ {k} : Counting(q) \ {w} = Counting(q) /\ Late(q) \ {w} = Late(q)
    BY <1>1
  <2>2. \A q \in Keys \ {k} : Counting(q)' = Counting(q) /\ Late(q)' = Late(q)
    BY <1>3, <2>1
  <2> QED
    BY <1>4, <2>2 DEF Unmoved, Missed
<1> QED
  BY <1>3, <1>4, <1>5, <1>6 DEF Stepped, Typed, KeyStep

-----------------------------------------------------------------------------
(* Every step.                                                             *)

\* Which key a worker is bound to.
LEMMA BoundTo ==
  ASSUME ThrottleAssumption, Typed, NEW w \in Workers, pc[w] # "idle", NEW r, r.keys = req[w].keys
  PROVE  /\ req[w].keys.client \in Clients /\ req[w].keys.email \in Emails
         /\ \A step \in {"seeRequests", "countRequest"} :
               \A q \in Keys : Bound(step, r, q) <=> q = req[w].keys.client
         /\ \A step \in {"seeAttempts", "countFailure"} :
               \A q \in Keys : Bound(step, r, q) <=> q = req[w].keys.email
         /\ LimitOf(req[w].keys.client) = RequestLimit
         /\ LimitOf(req[w].keys.email) = AttemptLimit
<1>1. req[w].keys.client \in Clients /\ req[w].keys.email \in Emails
  BY DEF Typed, WorkersTyped, Addressed
<1>2. /\ LimitOf(req[w].keys.client) = RequestLimit
      /\ LimitOf(req[w].keys.email) = AttemptLimit
  BY <1>1 DEF LimitOf, ThrottleAssumption
<1>3. /\ \A step \in {"seeRequests", "countRequest"} :
            \A q \in Keys : Bound(step, r, q) <=> q = req[w].keys.client
      /\ \A step \in {"seeAttempts", "countFailure"} :
            \A q \in Keys : Bound(step, r, q) <=> q = req[w].keys.email
  BY DEF Bound
<1> QED
  BY <1>1, <1>2, <1>3

LEMMA NoReqTyped == NoReq \in Requests /\ Addressed("idle", NoReq)
  BY DEF NoReq, Requests, Addressed

LEMMA Submitted ==
  ASSUME ThrottleAssumption, Typed, NEW w \in Workers, SubmitAny(w)
  PROVE  Stepped
<1>1. PICK kind \in {"plain", "login"}, c \in Clients, e \in Emails : Submit(w, kind, c, e)
  BY DEF SubmitAny
<1>2. PICK r : r = [kind |-> kind, keys |-> [client |-> c, email |-> e], seen |-> FALSE]
  OBVIOUS
<1>3. r \in Requests /\ Addressed("rate", r)
  BY <1>2 DEF Requests, Addressed
<1>4. pc[w] = "idle" /\ Go(w, "rate", r) /\ UNCHANGED <<counter, passed, unfound, failed>>
  BY <1>1, <1>2 DEF Submit
<1>5. failed' \in BOOLEAN /\ (failed => failed')
  BY <1>4 DEF Typed, KeysTyped
<1> QED
  BY <1>3, <1>4, <1>5, StaysApart

LEMMA RequestsLimited ==
  ASSUME ThrottleAssumption, FiniteWorkers, Typed, NEW w \in Workers, LimitRequests(w)
  PROVE  Stepped
<1> DEFINE c == req[w].keys.client
<1>1. pc[w] = "rate" /\ UNCHANGED <<counter, unfound>>
  BY DEF LimitRequests
<1>2. PICK f \in MayFail :
             /\ Fails(f)
             /\ IF ~f /\ counter[c].count >= RequestLimit
                THEN Finish(w) /\ UNCHANGED passed
                ELSE Go(w, "seeRequests", req[w]) /\ Pass(c)
  BY DEF LimitRequests
<1>3. /\ c \in Keys /\ LimitOf(c) = RequestLimit
      /\ \A q \in Keys : Bound("seeRequests", req[w], q) <=> q = c
  BY <1>1, BoundTo DEF Keys
<1>4. failed' \in BOOLEAN /\ (failed => failed')
  BY <1>2, FailsEffect DEF Typed
<1>5. CASE ~f /\ counter[c].count >= RequestLimit
  BY <1>1, <1>2, <1>4, <1>5, NoReqTyped, StaysApart DEF Finish
<1>6. CASE f \/ ~(counter[c].count >= RequestLimit)
  <2>1. f \/ ~Reached(c)
    BY <1>3, <1>6 DEF Reached
  <2>2. Go(w, "seeRequests", req[w]) /\ Pass(c) /\ Fails(f)
    BY <1>2, <1>6
  <2> HIDE DEF c
  <2> QED
    BY <1>1, <1>3, <2>1, <2>2, EntersKey
<1> QED
  BY <1>5, <1>6

LEMMA RequestsSeen ==
  ASSUME ThrottleAssumption, Typed, NEW w \in Workers, SeeRequests(w)
  PROVE  Stepped
<1>1. pc[w] = "seeRequests" /\ See(w, req[w].keys.client, "countRequest")
  BY DEF SeeRequests
<1>2. PICK k : k = req[w].keys.client
  OBVIOUS
<1>3. k \in Keys /\ \A q \in Keys : Bound(pc[w], req[w], q) <=> q = k
  BY <1>1, <1>2, BoundTo DEF Keys
<1>4. \A q \in Keys : \A r : r.keys = req[w].keys => (Bound("countRequest", r, q) <=> q = k)
  BY <1>1, <1>2, BoundTo
<1> QED
  BY <1>1, <1>2, <1>3, <1>4, SeesKey

LEMMA AttemptsSeen ==
  ASSUME ThrottleAssumption, Typed, NEW w \in Workers, SeeAttempts(w)
  PROVE  Stepped
<1>1. pc[w] = "seeAttempts" /\ See(w, req[w].keys.email, "countFailure")
  BY DEF SeeAttempts
<1>2. PICK k : k = req[w].keys.email
  OBVIOUS
<1>3. k \in Keys /\ \A q \in Keys : Bound(pc[w], req[w], q) <=> q = k
  BY <1>1, <1>2, BoundTo DEF Keys
<1>4. \A q \in Keys : \A r : r.keys = req[w].keys => (Bound("countFailure", r, q) <=> q = k)
  BY <1>1, <1>2, BoundTo
<1> QED
  BY <1>1, <1>2, <1>3, <1>4, SeesKey

LEMMA RequestCounted ==
  ASSUME ThrottleAssumption, Typed, NEW w \in Workers, CountRequest(w)
  PROVE  Stepped
<1>1. /\ pc[w] = "countRequest" /\ Count(w, req[w].keys.client)
      /\ IF req[w].kind = "login" THEN Go(w, "findUser", [req[w] EXCEPT !.seen = FALSE])
                                  ELSE Finish(w)
  BY DEF CountRequest
<1>2. PICK k : k = req[w].keys.client
  OBVIOUS
<1>3. k \in Keys /\ \A q \in Keys : Bound(pc[w], req[w], q) <=> q = k
  BY <1>1, <1>2, BoundTo DEF Keys
<1>4. CASE Finish(w)
  BY <1>1, <1>2, <1>3, <1>4, NoReqTyped, CountsKey DEF Finish
<1>5. CASE Go(w, "findUser", [req[w] EXCEPT !.seen = FALSE])
  <2>1. PICK r : r = [req[w] EXCEPT !.seen = FALSE]
    OBVIOUS
  <2>2. r \in Requests /\ Addressed("findUser", r)
    <3>1. req[w] \in Requests /\ Addressed(pc[w], req[w])
      BY WorkerIsAt DEF Typed
    <3>2. r \in Requests /\ r.keys = req[w].keys
      BY <2>1, <3>1 DEF Requests
    <3> QED
      BY <1>1, <3>1, <3>2 DEF Addressed
  <2> QED
    BY <1>1, <1>2, <1>3, <1>5, <2>1, <2>2, CountsKey
<1> QED
  BY <1>1, <1>4, <1>5

LEMMA FailureCounted ==
  ASSUME ThrottleAssumption, Typed, NEW w \in Workers, CountFailure(w)
  PROVE  Stepped
<1>1. pc[w] = "countFailure" /\ Count(w, req[w].keys.email) /\ Go(w, "idle", NoReq)
  BY DEF CountFailure, Finish
<1>2. PICK k : k = req[w].keys.email
  OBVIOUS
<1>3. k \in Keys /\ \A q \in Keys : Bound(pc[w], req[w], q) <=> q = k
  BY <1>1, <1>2, BoundTo DEF Keys
<1> QED
  BY <1>1, <1>2, <1>3, NoReqTyped, CountsKey

LEMMA UserFound ==
  ASSUME ThrottleAssumption, FiniteWorkers, Typed, NEW w \in Workers, FindUser(w)
  PROVE  Stepped
<1>1. PICK e : e = req[w].keys.email
  OBVIOUS
<1>2. pc[w] = "findUser" /\ UNCHANGED <<counter, passed, failed>>
  BY DEF FindUser
<1>3. /\ e \in Keys /\ e \in Emails
      /\ \A q \in Keys : Bound("seeAttempts", req[w], q) <=> q = e
  BY <1>1, <1>2, BoundTo DEF Keys
<1>4. failed' \in BOOLEAN /\ (failed => failed')
  BY <1>2 DEF Typed, KeysTyped
<1>5. CASE Go(w, "login", req[w]) /\ UNCHANGED unfound
  <2>1. req[w] \in Requests /\ Addressed("login", req[w])
    BY <1>2, WorkerIsAt DEF Typed, Addressed
  <2> QED
    BY <1>2, <1>4, <1>5, <2>1, StaysApart
<1>6. CASE Go(w, "seeAttempts", req[w]) /\ Miss(e)
  <2>1. PICK f \in MayFail : f = FALSE
    BY DEF MayFail
  <2>2. Fails(f)
    BY <1>2, <2>1 DEF Fails, Typed, KeysTyped
  <2> QED
    BY <1>2, <1>3, <1>6, <2>2, EntersKey
<1> QED
  BY <1>1, <1>5, <1>6 DEF FindUser

LEMMA LoggedIn ==
  ASSUME ThrottleAssumption, FiniteWorkers, Typed, NEW w \in Workers, Login(w)
  PROVE  Stepped
<1>1. PICK e : e = req[w].keys.email
  OBVIOUS
<1>2. pc[w] = "login" /\ UNCHANGED <<counter, unfound>>
  BY DEF Login
<1>3. PICK f \in MayFail :
             /\ Fails(f)
             /\ IF ~f /\ counter[e].count >= AttemptLimit
                THEN Go(w, "seeAttempts", req[w]) /\ UNCHANGED passed
                ELSE \/ Go(w, "reset", req[w]) /\ UNCHANGED passed
                     \/ Go(w, "seeAttempts", req[w]) /\ Pass(e)
  BY <1>1 DEF Login
<1>4. /\ e \in Keys /\ LimitOf(e) = AttemptLimit
      /\ \A q \in Keys : Bound("seeAttempts", req[w], q) <=> q = e
  BY <1>1, <1>2, BoundTo DEF Keys
<1>5. failed' \in BOOLEAN /\ (failed => failed')
  BY <1>3, FailsEffect DEF Typed
<1>6. CASE Go(w, "reset", req[w]) /\ passed' = passed
  <2>1. req[w] \in Requests /\ Addressed("reset", req[w])
    BY <1>2, WorkerIsAt DEF Typed, Addressed
  <2> QED
    BY <1>2, <1>5, <1>6, <2>1, StaysApart
<1>7. CASE Go(w, "seeAttempts", req[w]) /\ passed' = passed /\ Reached(e)
  BY <1>2, <1>3, <1>4, <1>7, EntersKey
<1>8. CASE Go(w, "seeAttempts", req[w]) /\ Pass(e) /\ (f \/ ~Reached(e))
  BY <1>2, <1>3, <1>4, <1>8, EntersKey
<1> QED
  BY <1>3, <1>4, <1>6, <1>7, <1>8 DEF Reached

\* The key of an email is deleted, or the time to live of some keys is over.
LEMMA Restarted ==
  ASSUME ThrottleAssumption, FiniteWorkers, KeysTyped, failed' \in BOOLEAN,
         counter' \in [Keys -> [count : Nat, ttl : Nat \cup {Forever}]], passed' \in [Keys -> Nat],
         unfound' \in [Emails -> 0..AttemptLimit],
         \A k \in Keys : \/ counter'[k] = Absent /\ passed'[k] = 0
                         \/ Formed(k, counter'[k]) /\ passed'[k] = passed[k]
  PROVE  KeysTyped'
<1>1. \A k \in Keys : Formed(k, counter'[k])
  BY AbsentFormed
<1>2. \A k \in Keys : HistoryBound(k) \in Nat /\ passed[k] <= HistoryBound(k)
  BY ExcessPositive DEF KeysTyped
<1>3. \A k \in Keys : passed'[k] <= HistoryBound(k)
  BY <1>2
<1> QED
  BY <1>1, <1>3 DEF KeysTyped, Formed, LimitOf, Lifetime, HistoryBound, Excess

LEMMA AbsentTyped == Absent \in [count : Nat, ttl : Nat \cup {Forever}]
  BY DEF Absent

LEMMA ResetDone ==
  ASSUME ThrottleAssumption, FiniteWorkers, Typed, NEW w \in Workers, Reset(w)
  PROVE  Stepped
<1>1. PICK e : e = req[w].keys.email
  OBVIOUS
<1>2. pc[w] = "reset" /\ Go(w, "idle", NoReq)
  BY DEF Reset, Finish
<1>3. PICK f \in MayFail : /\ Fails(f)
                           /\ IF f THEN UNCHANGED <<counter, passed, unfound>> ELSE Del(e)
  BY <1>1 DEF Reset
<1>4. e \in Keys /\ e \in Emails
  BY <1>1, <1>2, BoundTo DEF Keys
<1>5. failed' \in BOOLEAN /\ (failed => failed')
  BY <1>3, FailsEffect DEF Typed
<1>6. CASE f
  BY <1>2, <1>3, <1>5, <1>6, NoReqTyped, StaysApart
<1>7. CASE ~f
  <2>1. /\ counter' = [counter EXCEPT ![e] = Absent]
        /\ passed' = [passed EXCEPT ![e] = 0]
        /\ unfound' = [unfound EXCEPT ![e] = 0]
    BY <1>3, <1>7 DEF Del
  <2>2. /\ counter' \in [Keys -> [count : Nat, ttl : Nat \cup {Forever}]] /\ passed' \in [Keys -> Nat]
        /\ counter'[e] = Absent /\ passed'[e] = 0
        /\ \A k \in Keys \ {e} : counter'[k] = counter[k] /\ passed'[k] = passed[k]
    BY <1>4, <2>1, AbsentTyped DEF Typed, KeysTyped
  <2>3. \A k \in Keys \ {e} : Formed(k, counter'[k])
    BY <2>2 DEF Typed, KeysTyped
  <2>7. /\ unfound' \in [Emails -> 0..AttemptLimit] /\ Missed(e)' = 0
        /\ \A k \in Keys \ {e} : Missed(k)' = Missed(k)
    <3>1. 0 \in 0..AttemptLimit
      BY DEF ThrottleAssumption
    <3>2. unfound \in [Emails -> 0..AttemptLimit]
      BY DEF Typed, KeysTyped
    <3> QED
      BY <1>4, <2>1, <3>1, <3>2 DEF Missed
  <2>4. KeysTyped'
    BY <1>5, <2>2, <2>3, <2>7, Restarted DEF Typed
  <2>5. WorkersTyped' /\ \A k \in Keys : Counting(k)' = Counting(k) /\ Late(k)' = Late(k)
    BY <1>2, NoReqTyped, GoesElsewhere
  <2>6. Expires(e) /\ \A k \in Keys \ {e} : Unmoved(k)
    BY <1>4, <2>2, <2>5, <2>7 DEF Expires, Unmoved
  <2> QED
    BY <1>5, <2>4, <2>5, <2>6 DEF Stepped, Typed, KeyStep
<1> QED
  BY <1>6, <1>7

LEMMA Ticked ==
  ASSUME ThrottleAssumption, FiniteWorkers, Typed, Tick
  PROVE  Stepped
<1>1. UNCHANGED <<failed, pc, req>>
  BY DEF Tick
<1>2. WorkersTyped' /\ \A k \in Keys : Counting(k)' = Counting(k) /\ Late(k)' = Late(k)
  BY <1>1 DEF Typed, WorkersTyped, Addressed, Counting, Late, Bound, SetsOne
<1>3. ASSUME NEW k \in Keys
      PROVE  /\ counter'[k] \in [count : Nat, ttl : Nat \cup {Forever}] /\ passed'[k] \in Nat
             /\ \/ counter[k].ttl = 1 /\ counter'[k] = Absent /\ passed'[k] = 0
                \/ /\ counter[k].ttl # 1 /\ Formed(k, counter'[k])
                   /\ counter'[k].count = counter[k].count /\ passed'[k] = passed[k]
  <2>1. PICK c : c = counter[k]
    OBVIOUS
  <2>2. Formed(k, c) /\ passed[k] \in Nat
    BY <2>1 DEF Typed, KeysTyped
  <2>3. /\ counter'[k] = IF c.ttl = 1 THEN Absent
                         ELSE IF c.ttl > 1 THEN [c EXCEPT !.ttl = @ - 1] ELSE c
        /\ passed'[k] = IF c.ttl = 1 THEN 0 ELSE passed[k]
    BY <2>1 DEF Tick
  <2>4. CASE c.ttl = 1
    BY <2>1, <2>3, <2>4, AbsentTyped
  <2>5. CASE c.ttl # 1 /\ c.ttl > 1
    <3>1. PICK d : d = [c EXCEPT !.ttl = @ - 1]
      OBVIOUS
    <3>2. c.ttl \in 2..Lifetime(k) /\ Lifetime(k) \in Nat
      BY <2>2, <2>5, LimitPositive DEF Formed, Forever
    <3>3. d.count = c.count /\ d.ttl = c.ttl - 1 /\ d \in [count : Nat, ttl : Nat \cup {Forever}]
      BY <2>2, <3>1, <3>2 DEF Formed
    <3>4. c.count # 0
      BY <2>2, <2>5 DEF Formed, Absent, Forever
    <3>5. Formed(k, d)
      BY <2>2, <3>2, <3>3, <3>4 DEF Formed
    <3> QED
      BY <2>1, <2>2, <2>3, <2>5, <3>1, <3>3, <3>5
  <2>6. CASE c.ttl # 1 /\ ~(c.ttl > 1)
    BY <2>1, <2>2, <2>3, <2>6 DEF Formed
  <2> QED
    BY <2>4, <2>5, <2>6
<1>4. /\ counter' \in [Keys -> [count : Nat, ttl : Nat \cup {Forever}]]
      /\ passed' \in [Keys -> Nat]
  <2>1. /\ counter' = [k \in Keys |-> IF counter[k].ttl = 1 THEN Absent
                                      ELSE IF counter[k].ttl > 1 THEN [counter[k] EXCEPT !.ttl = @ - 1]
                                           ELSE counter[k]]
        /\ passed' = [k \in Keys |-> IF counter[k].ttl = 1 THEN 0 ELSE passed[k]]
    BY DEF Tick
  <2>2. \A k \in Keys : counter'[k] \in [count : Nat, ttl : Nat \cup {Forever}] /\ passed'[k] \in Nat
    BY <1>3
  <2> QED
    BY <2>1, <2>2
<1>5. /\ unfound' \in [Emails -> 0..AttemptLimit]
      /\ \A k \in Keys : Missed(k)' = IF counter[k].ttl = 1 THEN 0 ELSE Missed(k)
  <2>1. unfound' = [e \in Emails |-> IF counter[e].ttl = 1 THEN 0 ELSE unfound[e]]
    BY DEF Tick
  <2>2. unfound \in [Emails -> 0..AttemptLimit] /\ 0 \in 0..AttemptLimit
    BY DEF Typed, KeysTyped, ThrottleAssumption
  <2> QED
    BY <2>1, <2>2 DEF Missed
<1>7. KeysTyped'
  BY <1>1, <1>3, <1>4, <1>5, Restarted DEF Typed, KeysTyped
<1>6. \A k \in Keys : Unmoved(k) \/ Expires(k)
  BY <1>2, <1>3, <1>5 DEF Unmoved, Expires
<1> QED
  BY <1>1, <1>2, <1>6, <1>7 DEF Stepped, Typed, KeyStep

LEMMA EveryStep ==
  ASSUME ThrottleAssumption, FiniteWorkers, Typed, Next
  PROVE  Stepped
  BY Ticked, Submitted, RequestsLimited, RequestsSeen, RequestCounted, UserFound, LoggedIn, ResetDone,
     AttemptsSeen, FailureCounted DEF Next, Work

-----------------------------------------------------------------------------
(* The invariants of one key.                                              *)

\* How many have yet to count, and how many of them will set the key to one.
LEMMA YetToCount ==
  ASSUME FiniteWorkers, NEW k
  PROVE  /\ IsFiniteSet(Counting(k)) /\ IsFiniteSet(Late(k))
         /\ Cardinality(Counting(k)) \in 0..N /\ Cardinality(Late(k)) \in 0..N
<1>1. Counting(k) \subseteq Workers /\ Late(k) \subseteq Workers
  BY DEF Counting, Late
<1> QED
  BY <1>1, WorkersCounted, FS_Subset, FS_CardinalityType DEF FiniteWorkers, N

\* What has been counted in this lifetime of the key, or is about to be, has
\* passed or was not found in this lifetime, or was under way when it began; or
\* enough have passed or were not found.
Caused(k) == \/ passed[k] + Missed(k) + N >= LimitOf(k)
             \/ counter[k].count + Cardinality(Counting(k)) <= passed[k] + Missed(k) + N

ManyPassed(k) ==
    Undercounted(counter[k].count, passed[k], Cardinality(Counting(k)), Cardinality(Late(k)), LimitOf(k))

KeyInv(k) == Caused(k) /\ (failed \/ ManyPassed(k))

ThrottleInv == Typed /\ \A k \in Keys : KeyInv(k)

LEMMA Numbers ==
  ASSUME ThrottleAssumption, FiniteWorkers, Typed, NEW k \in Keys
  PROVE  /\ counter[k].count \in Nat /\ passed[k] \in Nat /\ LimitOf(k) \in Nat \ {0} /\ N \in Nat
         /\ Missed(k) \in Nat
         /\ Cardinality(Counting(k)) \in 0..N /\ Cardinality(Late(k)) \in 0..N
<1>1. LimitOf(k) \in Nat \ {0} /\ N \in Nat
  BY LimitPositive, WorkersCounted
<1>2. Missed(k) \in Nat
  BY DEF Typed, KeysTyped, Missed, ThrottleAssumption
<1> QED
  BY <1>1, <1>2, YetToCount DEF Typed, KeysTyped

\* One worker more, or less, that has yet to count.
LEMMA OneMore ==
  ASSUME NEW S, IsFiniteSet(S), NEW w, w \notin S
  PROVE  Cardinality(S \cup {w}) = Cardinality(S) + 1
  BY FS_AddElement

LEMMA OneLess ==
  ASSUME NEW S, IsFiniteSet(S), NEW w \in S
  PROVE  Cardinality(S) = Cardinality(S \ {w}) + 1 /\ Cardinality(S \ {w}) \in Nat
  BY FS_RemoveElement, FS_CardinalityType

LEMMA LimitsStay == N' = N /\ \A k : LimitOf(k)' = LimitOf(k) /\ HistoryBound(k)' = HistoryBound(k)
  BY DEF N, LimitOf, HistoryBound, Excess

LEMMA UnmovedKeeps ==
  ASSUME NEW k \in Keys, KeyInv(k), Unmoved(k), failed => failed'
  PROVE  KeyInv(k)'
<1>1. /\ counter'[k].count = counter[k].count /\ passed'[k] = passed[k] /\ Missed(k)' = Missed(k)
      /\ Counting(k)' = Counting(k) /\ Late(k)' = Late(k)
  BY DEF Unmoved
<1>2. Caused(k)'
  BY <1>1, LimitsStay DEF KeyInv, Caused
<1>3. ManyPassed(k) => ManyPassed(k)'
  BY <1>1, LimitsStay DEF ManyPassed, Undercounted
<1> QED
  BY <1>2, <1>3 DEF KeyInv

\* In a new lifetime nothing has passed, and who was under way may count.
LEMMA ExpiresKeeps ==
  ASSUME ThrottleAssumption, FiniteWorkers, Typed, NEW k \in Keys, Expires(k)
  PROVE  KeyInv(k)'
<1>1. /\ counter'[k].count = 0 /\ passed'[k] = 0 /\ Missed(k)' = 0
      /\ Cardinality(Counting(k)') \in 0..N /\ N \in Nat
  BY Numbers DEF Expires, Absent
<1>2. Caused(k)'
  BY <1>1, LimitsStay DEF Caused
<1>3. ManyPassed(k)'
  BY <1>1 DEF ManyPassed, Undercounted
<1> QED
  BY <1>2, <1>3 DEF KeyInv

LEMMA EntersKeeps ==
  ASSUME ThrottleAssumption, FiniteWorkers, Typed, NEW k \in Keys, KeyInv(k), failed => failed',
         NEW w \in Workers, Enters(w, k)
  PROVE  KeyInv(k)'
<1> DEFINE c == counter[k].count
           x == passed[k]
           m == Missed(k)
           p == Cardinality(Counting(k))
           z == Cardinality(Late(k))
           L == LimitOf(k)
<1>1. c \in Nat /\ x \in Nat /\ m \in Nat /\ p \in 0..N /\ z \in 0..N /\ L \in Nat \ {0} /\ N \in Nat
  BY Numbers
<1>2. N \in Nat /\ HistoryBound(k) \in Nat /\ HistoryBound(k) >= L
  <2>1. HistoryBound(k) = Excess(k) + 1 /\ Excess(k) \in Nat /\ N \in Nat
    BY ExcessPositive, WorkersCounted
  <2>2. N >= 1
    BY WorkersCounted, FS_EmptySet DEF FiniteWorkers, N
  <2> HIDE DEF L
  <2>3. N * (L + N - 2) >= L + N - 2
    <3>1. N - 1 \in Nat /\ L + N - 2 \in Nat
      BY <1>1, <2>1, <2>2
    <3>2. PICK M \in Nat, K \in Nat : M = N - 1 /\ K = L + N - 2
      BY <3>1
    <3>3. N = M + 1
      BY <2>1, <3>2
    <3>4. N * K = M * K + 1 * K /\ M * K \in Nat
      BY <3>2, <3>3, Distributes
    <3> QED
      <4>1. PICK P \in Nat : P = M * K
        BY <3>4
      <4>2. N * K = P + K
        BY <3>2, <3>4, <4>1
      <4> QED
        BY <3>2, <4>1, <4>2
  <2>4. Excess(k) = N * (L + N - 2) + 1
    BY DEF Excess, N, L
  <2> QED
    BY <1>1, <2>1, <2>2, <2>3, <2>4
<1>3. /\ counter'[k].count = c /\ Cardinality(Counting(k)') = p + 1 /\ Cardinality(Late(k)') = z
      /\ \/ passed'[k] = x /\ Missed(k)' = m /\ c >= L
         \/ /\ failed' \/ c < L
            /\ passed'[k] = IF x < HistoryBound(k) THEN x + 1 ELSE x
            /\ Missed(k)' = m
         \/ passed'[k] = x /\ Missed(k)' = IF m < L THEN m + 1 ELSE m
  BY <1>1, YetToCount, OneMore DEF Enters, Reached
<1> HIDE DEF c, x, m, p, z, L
<1>4. Caused(k)'
  <2>1. x + m + N >= L \/ c + p <= x + m + N
    BY DEF KeyInv, Caused, c, x, m, p, L
  <2>2. PICK y, n : y = passed'[k] /\ n = Missed(k)'
    OBVIOUS
  <2>3. y + n + N >= L \/ c + (p + 1) <= y + n + N
    BY <1>1, <1>2, <1>3, <2>1, <2>2
  <2> QED
    BY <1>3, <2>2, <2>3, LimitsStay DEF Caused, L
<1>5. failed' \/ ManyPassed(k)'
  <2>1. CASE failed'
    BY <2>1
  <2>2. CASE ~failed'
    <3>1. Undercounted(c, x, p, z, L)
      BY <2>2 DEF KeyInv, ManyPassed, c, x, p, z, L
    <3>2. PICK y \in Nat : y = passed'[k] /\ y <= x + 1
      BY <1>1, <1>2, <1>3
    <3>3. p \in Nat /\ z \in Nat
      BY <1>1
    <3>4. Undercounted(c, y, p + 1, z, L)
      <4>1. CASE c < L
        BY <1>1, <3>1, <3>2, <3>3, <4>1, PassUndercounts
      <4>2. CASE ~(c < L)
        <5>1. y = x /\ c >= L
          BY <1>1, <1>3, <2>2, <3>2, <4>2
        <5> QED
          BY <1>1, <3>1, <3>3, <5>1, RefusalUndercounts
      <4> QED
        BY <4>1, <4>2
    <3> QED
      BY <1>3, <3>2, <3>4, LimitsStay DEF ManyPassed, Undercounted, L
  <2> QED
    BY <2>1, <2>2
<1> QED
  BY <1>4, <1>5 DEF KeyInv

LEMMA SeesKeeps ==
  ASSUME ThrottleAssumption, FiniteWorkers, Typed, NEW k \in Keys, KeyInv(k), failed => failed',
         NEW w \in Workers, Sees(w, k)
  PROVE  KeyInv(k)'
<1>1. /\ counter'[k] = counter[k] /\ passed'[k] = passed[k] /\ Counting(k)' = Counting(k)
      /\ Missed(k)' = Missed(k)
      /\ counter[k].count # 0 => Late(k)' = Late(k)
  BY Numbers DEF Sees, Exists
<1>2. Caused(k)'
  BY <1>1, LimitsStay DEF KeyInv, Caused
<1>3. ManyPassed(k) => ManyPassed(k)'
  BY <1>1, LimitsStay DEF ManyPassed, Undercounted
<1> QED
  BY <1>2, <1>3 DEF KeyInv

LEMMA CountsKeeps ==
  ASSUME ThrottleAssumption, FiniteWorkers, Typed, NEW k \in Keys, KeyInv(k), failed => failed',
         NEW w \in Workers, Counts(w, k)
  PROVE  KeyInv(k)'
<1> DEFINE c == counter[k].count
           d == counter'[k].count
           x == passed[k]
           m == Missed(k)
           q == Cardinality(Counting(k) \ {w})
           z == Cardinality(Late(k))
           y == Cardinality(Late(k) \ {w})
           L == LimitOf(k)
<1>1. c \in Nat /\ x \in Nat /\ m \in Nat /\ z \in 0..N /\ L \in Nat \ {0} /\ N \in Nat
  BY Numbers
<1>2. /\ Cardinality(Counting(k)) = q + 1 /\ q \in Nat /\ q + 1 <= N
      /\ Counting(k)' = Counting(k) \ {w} /\ Late(k)' = Late(k) \ {w} /\ passed'[k] = x
      /\ Missed(k)' = m
  <2>1. Cardinality(Counting(k)) = q + 1 /\ q \in Nat
    BY YetToCount, OneLess DEF Counts
  <2> QED
    BY <2>1, Numbers DEF Counts
<1>3. y \in Nat /\ y < N /\ (w \in Late(k) => z = y + 1) /\ (w \notin Late(k) => z = y)
  <2>1. CASE w \in Late(k)
    <3>1. z = y + 1 /\ y \in Nat
      BY <2>1, YetToCount, OneLess
    <3> QED
      BY <1>1, <2>1, <3>1
  <2>2. CASE w \notin Late(k)
    <3>1. Late(k) \ {w} = Late(k)
      BY <2>2
    <3>2. Late(k) \cup {w} \in SUBSET Workers
      BY DEF Late
    <3>3. Cardinality(Late(k) \cup {w}) = z + 1
      BY <2>2, YetToCount, OneMore
    <3>4. Cardinality(Late(k) \cup {w}) <= N
      BY <3>2, FS_Subset DEF FiniteWorkers, N
    <3> QED
      BY <1>1, <2>2, <3>1, <3>3, <3>4
  <2> QED
    BY <2>1, <2>2
<1>4. \/ failed' /\ d = c
      \/ w \notin Late(k) /\ d = IF c <= L THEN c + 1 ELSE c
      \/ w \in Late(k) /\ d = 1
  BY DEF Counts, Counted
<1>5. Caused(k)'
  <2>1. x + m + N >= L \/ c + (q + 1) <= x + m + N
    BY <1>2 DEF KeyInv, Caused
  <2>2. x + m + N >= L \/ d + q <= x + m + N
    BY <1>1, <1>2, <1>4, <2>1
  <2> QED
    BY <1>2, <2>2, LimitsStay DEF Caused
<1>6. failed' \/ ManyPassed(k)'
  <2>1. SUFFICES ASSUME ~failed' PROVE Undercounted(d, x, q, y, L)
    BY <1>2, LimitsStay DEF ManyPassed, Undercounted
  <2>2. Undercounted(c, x, q + 1, z, L)
    BY <1>2, <2>1 DEF KeyInv, ManyPassed
  <2> HIDE DEF c, d, x, q, z, y, L
  <2>3. CASE c = 0
    <3>1. d = 1
      BY <1>1, <1>4, <2>1, <2>3
    <3>2. Undercounted(0, x, q + 1, z, L)
      BY <2>2, <2>3
    <3>3. Undercounted(1, x, q, y, L)
      BY <1>1, <1>2, <1>3, <3>2, CreationUndercounts
    <3> QED
      BY <3>1, <3>3
  <2>4. CASE c # 0 /\ w \notin Late(k)
    <3>1. d = c + 1 \/ (d = c /\ c > L)
      BY <1>1, <1>4, <2>1, <2>4
    <3>2. d \in Nat /\ c \in Nat \ {0} /\ z = y
      BY <1>1, <1>3, <2>4, <3>1
    <3>3. Undercounted(d, x, q, y, L)
      BY <1>1, <1>2, <1>3, <2>2, <3>1, <3>2, IncrUndercounts
    <3> QED
      BY <3>3
  <2>5. CASE c # 0 /\ w \in Late(k)
    <3>1. d = 1 /\ z = y + 1
      BY <1>3, <1>4, <2>1, <2>5
    <3>2. Undercounted(c, x, q + 1, y + 1, L) /\ c \in Nat \ {0}
      BY <1>1, <2>2, <2>5, <3>1
    <3>3. Undercounted(1, x, q, y, L)
      BY <1>1, <1>2, <1>3, <3>2, SetUndercounts
    <3> QED
      BY <3>1, <3>3
  <2> QED
    BY <2>3, <2>4, <2>5
<1> QED
  BY <1>5, <1>6 DEF KeyInv

-----------------------------------------------------------------------------
LEMMA ThrottleStep ==
  ASSUME ThrottleAssumption, FiniteWorkers, ThrottleInv, [Next]_vars
  PROVE  ThrottleInv'
<1>1. CASE Next
  <2>1. Stepped
    BY <1>1, EveryStep DEF ThrottleInv
  <2>2. ASSUME NEW k \in Keys PROVE KeyInv(k)'
    <3>1. Typed /\ KeyInv(k) /\ KeyStep(k) /\ (failed => failed')
      BY <2>1 DEF Stepped, ThrottleInv
    <3> QED
      BY <3>1, UnmovedKeeps, ExpiresKeeps, EntersKeeps, SeesKeeps, CountsKeeps DEF KeyStep
  <2>3. Keys' = Keys
    BY DEF Keys
  <2> QED
    BY <2>1, <2>2, <2>3 DEF Stepped, ThrottleInv
<1>2. CASE UNCHANGED vars
  <2>1. Typed'
    BY <1>2 DEF vars, ThrottleInv, Typed, KeysTyped, Formed, WorkersTyped, Addressed,
                LimitOf, Lifetime, HistoryBound, Excess
  <2>2. \A k \in Keys : Unmoved(k)
    BY <1>2 DEF vars, Unmoved, Missed, Counting, Late, Bound, SetsOne
  <2>3. failed => failed'
    BY <1>2 DEF vars
  <2> QED
    BY <2>1, <2>2, <2>3, UnmovedKeeps DEF ThrottleInv, Keys
<1> QED
  BY <1>1, <1>2

LEMMA ThrottleStart ==
  ASSUME ThrottleAssumption, FiniteWorkers, Init
  PROVE  ThrottleInv
<1>1. \A k \in Keys : counter[k] = Absent /\ passed[k] = 0 /\ Missed(k) = 0
  BY DEF Init, Missed
<1>2. KeysTyped
  <2>1. /\ counter \in [Keys -> [count : Nat, ttl : Nat \cup {Forever}]]
        /\ passed \in [Keys -> Nat] /\ failed \in BOOLEAN
    BY AbsentTyped DEF Init
  <2>3. unfound \in [Emails -> 0..AttemptLimit]
    <3>1. 0 \in 0..AttemptLimit
      BY DEF ThrottleAssumption
    <3> QED
      BY <3>1 DEF Init
  <2>2. \A k \in Keys : Formed(k, counter[k]) /\ passed[k] <= HistoryBound(k)
    BY <1>1, AbsentFormed, ExcessPositive
  <2> QED
    BY <2>1, <2>2, <2>3 DEF KeysTyped
<1>3. WorkersTyped
  BY NoReqTyped DEF Init, WorkersTyped, Steps
<1>4. ASSUME NEW k \in Keys PROVE KeyInv(k)
  <2>1. Cardinality(Counting(k)) \in 0..N /\ N \in Nat
    BY YetToCount, WorkersCounted
  <2> QED
    BY <1>1, <2>1 DEF KeyInv, Caused, ManyPassed, Undercounted, Absent
<1> QED
  BY <1>2, <1>3, <1>4 DEF ThrottleInv, Typed

LEMMA ThrottleAlways ==
  ASSUME ThrottleAssumption, FiniteWorkers
  PROVE  Spec => []ThrottleInv
<1>1. Init => ThrottleInv
  BY ThrottleStart
<1>2. ThrottleInv /\ [Next]_vars => ThrottleInv'
  BY ThrottleStep
<1> QED
  BY <1>1, <1>2, PTL DEF Spec

\* Every reachable state is well typed: no counter that is zero stays in the
\* store, and none has a time to live longer than what is configured.
THEOREM TypeCorrect ==
  ASSUME ThrottleAssumption, FiniteWorkers
  PROVE  Spec => []TypeOK
<1>1. ThrottleInv => TypeOK
  BY TypesApart DEF ThrottleInv
<1> QED
  BY <1>1, ThrottleAlways, PTL

\* For any number n of concurrent requests, any limits and lifetimes: in one
\* lifetime of its key a limit L lets pass n * (L + n - 2) + 1 at most, if no
\* command fails (the limit itself, when requests come one at a time).
THEOREM ExcessIsBounded ==
  ASSUME ThrottleAssumption, FiniteWorkers
  PROVE  Spec => []ExcessBounded
<1>1. ThrottleInv => ExcessBounded
  <2> SUFFICES ASSUME ThrottleInv, ~failed, NEW k \in Keys PROVE passed[k] <= Excess(k)
    BY DEF ExcessBounded
  <2>1. ManyPassed(k) /\ Typed
    BY DEF ThrottleInv, KeyInv
  <2>2. passed[k] <= N * (LimitOf(k) + N - 2) + 1
    <3>1. PICK p \in Nat, z \in Nat : /\ p = Cardinality(Counting(k)) /\ z = Cardinality(Late(k))
                                     /\ p <= N
      BY <2>1, Numbers
    <3>2. Undercounted(counter[k].count, passed[k], p, z, LimitOf(k))
      BY <2>1, <3>1 DEF ManyPassed
    <3> QED
      BY <2>1, <3>1, <3>2, Numbers, UndercountedExcess
  <2> QED
    BY <2>2 DEF Excess, N
<1> QED
  BY <1>1, ThrottleAlways, PTL

\* Whatever fails and whenever keys expire: when a limit is reached, as many
\* requests have passed it in this lifetime of its key or, for an email, their user
\* was not found, but for one per concurrent request.
THEOREM NobodyRefusedWithoutCause ==
  ASSUME ThrottleAssumption, FiniteWorkers
  PROVE  Spec => []RefusedForCause
<1>1. ThrottleInv => RefusedForCause
  <2> SUFFICES ASSUME ThrottleInv, NEW k \in Keys, Reached(k)
               PROVE  Attempted(k) + Cardinality(Workers) >= LimitOf(k)
    BY DEF RefusedForCause
  <2>1. Caused(k) /\ Typed
    BY DEF ThrottleInv, KeyInv
  <2>2. Attempted(k) = passed[k] + Missed(k)
    BY DEF Attempted, Missed
  <2> QED
    BY <2>1, <2>2, Numbers DEF Caused, Reached, N
<1> QED
  BY <1>1, ThrottleAlways, PTL
=============================================================================
