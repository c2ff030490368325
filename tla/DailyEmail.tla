----------------------------- MODULE DailyEmail -----------------------------
(***************************************************************************)
(* The daily email: a scheduled run reads the entities, hands one job per  *)
(* entity to a pool of goroutines and waits for them.  A job searches the  *)
(* tags that were announced since the entity's last email, mails what it   *)
(* found and stamps the entity.  The scheduler starts a run whether or not *)
(* the one before has ended.                                               *)
(*                                                                         *)
(* Dates are kept by what they are compared with: newer[n] is the set of   *)
(* tags that n looks for and that are dated at or after its last stamp,    *)
(* and since[r][n] the same for the stamp that run r read.  Searches leave *)
(* out no entity's posts: it does not matter here who announces a tag.     *)
(***************************************************************************)
EXTENDS Integers, FiniteSets, FiniteSetsExt

CONSTANTS Runs,        \* runs that may be under way at a time (bound)
          Slots,       \* goroutines of a pool: concurrency_num
          Entities, Tags,
          Searches,    \* for each entity, the tags each of its searches matches
          HitLimit,    \* documents a search returns: the size it does not set
          CallsFail    \* whether a store or the mailer may fail or the process stop

ASSUME DailyEmailAssumption ==
    /\ Searches \in [Entities -> SUBSET SUBSET Tags]
    /\ HitLimit \in Nat /\ CallsFail \in BOOLEAN

VARIABLES newer,
          owed,   \* history: matches announced while n had no job, and that no mail
                  \* to n has told of since
          lost,   \* history: those that a stamp covered although the mail before it
                  \* was not sent, or a search had left them out for its limit
          told,   \* history: tags of which n was mailed, and then stamped, and that
                  \* were not announced after the stamp
          known,  \* history: those that were told before run r, by n
          queue,  \* entities each run has not handed out
          since,
          open,   \* runs under way
          slot    \* what each goroutine of a pool does

store == <<newer, owed, lost, told>>
read == <<since, known>>
vars == <<store, read, queue, open, slot>>

Steps == {"free", "search", "mail", "stamp"}
NoEntity == "no entity"
Free == [step |-> "free", entity |-> NoEntity, searches |-> {}, found |-> {}, untold |-> {}]
Idle == [s \in Slots |-> Free]

\* Of no entity any tag.
Nothing == [n \in Entities |-> {}]

\* Entities that have just been accepted: nothing was announced yet.
Init == /\ newer = Nothing /\ owed = Nothing /\ lost = Nothing /\ told = Nothing
        /\ queue = [r \in Runs |-> {}]
        /\ since = [r \in Runs |-> Nothing] /\ known = [r \in Runs |-> Nothing]
        /\ open = {}
        /\ slot = [r \in Runs |-> Idle]

-----------------------------------------------------------------------------
(* What goes on besides.                                                   *)

Matches(n) == UNION Searches[n]

Busy(n) == \E r \in Runs, s \in Slots : slot[r][s].entity = n

\* With one tag more for those that look for it and that are among ns.
Added(tags, t, ns) == [n \in Entities |-> IF n \in ns /\ t \in Matches(n) THEN tags[n] \cup {t} ELSE tags[n]]
Removed(tags, t, ns) == [n \in Entities |-> IF n \in ns THEN tags[n] \ {t} ELSE tags[n]]

\* Tags!DateDoc and Tags!NewDoc: the tag gets the present date.
Announce(t) ==
    LET waiting == {n \in Entities : ~Busy(n)}
    IN  /\ newer' = Added(newer, t, Entities)
        /\ since' = [r \in Runs |-> IF r \in open THEN Added(since[r], t, Entities) ELSE since[r]]
        /\ owed' = Added(owed, t, waiting)
        /\ lost' = Removed(lost, t, waiting)
        /\ told' = Removed(told, t, Entities)
        /\ known' = [r \in Runs |-> Removed(known[r], t, Entities)]
        /\ UNCHANGED <<queue, open, slot>>

\* Tags!DeleteDoc: the document and its dates are gone.
Withdraw(t) ==
    LET Undated(tags) == Removed(tags, t, Entities)
    IN  /\ newer' = Undated(newer)
        /\ owed' = Undated(owed) /\ lost' = Undated(lost) /\ told' = Undated(told)
        /\ since' = [r \in Runs |-> Undated(since[r])]
        /\ known' = [r \in Runs |-> Undated(known[r])]
        /\ UNCHANGED <<queue, open, slot>>

\* The process stops, with every run.
Crash == /\ CallsFail
         /\ open' = {}
         /\ queue' = [r \in Runs |-> {}]
         /\ slot' = [r \in Runs |-> Idle]
         /\ since' = [r \in Runs |-> Nothing] /\ known' = [r \in Runs |-> Nothing]
         /\ UNCHANGED store

-----------------------------------------------------------------------------
(* The run.                                                                *)

\* The entities that want the email are read: any, as they subscribe and are
\* accepted when they like.  The job of one that is not accepted ends at once: it
\* is left out.
Start(r) ==
    /\ r \notin open
    /\ open' = open \cup {r}
    /\ \E listed \in SUBSET Entities : queue' = [queue EXCEPT ![r] = listed]
    /\ since' = [since EXCEPT ![r] = newer] /\ known' = [known EXCEPT ![r] = told]
    /\ UNCHANGED <<store, slot>>

\* The channel has no buffer: a job is handed to a goroutine that is free.
Hand(r, s) ==
    /\ r \in open
    /\ slot[r][s].step = "free"
    /\ \E n \in queue[r] :
          /\ queue' = [queue EXCEPT ![r] = @ \ {n}]
          /\ slot' = [slot EXCEPT ![r][s] = [Free EXCEPT !.step = "search", !.entity = n,
                                                        !.searches = Searches[n]]]
    /\ UNCHANGED <<store, read, open>>

\* The channel is closed, and the goroutines that are still busy are waited for.
Shutdown(r) ==
    /\ r \in open
    /\ queue[r] = {}
    /\ \A s \in Slots : slot[r][s].step = "free"
    /\ open' = open \ {r}
    /\ since' = [since EXCEPT ![r] = Nothing] /\ known' = [known EXCEPT ![r] = Nothing]
    /\ UNCHANGED <<store, queue, slot>>

-----------------------------------------------------------------------------
(* The job of one entity.                                                  *)

\* Mutant: a goroutine takes one job only.
LeaveDone(r, s) == slot' = [slot EXCEPT ![r][s] = [Free EXCEPT !.step = "done"]]

Leave(r, s) == slot' = [slot EXCEPT ![r][s] = Free]

\* What a search returns of the tags that match and are new.
Hits(new) == IF Cardinality(new) <= HitLimit THEN {new} ELSE kSubset(HitLimit, new)

\* One search for each offer and each want of the entity.
Search(r, s) ==
    /\ slot[r][s].step = "search"
    /\ LET j == slot[r][s]
       IN  \E q \in j.searches :
              LET new == q \cap since[r][j.entity]
              IN  \E hits \in Hits(new) :
                     slot' = [slot EXCEPT ![r][s] = [j EXCEPT !.searches = @ \ {q}, !.found = @ \cup hits,
                                                              !.untold = @ \cup (new \ hits)]]
    /\ UNCHANGED <<store, read, queue, open>>

\* Mutant: the entity is stamped all the same.
SearchFailedStamped(r, s) ==
    /\ slot[r][s].step = "search"
    /\ slot[r][s].searches # {}
    /\ CallsFail
    /\ slot' = [slot EXCEPT ![r][s].step = "stamp"]
    /\ UNCHANGED <<store, read, queue, open>>

SearchFailed(r, s) ==
    /\ slot[r][s].step = "search"
    /\ slot[r][s].searches # {}
    /\ CallsFail
    /\ Leave(r, s)
    /\ UNCHANGED <<store, read, queue, open>>

Searched(r, s) ==
    /\ slot[r][s].step = "search"
    /\ slot[r][s].searches = {}
    /\ IF slot[r][s].found = {} THEN Leave(r, s)
       ELSE slot' = [slot EXCEPT ![r][s].step = "mail"]
    /\ UNCHANGED <<store, read, queue, open>>

\* A mail that cannot be sent is logged, and the job goes on as if it had been.
Mail(r, s) ==
    /\ slot[r][s].step = "mail"
    /\ LET j == slot[r][s]
       IN  \/ /\ owed' = [owed EXCEPT ![j.entity] = @ \ j.found]
              /\ slot' = [slot EXCEPT ![r][s].step = "stamp"]
           \/ /\ CallsFail
              /\ slot' = [slot EXCEPT ![r][s] = [j EXCEPT !.step = "stamp", !.found = {},
                                                          !.untold = @ \cup j.found]]
              /\ UNCHANGED owed
    /\ UNCHANGED <<newer, lost, told, read, queue, open>>

\* What the job told, and what it will not be asked again.
Note(j) == /\ told' = [told EXCEPT ![j.entity] = @ \cup j.found]
           /\ lost' = [lost EXCEPT ![j.entity] = @ \cup (j.untold \cap owed[j.entity])]

\* Mutant: the stamp matches no document.
StampNot(r, s) ==
    /\ slot[r][s].step = "stamp"
    /\ Note(slot[r][s])
    /\ Leave(r, s)
    /\ UNCHANGED <<newer, owed, read, queue, open>>

Stamp(r, s) ==
    /\ slot[r][s].step = "stamp"
    /\ \/ newer' = [newer EXCEPT ![slot[r][s].entity] = {}] /\ Note(slot[r][s])
       \/ CallsFail /\ UNCHANGED <<newer, lost, told>>
    /\ Leave(r, s)
    /\ UNCHANGED <<owed, read, queue, open>>

-----------------------------------------------------------------------------
Job(r, s) == Search(r, s) \/ SearchFailed(r, s) \/ Searched(r, s) \/ Mail(r, s) \/ Stamp(r, s)

Next == \/ \E t \in Tags : Announce(t) \/ Withdraw(t)
        \/ \E r \in Runs : \/ Start(r) \/ Shutdown(r)
                           \/ \E s \in Slots : Hand(r, s) \/ Job(r, s)
        \/ Crash

\* Goroutines are scheduled; nothing makes the scheduler start a run.
Fairness == \A r \in Runs : /\ WF_vars(Shutdown(r))
                            /\ \A s \in Slots : WF_vars(Hand(r, s)) /\ WF_vars(Job(r, s))

Spec == Init /\ [][Next]_vars /\ Fairness

-----------------------------------------------------------------------------
\* Every variable stays within its type.
TypeOK ==
    /\ {newer, owed, lost, told} \subseteq [Entities -> SUBSET Tags]
    /\ queue \in [Runs -> SUBSET Entities]
    /\ {since, known} \subseteq [Runs -> [Entities -> SUBSET Tags]]
    /\ open \subseteq Runs
    /\ slot \in [Runs -> [Slots -> [step : Steps, entity : Entities \cup {NoEntity},
                                    searches : SUBSET SUBSET Tags,
                                    found : SUBSET Tags, untold : SUBSET Tags]]]

\* A match announced while an entity has no job is found by its next email, however
\* runs overlap and whatever fails, but for two ways to lose it: the mail that was
\* to tell of it is not sent and its entity stamped all the same, or a search
\* leaves it out for its limit.
NothingMissed == \A n \in Entities : owed[n] \subseteq newer[n] \cup lost[n]

\* A run mails an entity nothing it was mailed before the run, and stamped for,
\* unless that was announced again; only runs that overlap mail the same twice.
MailsTellNews ==
    \A r \in Runs, s \in Slots :
       LET j == slot[r][s]
       IN  j.step = "mail" => j.found \cap known[r][j.entity] = {}

\* Every run ends, also when searches, mails and stamps fail, and however many
\* entities there are for a goroutine of the pool.
RunsEnd == \A r \in Runs : r \in open ~> r \notin open
=============================================================================
