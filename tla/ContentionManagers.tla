-------------------------- MODULE ContentionManagers --------------------------
(*****************************************************************************)
(* The contention managers of ContentionManager.h, and ShouldAbort of        *)
(* BiModalCM.hpp. A transaction that finds an object in the hands of an      *)
(* enemy asks its manager whether to abort the enemy, and waits and asks     *)
(* again if not. Transactions wait for each other in chains and in circles.  *)
(* A question and the abort that it allows are one step; a refusal that      *)
(* lends priority to the enemy goes on for several.                          *)
(*****************************************************************************)
EXTENDS Naturals, Integers

CONSTANTS
  Clients,                    \* one thread and one manager each
  Managers,                   \* the names of managers that a build can choose
  MAX_BACKOFF_RETRIES,        \* Polite
  MAX_TRIES,                  \* Killblocked and Timestamp
  Patience,                   \* bound: how often a transaction asks in a row
  MaxPriority,                \* bound: a transaction opens no more at it
  MaxTime                     \* bound of the clock and of the counters

VARIABLES
  manager,                    \* the manager of every thread
  s,                          \* what the managers keep
  time,                       \* timeCounter, or the clock in seconds
  alive,                      \* transactions that are not aborted
  holds,                      \* what a transaction has open: "w", "r" or ""
  wants,                      \* what it waits to open
  enemies,                    \* who has it open
  refused,                    \* history: refusals since anyone moved on
  adding                      \* an addition to a priority that is under way

vars == <<manager, s, time, alive, holds, wants, enemies, refused, adding>>

DEFAULT_CM == "Polka"
Factory(name) == IF name \in Managers THEN name ELSE DEFAULT_CM

\* Which manager the three policies forward every event and question to.
PureStaticCMPolicy(static, name) == DEFAULT_CM
PureDynamicCMPolicy(static, name) == Factory(name)
HybridCMPolicy(static, name) == IF static THEN DEFAULT_CM ELSE Factory(name)

-------------------------------------------------------------------------------
(* What an event does to the state m of a manager. An event that a class     *)
(* does not handle is left to its base class.                                *)

Opened == {"openRead", "openWrite"}

ContentionManager(m, event) == IF event = "committed" THEN [m EXCEPT !.priority = 0] ELSE m

Polite(m, event) ==
  CASE event \in Opened \cup {"reOpen"} -> [m EXCEPT !.tries = 0]
    [] event = "contention" -> [m EXCEPT !.tries = @ + 1]
    [] OTHER -> ContentionManager(m, event)

Karma(m, event) ==
  CASE event \in Opened -> [m EXCEPT !.priority = @ + 1, !.tries = 1]
    [] event = "reOpen" -> [m EXCEPT !.tries = 1]
    [] event = "contention" -> [m EXCEPT !.tries = @ + 1]
    [] OTHER -> ContentionManager(m, event)

Polka(m, event) ==
  IF event \in Opened THEN [m EXCEPT !.priority = @ + 1, !.tries = 0] ELSE Polite(m, event)


Greedy(m, event) ==
  CASE event \in Opened \cup {"reOpen", "begin"} -> [m EXCEPT !.waiting = FALSE]
    [] event = "committed" -> [m EXCEPT !.priority = 0, !.stamp = time]
    [] OTHER -> m

Serializer(m, event) == IF event = "begin" THEN [m EXCEPT !.stamp = time] ELSE m

Killblocked(m, event) ==
  CASE event \in Opened \cup {"reOpen"} -> [m EXCEPT !.blocked = FALSE, !.tries = 0]
    [] event = "contention" -> [m EXCEPT !.blocked = TRUE, !.tries = @ + 1]
    [] OTHER -> ContentionManager(m, event)

Eruption(m, event) ==
  CASE event \in Opened -> [m EXCEPT !.priority = @ + 1, !.lent = 0, !.tries = 1]
    [] event = "contention" -> [m EXCEPT !.tries = @ + 1]
    [] event = "committed" -> [m EXCEPT !.priority = 0, !.lent = 0]
    [] OTHER -> m

Timestamp(m, event) ==
  CASE event \in Opened -> [m EXCEPT !.defunct = FALSE, !.tries = 0, !.max_tries = MAX_TRIES]
    [] event = "contention" -> [m EXCEPT !.defunct = FALSE, !.tries = @ + 1]
    [] event = "begin" -> [m EXCEPT !.defunct = FALSE, !.stamp = time]
    [] event \in {"committed", "tryCommit", "aborted"} -> [m EXCEPT !.defunct = FALSE]
    [] OTHER -> m

\* READ_WEIGHT is 0 and WRITE_WEIGHT is 1.
Whpolka(m, event) ==
  CASE event = "openRead" -> [m EXCEPT !.tries = 0]
    [] event = "openWrite" -> [m EXCEPT !.priority = @ + 1, !.tries = 0]
    [] OTHER -> Polka(m, event)

Polkaruption(m, event) ==
  CASE event \in Opened -> [m EXCEPT !.priority = @ + 1, !.lent = 0, !.tries = 1]
    [] event = "reOpen" -> [m EXCEPT !.tries = 0]
    [] event = "committed" -> [m EXCEPT !.priority = 0, !.lent = 0]
    [] OTHER -> Polka(m, event)

Justice(m, event) ==
  CASE event = "openRead" -> [m EXCEPT !.reads = @ + 1, !.tries = 0]
    [] event = "openWrite" -> [m EXCEPT !.writes = @ + 1, !.tries = 0]
    [] event = "committed" -> [m EXCEPT !.reads = 0, !.writes = 0, !.priority = 0]
    [] OTHER -> Polite(m, event)
jprio(m) == 4 * m.reads + 16 * m.writes + m.tries

\* The stamp is that of the job: a transaction that is retried keeps it.
BiModalCM(m, event) ==
  CASE event = "begin" -> IF m.newTx THEN [m EXCEPT !.newTx = FALSE, !.readOnly = TRUE, !.stamp = time]
                          ELSE m
    [] event = "openWrite" -> [m EXCEPT !.readOnly = FALSE]
    [] event = "committed" -> [m EXCEPT !.newTx = TRUE]
    [] OTHER -> m

After(m, event) ==
  CASE manager = "Aggressive" -> ContentionManager(m, event)
    [] manager = "Polite" -> Polite(m, event)
    [] manager = "Karma" -> Karma(m, event)
    [] manager \in {"Polka", "Polkavis", "Highlander"} -> Polka(m, event)
    [] manager = "Greedy" -> Greedy(m, event)
    [] manager = "Serializer" -> Serializer(m, event)
    [] manager = "Killblocked" -> Killblocked(m, event)
    [] manager = "Eruption" -> Eruption(m, event)
    [] manager = "Timestamp" -> Timestamp(m, event)
    [] manager = "Whpolka" -> Whpolka(m, event)
    [] manager = "Polkaruption" -> Polkaruption(m, event)
    [] manager = "Justice" -> Justice(m, event)
    [] manager = "Bimodal" -> BiModalCM(m, event)

\* The counter of Greedy and Serializer is taken with fai.
TakesStamp(event) == <<manager, event>> \in {<<"Greedy", "committed">>, <<"Serializer", "begin">>}

-------------------------------------------------------------------------------
(* ShouldAbort: the answer, and what is left of the two managers.            *)

\* Who waits under these managers lends its priority: see Lend.
Lenders == {"Eruption", "Polkaruption"}

Answer(yes, m, n) == [abort |-> yes, me |-> m, enemy |-> n]

Outweighs(m, n) == m.tries + m.priority > n.priority

GreedyShouldAbort(m, n) ==
  LET wins == m.stamp < n.stamp \/ n.waiting
  IN  Answer(wins, [m EXCEPT !.waiting = ~wins], n)

\* The enemy whose stamp is not later is aborted at once; any other is marked
\* defunct half way, and aborted at last unless it has cleared the mark.
TimestampShouldAbort(m, n) ==
  LET half == m.max_tries \div 2
      me == [m EXCEPT !.defunct = FALSE]
  IN  IF n.stamp <= m.stamp THEN Answer(TRUE, me, n)
      ELSE IF m.tries = half THEN Answer(FALSE, me, [n EXCEPT !.defunct = TRUE])
      ELSE IF m.tries = m.max_tries THEN Answer(TRUE, me, n)
      ELSE IF m.tries > half /\ ~n.defunct
           THEN Answer(FALSE, [me EXCEPT !.tries = 2, !.max_tries = 2 * @], n)
      ELSE Answer(FALSE, me, n)

\* The epoch of a transaction is that of its core; even epochs are for reading.
IsReading(epoch) == epoch % 2 = 0
BiModalShouldAbort(m, n) ==
  IF m.epoch # n.epoch THEN m.epoch < n.epoch
  ELSE IF ~m.readOnly /\ ~n.readOnly THEN n.stamp < m.stamp
  ELSE IF IsReading(m.epoch) THEN ~m.readOnly
  ELSE m.readOnly

ShouldAbort(m, n) ==
  CASE manager = "Aggressive" -> Answer(TRUE, m, n)
    [] manager = "Polite" -> Answer(m.tries > MAX_BACKOFF_RETRIES, m, n)
    [] manager \in {"Karma", "Polka", "Polkavis", "Whpolka"} \cup Lenders ->
         Answer(Outweighs(m, n), m, n)
    [] manager = "Greedy" -> GreedyShouldAbort(m, n)
    [] manager = "Serializer" -> Answer(m.stamp < n.stamp, m, n)
    [] manager = "Killblocked" -> Answer(m.tries > MAX_TRIES \/ n.blocked, m, n)
    [] manager = "Timestamp" -> TimestampShouldAbort(m, n)
    [] manager = "Justice" -> Answer(jprio(m) > jprio(n), m, n)
    [] manager = "Highlander" ->
         Answer(Outweighs(m, n),
                IF Outweighs(m, n) THEN [m EXCEPT !.priority = @ + n.priority] ELSE m, n)
    [] manager = "Bimodal" -> Answer(BiModalShouldAbort(m, n), m, n)

\* May a writer abort the visible readers of its object?
ShouldAbortAll(m, readers) == manager # "Polkavis" \/ \A r \in readers : Outweighs(m, s[r])

-------------------------------------------------------------------------------
(* The transactions.                                                         *)

Fresh(stamp, epoch) ==
  [priority |-> 0, tries |-> IF manager \in {"Karma", "Eruption"} THEN 1 ELSE 0,
   max_tries |-> MAX_TRIES, stamp |-> stamp, waiting |-> FALSE, blocked |-> FALSE,
   defunct |-> FALSE, lent |-> 0, reads |-> 0, writes |-> 0,
   newTx |-> FALSE, readOnly |-> TRUE, epoch |-> epoch]

\* Where a thread is in an addition to the priority of `to', and what it has in
\* a register.
Adding(step, u, n) == [step |-> step, to |-> u, n |-> n]
Done(t) == Adding("done", t, 0)

Init ==
  /\ \E name \in Managers \cup {"unknown"}, static \in BOOLEAN :
        manager \in {PureStaticCMPolicy(static, name), PureDynamicCMPolicy(static, name),
                     HybridCMPolicy(static, name)}
  /\ time = 2
  /\ \E stamp \in [Clients -> 0 .. 1], epoch \in [Clients -> 0 .. 1] :
       /\ manager \in {"Greedy", "Serializer"} => \A t, u \in Clients : t # u => stamp[t] # stamp[u]
       /\ manager \notin {"Greedy", "Serializer", "Timestamp", "Bimodal"} => \A t \in Clients : stamp[t] = 0
       /\ manager # "Bimodal" => \A t \in Clients : epoch[t] = 0
       /\ s = [t \in Clients |-> Fresh(stamp[t], epoch[t])]
  /\ alive = [t \in Clients |-> TRUE]
  /\ holds = [t \in Clients |-> ""]
  /\ wants = [t \in Clients |-> ""]
  /\ enemies = [t \in Clients |-> {}]
  /\ refused = [t \in Clients |-> 0]
  /\ adding = [t \in Clients |-> Done(t)]

MovesOn == refused' = [t \in Clients |-> 0]
Without(gone) == [t \in Clients |-> IF t \in gone THEN {} ELSE enemies[t] \ gone]

\* A bound on what a transaction opens.
Light(t) == s[t].priority + s[t].reads + s[t].writes < MaxPriority

\* A transaction finds an object open: a writer in its way, or visible readers.
Collide(t, all, mode) ==
  /\ alive[t] /\ enemies[t] = {} /\ Light(t)
  /\ wants[t] \in {"", mode}
  /\ enemies' = [enemies EXCEPT ![t] = all]
  /\ wants' = [wants EXCEPT ![t] = mode]
  /\ IF mode = "acquire" THEN \A u \in all : alive[u] /\ holds[u] # ""
     ELSE \E u \in Clients : all = {u} /\ alive[u] /\ holds[u] = "w"
  /\ UNCHANGED <<manager, s, time, alive, holds, refused, adding>>

\* The object is free, or its owner is aborted. Where others may add to the
\* priority as well, priority++ is a load here and a store later.
Open(t, mode) ==
  /\ alive[t] /\ enemies[t] = {}
  /\ wants[t] = "" => Light(t) /\ holds[t] # "w"
  /\ wants[t] \in {"", mode}
  /\ LET opened == After(s[t], IF mode = "read" THEN "openRead" ELSE "openWrite")
     IN  IF manager \in Lenders
         THEN /\ s' = [s EXCEPT ![t] = [opened EXCEPT !.priority = s[t].priority]]
              /\ adding' = [adding EXCEPT ![t] = Adding("store", t, opened.priority)]
         ELSE /\ s' = [s EXCEPT ![t] = opened]
              /\ UNCHANGED adding
  /\ holds' = [holds EXCEPT ![t] = IF mode = "read" /\ @ # "w" THEN "r" ELSE "w"]
  /\ wants' = [wants EXCEPT ![t] = ""]
  /\ MovesOn
  /\ UNCHANGED <<manager, time, alive, enemies>>

\* An object that it already has open.
ReOpen(t) ==
  /\ alive[t] /\ wants[t] = "" /\ holds[t] # ""
  /\ s' = [s EXCEPT ![t] = After(@, "reOpen")]
  /\ UNCHANGED <<manager, time, alive, holds, wants, enemies, refused, adding>>

Kill(killed) ==
  /\ alive' = [u \in Clients |-> alive[u] /\ u \notin killed]
  /\ holds' = [u \in Clients |-> IF u \in killed THEN "" ELSE holds[u]]
  /\ wants' = [u \in Clients |-> IF u \in killed THEN "" ELSE wants[u]]
  /\ enemies' = Without(killed)
  /\ MovesOn

Refuse(t) ==
  /\ refused' = [refused EXCEPT ![t] = @ + 1]
  /\ UNCHANGED <<alive, holds, wants, enemies>>

AskOwner(t) ==
  /\ wants[t] # "acquire"
  /\ \E u \in enemies[t] :
       LET answer == ShouldAbort(s[t], s[u])
           asked == [s EXCEPT ![t] = answer.me, ![u] = answer.enemy]
       IN  IF answer.abort
           THEN /\ s' = asked
                /\ Kill({u})
                /\ UNCHANGED adding
           ELSE /\ Refuse(t)
                /\ IF manager \in Lenders
                   THEN /\ adding' = [adding EXCEPT ![t] = Adding("give", u, 0)]
                        /\ s' = s
                   ELSE /\ s' = [asked EXCEPT ![t] = After(@, "contention")]
                        /\ UNCHANGED adding

AskReaders(t) ==
  /\ wants[t] = "acquire"
  /\ IF ShouldAbortAll(s[t], enemies[t]) THEN s' = s /\ Kill(enemies[t])
     ELSE s' = [s EXCEPT ![t] = After(@, "contention")] /\ Refuse(t)
  /\ UNCHANGED adding

\* A bound on what loans pile up: lost and late stores make priorities grow,
\* and a loan of what is no longer there makes them negative.
SmallLoans ==
  manager \in Lenders => \A t \in Clients : s[t].priority \in -MaxPriority .. 2 * MaxPriority

Ask(t) ==
  /\ alive[t] /\ enemies[t] # {} /\ refused[t] <= Patience /\ s[t].tries <= 2 * Patience
  /\ SmallLoans
  /\ AskOwner(t) \/ AskReaders(t)
  /\ UNCHANGED <<manager, time>>

\* The rest of ShouldAbort, where the enemy may commit, open and lend between
\* two steps: the loan, givePrio's load and store of the enemy's priority, and
\* prio_transferred, from the own priority as it is by then. A transaction that
\* is aborted in between finds out only afterwards.
Loan(m) == m.priority - m.lent

\* Mutant: what was lent is not written down.
KeepsNoAccount(m) == m

KeepsAccount(m) == [m EXCEPT !.lent = m.priority]

givePrio(t) ==
  LET a == adding[t] IN
  \/ /\ a.step = "give"
     /\ adding' = [adding EXCEPT ![t] = Adding("load", a.to, Loan(s[t]))]
     /\ UNCHANGED s
  \/ /\ a.step = "load"
     /\ adding' = [adding EXCEPT ![t] = Adding("store", a.to, s[a.to].priority + a.n)]
     /\ UNCHANGED s
  \/ /\ a.step = "store"
     /\ s' = [s EXCEPT ![a.to].priority = a.n]
     /\ adding' = [adding EXCEPT ![t] = IF a.to = t THEN Done(t) ELSE Adding("lent", a.to, 0)]
  \/ /\ a.step = "lent"
     /\ s' = [s EXCEPT ![t] = After(KeepsAccount(@), "contention")]
     /\ adding' = [adding EXCEPT ![t] = Done(t)]

Lend(t) == givePrio(t) /\ UNCHANGED <<manager, time, alive, holds, wants, enemies, refused>>

\* BiModalCM reads the epoch whenever a transaction begins.
EpochsNow(t) == {s[t].epoch, IF manager = "Bimodal" THEN 1 ELSE 0}

Commit(t) ==
  /\ alive[t] /\ wants[t] = "" /\ holds[t] # ""
  /\ TakesStamp("committed") \/ TakesStamp("begin") => time < MaxTime
  /\ \E epoch \in EpochsNow(t) :
       s' = [s EXCEPT ![t] = After(After([After(@, "tryCommit") EXCEPT !.epoch = epoch], "committed"), "begin")]
  /\ time' = IF TakesStamp("committed") \/ TakesStamp("begin") THEN time + 1 ELSE time
  /\ holds' = [holds EXCEPT ![t] = ""]
  /\ enemies' = Without({t})
  /\ MovesOn
  /\ UNCHANGED <<manager, alive, wants, adding>>

Restart(t) ==
  /\ ~alive[t]
  /\ TakesStamp("begin") => time < MaxTime
  /\ \E epoch \in EpochsNow(t) :
       s' = [s EXCEPT ![t] = After(After([@ EXCEPT !.epoch = epoch], "aborted"), "begin")]
  /\ time' = IF TakesStamp("begin") THEN time + 1 ELSE time
  /\ alive' = [alive EXCEPT ![t] = TRUE]
  /\ MovesOn
  /\ UNCHANGED <<manager, holds, wants, enemies, adding>>

Tick ==
  /\ manager \in {"Timestamp", "Bimodal"} /\ time < MaxTime
  /\ time' = time + 1
  /\ UNCHANGED <<manager, s, alive, holds, wants, enemies, refused, adding>>

Next ==
  \/ Tick
  \/ \E t \in Clients :
       \/ /\ adding[t] = Done(t)
          /\ \/ \E mode \in {"read", "write"} : Open(t, mode)
             \/ \E mode \in {"read", "write", "acquire"}, all \in (SUBSET (Clients \ {t})) \ {{}} :
                   Collide(t, all, mode)
             \/ Ask(t) \/ Open(t, "acquire") \/ ReOpen(t) \/ Commit(t) \/ Restart(t)
       \/ Lend(t)

Spec == Init /\ [][Next]_vars

-------------------------------------------------------------------------------
\* Who can keep each other waiting: under BiModalCM, two writers of one epoch
\* and one second; under Justice, two transactions of about the same mass, each of
\* which grows heavier by a try whenever the other does.
Tied(t, u) ==
  \/ /\ manager = "Bimodal" /\ holds[t] = "w" /\ holds[u] = "w"
     /\ s[t].stamp = s[u].stamp /\ s[t].epoch = s[u].epoch
  \/ /\ manager = "Justice"
     /\ jprio(s[t]) - jprio(s[u]) \in -1 .. 1

\* When transactions wait for each other in a circle, the managers let one of
\* them pass before all of them have been refused many times in a row, unless
\* the circle ties two of them. Where refusals lend priority, each may raise the
\* other's above its own in turn, with loans that overlap or get lost.
SomeoneGetsThrough ==
  \/ \E t \in Clients : refused[t] <= Patience
  \/ \E t \in Clients : \E u \in enemies[t] : Tied(t, u)

===============================================================================
