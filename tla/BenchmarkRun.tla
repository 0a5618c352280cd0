----------------------------- MODULE BenchmarkRun -----------------------------
(*****************************************************************************)
(* The driver of the benchmarks (Benchmark.cpp): the threads meet at a       *)
(* barrier, warm up, meet, execute until the loop or the alarm ends it, and  *)
(* meet again; then all but thread 0 shut their STM down, and thread 0 joins *)
(* them and counts the work. A transaction is a number of attempts, each of  *)
(* which commits or aborts; the alarm also ends the retries.                 *)
(*****************************************************************************)
EXTENDS Naturals, FiniteSets, FiniteSetsExt

CONSTANTS
  Threads,                    \* 0 and up
  MaxTrips,                   \* bound: transactions of a thread in the timed loop
  MaxAborts                   \* bound: aborted attempts of a thread

VARIABLES
  config,                     \* warmup and execute
  Green_light, terminate,
  alarm,                      \* "off", "set", "light out" in the handler, "rung"
  bar,                        \* count, sense and the thread_sense of each thread
  thread,                     \* where each thread is
  count,                      \* args->count[TXN_GENERIC]
  committed                   \* history: transactions of each thread that took effect
vars == <<config, Green_light, terminate, alarm, bar, thread, count, committed>>

Timed == config.warmup * config.execute = 0

\* measure_speed has run fast_forward alone, and has started the threads.
Init ==
  /\ config \in [warmup : 0 .. 1, execute : 0 .. 1]
  /\ Green_light = TRUE /\ terminate = FALSE
  /\ alarm = IF Timed THEN "set" ELSE "off"
  /\ bar = [count |-> 0, sense |-> FALSE, thread_sense |-> [t \in Threads |-> FALSE]]
  /\ thread = [t \in Threads |->
                [pc |-> "arrive", phase |-> 0, trips |-> 0, aborts |-> 0]]
  /\ count = [t \in Threads |-> 0] /\ committed = [t \in Threads |-> 0]

At(t, pc) == thread[t].pc = pc
Goes(t, from, pc) == At(t, from) /\ thread' = [thread EXCEPT ![t].pc = pc]

-------------------------------------------------------------------------------
(* catch_SIGALRM may interrupt any thread anywhere.                          *)

TurnsLightOff == Green_light' = FALSE /\ UNCHANGED terminate
Halts == terminate' = TRUE /\ UNCHANGED Green_light

\* Mutant: the transactions are halted first.
catch_SIGALRM_swapped ==
  /\ \/ alarm = "set" /\ alarm' = "light out" /\ Halts
     \/ alarm = "light out" /\ alarm' = "rung" /\ TurnsLightOff
  /\ UNCHANGED <<config, bar, thread, count, committed>>

catch_SIGALRM ==
  /\ \/ alarm = "set" /\ alarm' = "light out" /\ TurnsLightOff
     \/ alarm = "light out" /\ alarm' = "rung" /\ Halts
  /\ UNCHANGED <<config, bar, thread, count, committed>>

-------------------------------------------------------------------------------
(* barrier: a thread flips its sense and counts itself; the last to come     *)
(* resets the count, and then lets the others go.                            *)

Arrive(t) ==
  /\ Goes(t, "arrive", IF bar.count = Cardinality(Threads) - 1 THEN "last" ELSE "spin")
  /\ bar' = [bar EXCEPT !.thread_sense[t] = ~@, !.count = @ + 1]
  /\ UNCHANGED <<config, Green_light, terminate, alarm, count, committed>>

ResetCount(t) ==
  /\ Goes(t, "last", "flip")
  /\ bar' = [bar EXCEPT !.count = 0]
  /\ UNCHANGED <<config, Green_light, terminate, alarm, count, committed>>

\* The loop that follows the barrier: warmup, execute, and the end.
Leaves(t, from) ==
  LET phase == thread[t].phase + 1
      pc == IF phase = 1 /\ config.warmup > 0 THEN "begin"
            ELSE IF phase = 1 THEN "arrive"
            ELSE IF phase = 2 THEN "begin"
            ELSE IF t # 0 THEN "exited" ELSE "join"
  IN  /\ At(t, from)
      /\ thread' = [thread EXCEPT ![t].pc = pc, ![t].phase = phase, ![t].trips = 0]

FlipSense(t) ==
  /\ Leaves(t, "flip")
  /\ bar' = [bar EXCEPT !.sense = ~@]
  /\ UNCHANGED <<config, Green_light, terminate, alarm, count, committed>>

Spin(t) ==
  /\ bar.sense = bar.thread_sense[t]
  /\ Leaves(t, "spin")
  /\ UNCHANGED <<config, Green_light, terminate, alarm, bar, count, committed>>

\* Mutant: the count is reset after the others were let go.
ResetCountLate(t) ==
  \/ /\ Goes(t, "last", "flip")
     /\ bar' = [bar EXCEPT !.sense = ~@]
     /\ UNCHANGED <<config, Green_light, terminate, alarm, count, committed>>
  \/ /\ Leaves(t, "flip")
     /\ bar' = [bar EXCEPT !.count = 0]
     /\ UNCHANGED <<config, Green_light, terminate, alarm, count, committed>>

Last(t) == ResetCount(t) \/ FlipSense(t)

barrier(t) == Arrive(t) \/ Last(t) \/ Spin(t)

-------------------------------------------------------------------------------
(* random_transaction: BEGIN_TRANSACTION ... END_TRANSACTION.                *)

Commits(t) ==
  /\ Goes(t, "begin", "count")
  /\ committed' = [committed EXCEPT ![t] = @ + 1]
  /\ UNCHANGED <<config, Green_light, terminate, alarm, bar, count>>

\* An attempt that aborts is made again, unless the STM is being halted.
Aborts(t) ==
  /\ thread[t].aborts < MaxAborts
  /\ At(t, "begin")
  /\ thread' = [thread EXCEPT ![t].pc = "retry?", ![t].aborts = @ + 1]
  /\ UNCHANGED <<config, Green_light, terminate, alarm, bar, count, committed>>

Retry(t) ==
  /\ At(t, "retry?")
  /\ thread' = [thread EXCEPT ![t].pc = IF terminate THEN "count" ELSE "begin"]
  /\ UNCHANGED <<config, Green_light, terminate, alarm, bar, count, committed>>

-------------------------------------------------------------------------------
(* The loops of work_thread.                                                 *)

TimedLoop(t) == thread[t].phase = 2 /\ config.execute = 0

Count(t) ==
  /\ Goes(t, "count", "loop")
  /\ count' = [count EXCEPT ![t] = IF TimedLoop(t) /\ ~Green_light THEN @ ELSE @ + 1]
  /\ UNCHANGED <<config, Green_light, terminate, alarm, bar, committed>>

Again(t) ==
  IF thread[t].phase = 1 THEN thread[t].trips + 1 < config.warmup
  ELSE IF TimedLoop(t) THEN Green_light
  ELSE thread[t].trips + 1 < config.execute

Loop(t) ==
  /\ At(t, "loop")
  /\ TimedLoop(t) /\ thread[t].trips + 1 = MaxTrips => ~Green_light
  /\ thread' = [thread EXCEPT ![t].trips = @ + 1, ![t].pc = IF Again(t) THEN "begin" ELSE "arrive"]
  /\ UNCHANGED <<config, Green_light, terminate, alarm, bar, count, committed>>

\* Thread 0 comes back to measure_speed, joins the others and adds up.
measure_speed ==
  /\ \A t \in Threads \ {0} : At(t, "exited")
  /\ Goes(0, "join", "exited")
  /\ Green_light' = FALSE
  /\ UNCHANGED <<config, terminate, alarm, bar, count, committed>>

work_thread(t) == barrier(t) \/ Commits(t) \/ Aborts(t) \/ Retry(t) \/ Count(t) \/ Loop(t)

Next == catch_SIGALRM \/ measure_speed \/ \E t \in Threads : work_thread(t)

Spec == Init /\ [][Next]_vars

-------------------------------------------------------------------------------
InBarrier(t) == thread[t].pc \in {"arrive", "last", "flip", "spin"}

\* The barrier holds: nobody is in a loop while another thread is still in
\* the loop before it, nobody comes to a barrier while another has not left
\* the one before, and not everyone waits for everyone. What the driver
\* reports is what was done: a run without warmup that the alarm ends, in
\* whichever statement it comes, counts no transaction that was given up.
ReportsWhatWasDone ==
  /\ \A t, u \in Threads :
       /\ ~InBarrier(t) /\ ~InBarrier(u) => thread[t].phase = thread[u].phase
       /\ thread[t].phase > thread[u].phase =>
            thread[t].phase = thread[u].phase + 1 /\ thread[u].pc \in {"spin", "flip"}
  /\ (\A t \in Threads : InBarrier(t)) =>
       \E t \in Threads : ~At(t, "spin") \/ bar.sense = bar.thread_sense[t]
  /\ config.warmup = 0 /\ config.execute = 0 => \A t \in Threads : count[t] <= committed[t]
===============================================================================
