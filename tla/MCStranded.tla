----------------------------- MODULE MCStranded -----------------------------
(***************************************************************************)
(* One schedule of ThreadPool with four workers: the end of filler's queue *)
(* is left behind when newcomer, spawned by warm(), is pushed on the stack *)
(* of threads in the middle of the steal loops of taker and seeker.  Only  *)
(* who takes the next steps is fixed; which step it is, is up to           *)
(* ThreadPool.                                                             *)
(***************************************************************************)
EXTENDS ThreadPool, Sequences

CONSTANTS filler, taker, seeker, newcomer

VARIABLES turn,     \* index in Turns
          taken     \* steps taken in this turn

\* Whose turn it is, and for how many steps.
Turns == <<
    <<Owner, 2>>, <<filler, 1>>,    \* warm(): filler, taker and seeker register in this order
    <<Owner, 2>>, <<taker, 1>>,
    <<Owner, 2>>, <<seeker, 2>>,    \* seeker goes idle
    <<Owner, 5>>,                   \* schedule() of one task wakes
    <<filler, 7>>,                  \* filler, which takes it and wakes
    <<taker, 4>>,                   \* taker, which has nothing before its steal loop
    <<filler, 10>>,                 \* filler schedules five tasks inside the pool, runs two
    <<taker, 5>>,                   \* taker takes three of the four in filler's queue
    <<seeker, 12>>,                 \* seeker is notified, finds filler's queue contended
    <<filler, 12>>,                 \* and so does filler, which sleeps
    <<taker, 3>>,                   \* taker publishes and wakes
    <<seeker, 5>>,                  \* seeker, which counts three workers
    <<taker, 9>>,                   \* taker runs its three tasks, counts three workers
    <<Owner, 2>>, <<newcomer, 1>>,  \* warm() pushes newcomer on the stack
    <<seeker, 9>>, <<taker, 9>>,    \* both visit newcomer, seeker and taker, and sleep
    <<newcomer, 2>>, <<filler, 2>>  \* newcomer and filler find nothing and sleep
    >>

StepOf(p) ==
    \/ p \in Workers /\ (WorkerStep(p) \/ \E n \in 1..MaxBatch : ScheduleInside(p, n))
    \/ p \in Clients /\ (ClientStep(p) \/ Warm(p))
    \/ \E n \in 1..MaxBatch : Schedule(p, n)

TurnInit == Init /\ turn = 1 /\ taken = 0

TurnNext ==
    /\ turn <= Len(Turns)
    /\ StepOf(Turns[turn][1])
    /\ IF taken + 1 < Turns[turn][2]
       THEN taken' = taken + 1 /\ UNCHANGED turn
       ELSE taken' = 0 /\ turn' = turn + 1

TurnSpec == TurnInit /\ [][TurnNext]_<<vars, turn, taken>>

\* has_workers()'s comment says when "what is queued never runs": when there is no
\* worker.  With every worker asleep and nobody on the way to wake one, nothing
\* may be queued, in a worker's own queue neither.
QueuedIsRun == Quiescent => Queued = 0
=============================================================================
