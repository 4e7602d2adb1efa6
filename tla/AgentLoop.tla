------------------------------ MODULE AgentLoop -----------------------------
(***************************************************************************)
(* What keeps an agent's cycles going: the self-chaining banAgentLoop of   *)
(* inngest/functions.ts, the five-minute banTaskReconcile of               *)
(* inngest/reconcile.ts, the kicks of POST tasks and POST run, and the     *)
(* owner, for one agent.  Of the other agents and of its own other tasks   *)
(* there is what the cron's two limits look at: how many come before it.   *)
(* (A cycle itself is the module AgentCycle.)                              *)
(*                                                                         *)
(* Inngest is external.  It runs a function for an event, calls it again   *)
(* from its first line when its sleep is over and when it has thrown, and  *)
(* may lose an event (a redeploy, a missed delivery).  Only the sleep is a *)
(* step of banAgentLoop: what stands before it runs again after it.        *)
(***************************************************************************)
EXTENDS Naturals, FiniteSets

CONSTANTS
    Runs,           \* bound: runs of banAgentLoop that exist at once
    Concurrency,    \* how many of them execute at once
    Retries,        \* calls after a throw
    AgentLimit,     \* how many agents the cron lists (50)
    TaskLimit,      \* how many of an agent's tasks it reads (20)
    MaxLost,        \* bound: events that are lost
    MaxNewer,       \* bound: newer ACTIVE agents
    MaxAhead        \* bound: tasks that precede the agent's active ones

ASSUME LoopAssumption ==
    /\ IsFiniteSet(Runs) /\ Runs # {}
    /\ Concurrency \in Nat \ {0}
    /\ {AgentLimit, TaskLimit} \subseteq Nat \ {0}
    /\ {Retries, MaxLost, MaxNewer, MaxAhead} \subseteq Nat

VARIABLES
    active,     \* agents/{id}.status = ACTIVE
    task,       \* it has a task that has not failed nor expired
    session,    \* it has an ACTIVE session
    newer,      \* how many ACTIVE agents were created after it
    ahead,      \* how many of its tasks the store returns before its first such
    run,        \* the runs of banAgentLoop
    cron,       \* banTaskReconcile: idle, or it has listed the agent
    route,      \* POST tasks: idle, or where it is
    saw,        \* the status the route read
    lost        \* events lost so far

vars == <<active, task, session, newer, ahead, run, cron, route, saw, lost>>

-----------------------------------------------------------------------------
\* woke: the sleep is memoised.  thrown: errors since.
Run == [at : {"free", "queued", "cycle", "asleep", "send"}, woke : BOOLEAN,
        thrown : 0..Retries]
Free == [at |-> "free", woke |-> FALSE, thrown |-> 0]
Queued == [Free EXCEPT !.at = "queued"]
Live == {r \in Runs : run[r].at # "free"}
Executing == {r \in Runs : run[r].at \in {"cycle", "send"}}

Init ==
    /\ active \in BOOLEAN
    /\ task = FALSE /\ session = FALSE
    /\ newer \in 0..MaxNewer /\ ahead = 0
    /\ run = [r \in Runs |-> Free]
    /\ cron = "idle" /\ route = "idle" /\ saw = FALSE
    /\ lost = 0

\* inngest.send: an event, and so a new run.
Kick == \E r \in Runs : run[r].at = "free" /\ run' = [run EXCEPT ![r] = Queued]

-----------------------------------------------------------------------------
(* banAgentLoop                                                            *)

\* *Mutant*: the status is not looked at.
StartAnyway(r) ==
    /\ run[r].at = "queued"
    /\ Cardinality(Executing) < Concurrency
    /\ run' = [run EXCEPT ![r].at = "cycle"]
    /\ UNCHANGED <<active, task, session, newer, ahead, cron, route, saw, lost>>

\* The body starts: an agent that is not ACTIVE ends the chain here.
Start(r) ==
    /\ run[r].at = "queued"
    /\ Cardinality(Executing) < Concurrency
    /\ run' = [run EXCEPT ![r] = IF active THEN [@ EXCEPT !.at = "cycle"] ELSE Free]
    /\ UNCHANGED <<active, task, session, newer, ahead, cron, route, saw, lost>>

\* runAgentCycle and the two heartbeats (best effort) are over; step.sleep
\* suspends the run, or was memoised and is passed over.
EndCycle(r) ==
    /\ run[r].at = "cycle"
    /\ run' = [run EXCEPT ![r].at = IF run[r].woke THEN "send" ELSE "asleep"]
    /\ UNCHANGED <<active, task, session, newer, ahead, cron, route, saw, lost>>

Wake(r) ==
    /\ run[r].at = "asleep"
    /\ run' = [run EXCEPT ![r] = [Queued EXCEPT !.woke = TRUE]]
    /\ UNCHANGED <<active, task, session, newer, ahead, cron, route, saw, lost>>

\* The next tick's event takes this run's place.
SendNext(r) ==
    /\ run[r].at = "send"
    /\ run' = [run EXCEPT ![r] = Queued]
    /\ UNCHANGED <<active, task, session, newer, ahead, cron, route, saw, lost>>

\* *Mutant*: a throw is retried without end.
AgainForever(r) == [run[r] EXCEPT !.at = "queued", !.thrown = @ + 1]

Again(r) == IF run[r].thrown < Retries
            THEN [run[r] EXCEPT !.at = "queued", !.thrown = @ + 1] ELSE Free

\* The cycle or the send throws: one more call, then the chain is over.
Throw(r) ==
    /\ run[r].at \in {"cycle", "send"}
    /\ run' = [run EXCEPT ![r] = Again(r)]
    /\ UNCHANGED <<active, task, session, newer, ahead, cron, route, saw, lost>>

\* The send throws although its event got through: the chain forks.
Fork(r) ==
    /\ run[r].at = "send"
    /\ \E q \in Runs : /\ run[q].at = "free"
                       /\ run' = [run EXCEPT ![r] = Again(r), ![q] = Queued]
    /\ UNCHANGED <<active, task, session, newer, ahead, cron, route, saw, lost>>

Lose(r) ==
    /\ run[r] = Queued
    /\ lost < MaxLost
    /\ lost' = lost + 1
    /\ run' = [run EXCEPT ![r] = Free]
    /\ UNCHANGED <<active, task, session, newer, ahead, cron, route, saw>>

-----------------------------------------------------------------------------
(* banTaskReconcile                                                        *)

\* It lists the AgentLimit ACTIVE agents that were created last.
List ==
    /\ cron = "idle" /\ active /\ newer < AgentLimit
    /\ cron' = "listed"
    /\ UNCHANGED <<active, task, session, newer, ahead, run, route, saw, lost>>

\* *Mutant*: only an agent whose chain is alive is kicked.
ReconcileAlive ==
    /\ cron = "listed"
    /\ cron' = "idle"
    /\ IF task /\ ahead < TaskLimit /\ session /\ Live \notin {{}, Runs}
       THEN Kick ELSE UNCHANGED run
    /\ UNCHANGED <<active, task, session, newer, ahead, route, saw, lost>>

\* The kick of a listed agent, whether or not a chain of it is alive, if an
\* active task is among the TaskLimit that a query without an order returns.
Reconcile ==
    /\ cron = "listed"
    /\ cron' = "idle"
    /\ IF task /\ ahead < TaskLimit /\ session /\ Live # Runs THEN Kick ELSE UNCHANGED run
    /\ UNCHANGED <<active, task, session, newer, ahead, route, saw, lost>>

-----------------------------------------------------------------------------
(* POST tasks and POST run                                                 *)

RouteTo(phase) == route' = phase

\* The agent is read; its session is created, and registered unless that fails.
TaskSession ==
    /\ route = "idle"
    /\ RouteTo("activate")
    /\ saw' = active
    /\ session' \in {session, TRUE}
    /\ UNCHANGED <<active, task, newer, ahead, run, cron, lost>>

\* Activated unless it was read ACTIVE; a failure is swallowed.
TaskActivate ==
    /\ route = "activate"
    /\ RouteTo("record")
    /\ active' \in IF saw THEN {active} ELSE {active, TRUE}
    /\ UNCHANGED <<task, session, newer, ahead, run, cron, saw, lost>>

\* The first cycle is over and its record written, under an id in no order; a
\* failed one is FAILED.
TaskRecord ==
    /\ route = "record"
    /\ RouteTo("kick")
    /\ \/ task' = task /\ ahead' \in {ahead, ahead + 1} \cap 0..MaxAhead
       \/ task' = TRUE /\ ahead' \in 0..(IF task THEN ahead ELSE MaxAhead)
    /\ UNCHANGED <<active, session, newer, run, cron, saw, lost>>

\* A failed kick is swallowed.
TaskKick ==
    /\ route = "kick"
    /\ RouteTo("idle")
    /\ Kick \/ UNCHANGED run
    /\ UNCHANGED <<active, task, session, newer, ahead, cron, saw, lost>>

\* POST run kicks whatever the agent's status.
RunKick ==
    /\ Kick
    /\ UNCHANGED <<active, task, session, newer, ahead, cron, route, saw, lost>>

-----------------------------------------------------------------------------
(* The owner and the clock                                                 *)

SetActive ==
    /\ active' = ~active
    /\ UNCHANGED <<task, session, newer, ahead, run, cron, route, saw, lost>>

\* Tasks, the first or all, and sessions expire; sessions are revoked.
Expire ==
    /\ \/ task' = FALSE /\ UNCHANGED <<session, ahead>>
       \/ ahead' \in ahead..MaxAhead /\ UNCHANGED <<task, session>>
       \/ session' = FALSE /\ UNCHANGED <<task, ahead>>
    /\ UNCHANGED <<active, newer, run, cron, route, saw, lost>>

\* Other agents are deployed, activated, paused and revoked.
Others ==
    /\ newer' \in 0..MaxNewer
    /\ UNCHANGED <<active, task, session, ahead, run, cron, route, saw, lost>>

-----------------------------------------------------------------------------
Loop(r) == Start(r) \/ EndCycle(r) \/ Wake(r) \/ SendNext(r)

Next ==
    \/ \E r \in Runs : Loop(r) \/ Throw(r) \/ Fork(r) \/ Lose(r)
    \/ List \/ Reconcile
    \/ TaskSession \/ TaskActivate \/ TaskRecord \/ TaskKick \/ RunKick
    \/ SetActive \/ Expire \/ Others

\* Inngest goes on calling a run (a run that throws has run too), and the cron
\* comes round.  Queued runs take turns for the executing slots.
Fairness ==
    /\ \A r \in Runs : /\ SF_vars(Start(r))
                       /\ WF_vars(EndCycle(r) \/ SendNext(r) \/ Throw(r) \/ Fork(r))
                       /\ WF_vars(Wake(r))
    /\ WF_vars(List) /\ WF_vars(Reconcile)

Spec == Init /\ [][Next]_vars /\ Fairness

-----------------------------------------------------------------------------
(* Properties                                                              *)

\* The state has its types.
TypeOK ==
    /\ {active, task, session, saw} \subseteq BOOLEAN
    /\ newer \in 0..MaxNewer /\ ahead \in 0..MaxAhead
    /\ run \in [Runs -> Run]
    /\ cron \in {"idle", "listed"}
    /\ route \in {"idle", "activate", "record", "kick"}
    /\ lost \in 0..MaxLost

\* "The loop dies when the agent leaves ACTIVE": once an agent stays paused or
\* revoked, no cycle of it starts any more, however many chains were alive and
\* whoever kicks.
PausedStops == <>[](~active) => <>[](\A r \in Runs : run[r].at # "cycle")

\* "A lost event self-heals": an agent that stays ACTIVE and among the agents
\* that the cron lists, with a session and a task that last, the task among those
\* that it reads, goes on having cycles, through lost events, cycles that throw
\* until their chain is over, and forked chains.
KeepsTicking ==
    <>[](active /\ task /\ session /\ newer < AgentLimit /\ ahead < TaskLimit)
        => []<>(\E r \in Runs : run[r].at = "cycle")
=============================================================================
