--------------------------- MODULE AgentLoopProofs ---------------------------
(***************************************************************************)
(* Theorems about AgentLoop for every number of runs, retries, executing   *)
(* slots and lost events.                                                  *)
(***************************************************************************)
EXTENDS AgentLoop, TLAPS

-----------------------------------------------------------------------------
(* Type correctness                                                        *)

\* The values a run takes.
LEMMA RunValues ==
  /\ Free \in Run /\ Queued \in Run /\ [Queued EXCEPT !.woke = TRUE] \in Run
  /\ \A q \in Run : /\ \A phase \in {"queued", "cycle", "asleep", "send"} :
                          [q EXCEPT !.at = phase] \in Run
                    /\ q.thrown < Retries =>
                          [q EXCEPT !.at = "queued", !.thrown = @ + 1] \in Run
<1>1. Free \in Run
  <2>1. 0 \in 0..Retries
    BY LoopAssumption
  <2> QED
    BY <2>1 DEF Free, Run
<1>2. ASSUME NEW q \in Run PROVE [q EXCEPT !.woke = TRUE] \in Run
  BY DEF Run
<1>3. ASSUME NEW q \in Run, NEW phase \in {"queued", "cycle", "asleep", "send"}
      PROVE  [q EXCEPT !.at = phase] \in Run
  BY DEF Run
<1>4. ASSUME NEW q \in Run, q.thrown < Retries
      PROVE  [q EXCEPT !.at = "queued", !.thrown = @ + 1] \in Run
  <2>1. q.thrown + 1 \in 0..Retries
    BY <1>4, LoopAssumption DEF Run
  <2> QED
    BY <2>1 DEF Run
<1>5. Queued \in Run
  BY <1>1, <1>3 DEF Queued
<1> QED
  BY <1>1, <1>2, <1>3, <1>4, <1>5

LEMMA KickType == TypeOK /\ Kick => run' \in [Runs -> Run]
  BY RunValues DEF TypeOK, Kick

LEMMA RunType ==
  ASSUME TypeOK, NEW r \in Runs, Loop(r) \/ Throw(r) \/ Fork(r) \/ Lose(r)
  PROVE  TypeOK'
<1>1. run[r] \in Run
  BY DEF TypeOK
<1>2. Again(r) \in Run
  BY <1>1, RunValues DEF Again
<1>3. CASE Loop(r)
  <2>1. CASE Start(r)
    BY <1>1, <2>1, RunValues DEF Start, TypeOK
  <2>2. CASE EndCycle(r)
    BY <1>1, <2>2, RunValues DEF EndCycle, TypeOK
  <2>3. CASE Wake(r)
    BY <2>3, RunValues DEF Wake, TypeOK
  <2>4. CASE SendNext(r)
    BY <2>4, RunValues DEF SendNext, TypeOK
  <2> QED
    BY <1>3, <2>1, <2>2, <2>3, <2>4 DEF Loop
<1>4. CASE Throw(r) \/ Fork(r)
  BY <1>2, <1>4, RunValues DEF Throw, Fork, TypeOK
<1>5. CASE Lose(r)
  <2>1. lost' \in 0..MaxLost
    BY <1>5, LoopAssumption DEF Lose, TypeOK
  <2>2. run' \in [Runs -> Run]
    BY <1>5, RunValues DEF Lose, TypeOK
  <2> QED
    BY <1>5, <2>1, <2>2 DEF Lose, TypeOK
<1> QED
  BY <1>3, <1>4, <1>5

LEMMA TypeStep == TypeOK /\ [Next]_vars => TypeOK'
<1> SUFFICES ASSUME TypeOK, [Next]_vars PROVE TypeOK'
  OBVIOUS
<1>1. ASSUME NEW r \in Runs, Loop(r) \/ Throw(r) \/ Fork(r) \/ Lose(r) PROVE TypeOK'
  BY <1>1, RunType
<1>2. CASE List \/ Reconcile
  BY <1>2, KickType DEF List, Reconcile, TypeOK
<1>3. CASE TaskSession \/ TaskActivate
  BY <1>3 DEF TaskSession, TaskActivate, RouteTo, TypeOK
<1>7. CASE TaskRecord
  <2>1. /\ task' \in BOOLEAN /\ route' = "kick"
        /\ UNCHANGED <<active, session, newer, run, cron, saw, lost>>
    BY <1>7 DEF TaskRecord, RouteTo, TypeOK
  <2>2. ahead' \in 0..MaxAhead
    BY <1>7, LoopAssumption DEF TaskRecord, TypeOK
  <2> QED
    BY <2>1, <2>2 DEF TypeOK
<1>4. CASE TaskKick \/ RunKick
  BY <1>4, KickType DEF TaskKick, RunKick, RouteTo, TypeOK
<1>5. CASE SetActive \/ Others
  BY <1>5 DEF SetActive, Others, TypeOK
<1>8. CASE Expire
  <2>1. /\ {task', session'} \subseteq BOOLEAN
        /\ UNCHANGED <<active, newer, run, cron, route, saw, lost>>
    BY <1>8 DEF Expire, TypeOK
  <2>2. ahead' \in 0..MaxAhead
    BY <1>8, LoopAssumption DEF Expire, TypeOK
  <2> QED
    BY <2>1, <2>2 DEF TypeOK
<1>6. CASE UNCHANGED vars
  BY <1>6 DEF vars, TypeOK
<1> QED
  BY <1>1, <1>2, <1>3, <1>4, <1>5, <1>6, <1>7, <1>8 DEF Next

\* Every reachable state has its types: no run is thrown at more than Retries
\* times, and no more than MaxLost events are lost.
THEOREM LoopTypeCorrect == Spec => []TypeOK
<1>1. Init => TypeOK
  <2> SUFFICES ASSUME Init PROVE TypeOK
    OBVIOUS
  <2>1. run = [r \in Runs |-> Free] /\ lost = 0
    BY DEF Init
  <2>2. run \in [Runs -> Run]
    BY <2>1, RunValues
  <2>3. lost \in 0..MaxLost /\ ahead \in 0..MaxAhead
    BY <2>1, LoopAssumption DEF Init
  <2> QED
    BY <2>2, <2>3 DEF Init, TypeOK
<1> QED
  BY <1>1, TypeStep, PTL DEF Spec
=============================================================================
