--------------------------- MODULE AgentCycleProofs ---------------------------
(***************************************************************************)
(* Theorems about AgentCycle for every number of cycles, keys, sessions    *)
(* and every value of the caps.                                            *)
(***************************************************************************)
EXTENDS AgentCycle, SumProofs, TLAPS

-----------------------------------------------------------------------------
(* The ledger operations keep a document a document.                       *)

LEMMA AbsentEntryType == AbsentEntry \in Entry
  BY CycleAssumption DEF AbsentEntry, Entry, EntryStatus

LEMMA ReservedType ==
  ASSUME NEW e \in Entry, NEW a \in Nat, NEW s \in Sessions
  PROVE  /\ Reserved(e, a, s) \in Entry
         /\ Reserved(e, a, s).status = "RESERVED"
  BY DEF Reserved, Entry, EntryStatus

LEMMA FinalizedType ==
  ASSUME NEW e \in Entry, NEW kind \in FinalizeKind
  PROVE  /\ Finalized(e, kind) \in Entry
         /\ Finalized(e, kind).amount = e.amount
         /\ Finalized(e, kind).session = e.session
         /\ Finalized(e, kind).status =
                (CASE kind = "commit" -> "COMMITTED"
                   [] kind = "release" -> "RELEASED"
                   [] kind = "hold" -> e.status)
  BY DEF Finalized, FinalizeKind, Entry, EntryStatus

LEMMA FinalizeWithType == \A c \in Cycles : FinalizeWith(c) \in FinalizeKind
  BY DEF FinalizeWith, FinalizeKind

LEMMA AfterFinalizePhase ==
  \A c \in Cycles : AfterFinalize(c) \in {"position", "done", "persist"}
  BY DEF AfterFinalize

-----------------------------------------------------------------------------
(* Type correctness                                                        *)

LEMMA InitType == Init => TypeOK
<1> SUFFICES ASSUME Init PROVE TypeOK
  OBVIOUS
<1>1. AnyProposal \in Proposal
  BY CycleAssumption, KeysAssumption DEF AnyProposal, Proposal
<1>2. NoExecution \in Execution /\ NoTransaction \in Tx
  BY DEF NoExecution, Execution, NoTransaction, Tx
<1> QED
  BY <1>1, <1>2, AbsentEntryType
     DEF Init, TypeOK, SessionStatus, Phase, Receipt

LEMMA TypeStep == TypeOK /\ [Next]_vars => TypeOK'
<1> SUFFICES ASSUME TypeOK, [Next]_vars PROVE TypeOK'
  OBVIOUS
<1> USE DEF envVars, store, cycleVars, Goto
<1>1. ASSUME NEW c \in Cycles, LoadAgent(c) PROVE TypeOK'
  BY <1>1 DEF LoadAgent, TypeOK, Phase
<1>2. ASSUME NEW c \in Cycles, Decide(c) PROVE TypeOK'
  <2>1. PICK k \in KeysOf[c], a \in Amounts, s \in Sessions :
            /\ prop' = [prop EXCEPT ![c] = [key |-> k, amount |-> a, session |-> s]]
            /\ seen' = [seen EXCEPT ![c].session = Usable(s)]
    BY <1>2 DEF Decide
  <2>2. [key |-> k, amount |-> a, session |-> s] \in Proposal
    <3>1. k \in Keys /\ a \in Nat
      BY CycleAssumption
    <3> QED
      BY <3>1 DEF Proposal
  <2>3. prop' \in [Cycles -> Proposal]
    BY <2>1, <2>2 DEF TypeOK
  <2>4. seen' \in [Cycles -> [agent : BOOLEAN, session : BOOLEAN]]
    <3>1. Usable(s) \in BOOLEAN
      BY DEF Usable
    <3> QED
      BY <2>1, <3>1 DEF TypeOK
  <2> QED
    BY <1>2, <2>3, <2>4 DEF Decide, TypeOK, Phase
<1>3. ASSUME NEW c \in Cycles, Pass(c) PROVE TypeOK'
  BY <1>3 DEF Pass, TypeOK, Phase
<1>4. ASSUME NEW c \in Cycles, PolicyAgent(c) PROVE TypeOK'
  BY <1>4 DEF PolicyAgent, TypeOK, Phase
<1>5. ASSUME NEW c \in Cycles, PolicySession(c) PROVE TypeOK'
  BY <1>5 DEF PolicySession, TypeOK, Phase
<1>6. ASSUME NEW c \in Cycles, PolicyTotal(c) PROVE TypeOK'
  BY <1>6 DEF PolicyTotal, TypeOK, Phase
<1>7. ASSUME NEW c \in Cycles, Reserve(c) PROVE TypeOK'
  <2>1. prop[c].key \in Keys /\ prop[c].amount \in Nat /\ prop[c].session \in Sessions
    BY DEF TypeOK, Proposal
  <2>2. Reserved(ledger[prop[c].key], prop[c].amount, prop[c].session) \in Entry
    BY <2>1, ReservedType DEF TypeOK
  <2> QED
    BY <1>7, <2>1, <2>2 DEF Reserve, TypeOK, Phase
<1>8. ASSUME NEW c \in Cycles, UserFundsDeny(c) PROVE TypeOK'
  BY <1>8 DEF UserFundsDeny, TypeOK, Phase
<1>9. ASSUME NEW c \in Cycles, Gate(c) PROVE TypeOK'
  BY <1>9 DEF Gate, TypeOK, Phase
<1>10. ASSUME NEW c \in Cycles, Send(c) PROVE TypeOK'
  BY <1>10 DEF Send, TypeOK, Phase, Tx
<1>11. ASSUME NEW c \in Cycles, SendThrows(c) PROVE TypeOK'
  <2>1. [chain EXCEPT ![c].status = "pending"] \in [Cycles -> Tx]
    BY DEF TypeOK, Tx
  <2>2. chain' \in [Cycles -> Tx]
    BY <1>11, <2>1 DEF SendThrows, TypeOK
  <2> QED
    BY <1>11, <2>2 DEF SendThrows, TypeOK, Phase
<1>12. ASSUME NEW c \in Cycles, VerifyReceipt(c) PROVE TypeOK'
  <2>1. PICK r \in ReceiptsFor(chain[c]) : receipt' = [receipt EXCEPT ![c] = r]
    BY <1>12 DEF VerifyReceipt
  <2>2. r \in Receipt
    BY <2>1 DEF ReceiptsFor, Receipt, TypeOK, Tx
  <2> QED
    BY <1>12, <2>1, <2>2 DEF VerifyReceipt, TypeOK, Phase
<1>13. ASSUME NEW c \in Cycles, FinalizeRead(c) PROVE TypeOK'
  BY <1>13, AfterFinalizePhase DEF FinalizeRead, TypeOK, Phase, Proposal
<1>14. ASSUME NEW c \in Cycles, FinalizeWrite(c) PROVE TypeOK'
  <2>1. Finalized(snap[c], FinalizeWith(c)) \in Entry
    BY FinalizedType, FinalizeWithType DEF TypeOK
  <2> QED
    BY <1>14, <2>1, AfterFinalizePhase DEF FinalizeWrite, TypeOK, Phase, Proposal
<1>15. ASSUME NEW c \in Cycles, PersistExecution(c) PROVE TypeOK'
  <2>1. [status |-> ExecutionStatus(c), tx |-> c, age |-> 0] \in Execution
    BY DEF Execution, ExecutionStatus
  <2> QED
    BY <1>15, <2>1 DEF PersistExecution, TypeOK, Phase, Proposal
<1>16. ASSUME NEW c \in Cycles, UpsertPosition(c) PROVE TypeOK'
  BY <1>16 DEF UpsertPosition, TypeOK, Phase, Proposal
<1>17. ASSUME NEW c \in Cycles, Abort(c) PROVE TypeOK'
  BY <1>17 DEF Abort, TypeOK, Phase
<1>18. ASSUME WatchStart PROVE TypeOK'
  BY <1>18 DEF WatchStart, TypeOK, NoExecution, Execution
<1>19. ASSUME NEW k \in Keys, NEW v \in {"CONFIRMED", "FAILED"}, Settle(k, v)
       PROVE  TypeOK'
  <2>1. [executions[k] EXCEPT !.status = v] \in Execution
    BY DEF TypeOK, Execution
  <2> QED
    BY <1>19, <2>1 DEF Settle, TypeOK, NoExecution, Execution
<1>20. ASSUME NEW k \in Keys, WatchSkip(k) PROVE TypeOK'
  BY <1>20 DEF WatchSkip, TypeOK, NoExecution, Execution
<1>21. ASSUME NEW c \in Cycles, Mine(c) PROVE TypeOK'
  BY <1>21 DEF Mine, TypeOK, Tx
<1>22. ASSUME NEW k \in Keys, Age(k) PROVE TypeOK'
  <2>1. executions[k] \in Execution /\ executions[k].age + 1 \in 0..2
    BY <1>22 DEF Age, TypeOK, Execution
  <2>2. [executions[k] EXCEPT !.age = @ + 1] \in Execution
    BY <2>1 DEF Execution
  <2>3. executions' \in [Keys -> Execution]
    BY <1>22, <2>2 DEF Age, TypeOK
  <2> QED
    BY <1>22, <2>3 DEF Age, TypeOK
<1>23. ASSUME ToggleAgent PROVE TypeOK'
  BY <1>23 DEF ToggleAgent, TypeOK
<1>24. ASSUME NEW s \in Sessions, ActivateSession(s) \/ EndSession(s) PROVE TypeOK'
  BY <1>24 DEF ActivateSession, EndSession, TypeOK, SessionStatus
<1>25. CASE UNCHANGED vars
  BY <1>25 DEF vars, TypeOK
<1> QED
  BY <1>1, <1>2, <1>3, <1>4, <1>5, <1>6, <1>7, <1>8, <1>9, <1>10, <1>11,
     <1>12, <1>13, <1>14, <1>15, <1>16, <1>17, <1>18, <1>19, <1>20, <1>21,
     <1>22, <1>23, <1>24, <1>25
     DEF Next, CycleStep, Watcher, Environment, WatchReceipt,
         WatchBatchTimeout, WatchTimeout

\* Every reachable state is well typed.
THEOREM TypeCorrect == Spec => []TypeOK
<1>1. Init => TypeOK
  BY InitType
<1>2. TypeOK /\ [Next]_vars => TypeOK'
  BY TypeStep
<1> QED
  BY <1>1, <1>2, PTL DEF Spec

-----------------------------------------------------------------------------
(* A committed reservation is money that left                              *)

LEMMA MinedInit == Init => MinedInv
<1> SUFFICES ASSUME Init PROVE MinedInv
  OBVIOUS
<1>1. TypeOK
  BY InitType
<1>2. Unsent /\ ReceiptIsTrue /\ ReadReserved
  BY DEF Init, Unsent, ReceiptIsTrue, ReadReserved
<1>3. CommittedIsMined /\ PositionIsMined
  BY DEF Init, CommittedIsMined, PositionIsMined, AbsentEntry
<1> QED
  BY <1>1, <1>2, <1>3 DEF MinedInv

LEMMA WatcherFrame == Watcher => UNCHANGED <<envVars, ledger, positions, chain, cycleVars>>
  BY DEF Watcher, WatchStart, WatchSkip, WatchReceipt, WatchBatchTimeout,
         WatchTimeout, Settle, store

LEMMA EnvironmentFrame ==
  Environment => /\ UNCHANGED <<ledger, positions, cycleVars>>
                 /\ UNCHANGED chain \/ \E c \in Cycles : Mine(c)
  BY DEF Environment, Mine, Age, ToggleAgent, ActivateSession, EndSession, store

LEMMA UnsentStep == TypeOK /\ Unsent /\ [Next]_vars => Unsent'
<1> SUFFICES ASSUME TypeOK, Unsent, [Next]_vars,
                    NEW d \in Cycles, pc'[d] \in BeforeSend
             PROVE  chain'[d] = NoTransaction /\ receipt'[d] = "none"
  BY DEF Unsent
<1> USE DEF envVars, store, cycleVars, Goto, Unsent, BeforeSend, TypeOK
<1>1. ASSUME NEW c \in Cycles,
             LoadAgent(c) \/ Decide(c) \/ Pass(c) \/ PolicyAgent(c)
             \/ PolicySession(c) \/ PolicyTotal(c) \/ Reserve(c)
             \/ UserFundsDeny(c) \/ Gate(c)
      PROVE  chain'[d] = NoTransaction /\ receipt'[d] = "none"
  BY <1>1 DEF LoadAgent, Decide, Pass, PolicyAgent, PolicySession,
              PolicyTotal, Reserve, UserFundsDeny, Gate
<1>2. ASSUME NEW c \in Cycles, Send(c) \/ SendThrows(c) \/ VerifyReceipt(c)
      PROVE  chain'[d] = NoTransaction /\ receipt'[d] = "none"
  BY <1>2 DEF Send, SendThrows, VerifyReceipt
<1>3. ASSUME NEW c \in Cycles,
             FinalizeRead(c) \/ FinalizeWrite(c) \/ PersistExecution(c)
             \/ UpsertPosition(c) \/ Abort(c)
      PROVE  chain'[d] = NoTransaction /\ receipt'[d] = "none"
  BY <1>3, AfterFinalizePhase
     DEF FinalizeRead, FinalizeWrite, PersistExecution, UpsertPosition, Abort
<1>4. ASSUME NEW c \in Cycles, Mine(c)
      PROVE  chain'[d] = NoTransaction /\ receipt'[d] = "none"
  BY <1>4 DEF Mine, NoTransaction
<1>5. CASE UNCHANGED <<chain, cycleVars>>
  BY <1>5
<1> QED
  BY <1>1, <1>2, <1>3, <1>4, <1>5, WatcherFrame, EnvironmentFrame
     DEF Next, CycleStep, vars

LEMMA ReceiptStep ==
  TypeOK /\ Unsent /\ ReceiptIsTrue /\ ReadReserved /\ [Next]_vars
      => ReceiptIsTrue' /\ ReadReserved'
<1> SUFFICES ASSUME TypeOK, Unsent, ReceiptIsTrue, ReadReserved, [Next]_vars
             PROVE  ReceiptIsTrue' /\ ReadReserved'
  OBVIOUS
<1> USE DEF envVars, store, cycleVars, Goto, ReceiptIsTrue, ReadReserved, TypeOK
<1>1. ASSUME NEW c \in Cycles,
             LoadAgent(c) \/ Decide(c) \/ Pass(c) \/ PolicyAgent(c)
             \/ PolicySession(c) \/ PolicyTotal(c) \/ Reserve(c)
             \/ UserFundsDeny(c) \/ Gate(c)
      PROVE  ReceiptIsTrue' /\ ReadReserved'
  BY <1>1 DEF LoadAgent, Decide, Pass, PolicyAgent, PolicySession,
              PolicyTotal, Reserve, UserFundsDeny, Gate
<1>2. ASSUME NEW c \in Cycles, Send(c) \/ SendThrows(c)
      PROVE  ReceiptIsTrue' /\ ReadReserved'
  BY <1>2 DEF Send, SendThrows, Unsent, BeforeSend
<1>3. ASSUME NEW c \in Cycles, VerifyReceipt(c)
      PROVE  ReceiptIsTrue' /\ ReadReserved'
  <2>1. PICK r \in ReceiptsFor(chain[c]) : receipt' = [receipt EXCEPT ![c] = r]
    BY <1>3 DEF VerifyReceipt
  <2>2. r \in {"success", "reverted"} => chain[c].status = r
    BY <2>1 DEF ReceiptsFor
  <2>3. /\ chain' = chain /\ snap' = snap
        /\ pc' = [pc EXCEPT ![c] = IF r = "success" THEN "persist" ELSE "finalize"]
    BY <1>3, <2>1 DEF VerifyReceipt
  <2> QED
    BY <2>1, <2>2, <2>3
<1>4. ASSUME NEW c \in Cycles, FinalizeRead(c) \/ FinalizeWrite(c)
      PROVE  ReceiptIsTrue' /\ ReadReserved'
  <2>1. /\ AfterFinalize(c) = "position" => receipt[c] = "success"
        /\ AfterFinalize(c) = "persist" => receipt[c] # "none"
    BY DEF AfterFinalize
  <2> QED
    BY <1>4, <2>1, AfterFinalizePhase DEF FinalizeRead, FinalizeWrite
<1>5. ASSUME NEW c \in Cycles, PersistExecution(c) \/ UpsertPosition(c) \/ Abort(c)
      PROVE  ReceiptIsTrue' /\ ReadReserved'
  BY <1>5 DEF PersistExecution, UpsertPosition, Abort
<1>6. ASSUME NEW c \in Cycles, Mine(c) PROVE ReceiptIsTrue' /\ ReadReserved'
  BY <1>6 DEF Mine
<1>7. CASE UNCHANGED <<chain, cycleVars>>
  BY <1>7
<1> QED
  BY <1>1, <1>2, <1>3, <1>4, <1>5, <1>6, <1>7, WatcherFrame, EnvironmentFrame
     DEF Next, CycleStep, vars

\* A transaction mined with success stays so, and stays its key's.
LEMMA SuccessStable ==
  ASSUME TypeOK, Unsent, [Next]_vars,
         NEW d \in Cycles, chain[d].status = "success"
  PROVE  prop'[d].key = prop[d].key /\ chain'[d].status = "success"
<1>0. pc[d] \notin BeforeSend
  BY DEF Unsent, NoTransaction
<1> USE DEF envVars, store, cycleVars, TypeOK
<1>1. ASSUME NEW c \in Cycles, CycleStep(c) \/ Abort(c)
      PROVE  prop'[d].key = prop[d].key /\ chain'[d].status = "success"
  <2>1. CASE Decide(c)
    BY <1>0, <2>1 DEF Decide, BeforeSend
  <2>2. CASE Send(c)
    BY <1>0, <2>2 DEF Send, BeforeSend
  <2>3. CASE SendThrows(c)
    BY <1>0, <2>3 DEF SendThrows, BeforeSend
  <2>4. CASE UNCHANGED <<prop, chain>>
    BY <2>4
  <2> QED
    BY <1>1, <2>1, <2>2, <2>3, <2>4
       DEF CycleStep, LoadAgent, Pass, PolicyAgent, PolicySession,
           PolicyTotal, Reserve, UserFundsDeny, Gate, VerifyReceipt,
           FinalizeRead, FinalizeWrite, PersistExecution, UpsertPosition, Abort
<1>2. ASSUME NEW c \in Cycles, Mine(c)
      PROVE  prop'[d].key = prop[d].key /\ chain'[d].status = "success"
  BY <1>2 DEF Mine
<1> QED
  BY <1>1, <1>2, WatcherFrame, EnvironmentFrame DEF Next, vars

LEMMA SpentStable == TypeOK /\ Unsent /\ [Next]_vars => SpentKeys \subseteq SpentKeys'
  BY SuccessStable DEF SpentKeys

LEMMA CommittedStep == MinedInv /\ [Next]_vars => CommittedIsMined' /\ PositionIsMined'
<1> SUFFICES ASSUME MinedInv, [Next]_vars PROVE CommittedIsMined' /\ PositionIsMined'
  OBVIOUS
<1> USE DEF MinedInv
<1>1. SpentKeys \subseteq SpentKeys'
  BY SpentStable
<1>2. ASSUME UNCHANGED <<ledger, positions>>
      PROVE  CommittedIsMined' /\ PositionIsMined'
  BY <1>1, <1>2 DEF CommittedIsMined, PositionIsMined
<1>3. ASSUME NEW c \in Cycles, Reserve(c)
      PROVE  CommittedIsMined' /\ PositionIsMined'
  <2>1. ASSUME NEW k \in Keys, ledger'[k].status = "COMMITTED"
        PROVE  ledger[k].status = "COMMITTED"
    <3>1. prop[c].key \in Keys /\ prop[c].amount \in Nat /\ prop[c].session \in Sessions
      BY DEF TypeOK, Proposal
    <3>2. Reserved(ledger[prop[c].key], prop[c].amount, prop[c].session).status = "RESERVED"
      BY <3>1, ReservedType DEF TypeOK
    <3> QED
      BY <1>3, <2>1, <3>1, <3>2 DEF Reserve, TypeOK
  <2>2. UNCHANGED positions
    BY <1>3 DEF Reserve
  <2> QED
    BY <1>1, <2>1, <2>2 DEF CommittedIsMined, PositionIsMined
<1>4. ASSUME NEW c \in Cycles, FinalizeWrite(c)
      PROVE  CommittedIsMined' /\ PositionIsMined'
  <2>1. prop[c].key \in Keys /\ snap[c] \in Entry /\ snap[c].status = "RESERVED"
    BY <1>4 DEF FinalizeWrite, TypeOK, Proposal, ReadReserved
  <2>2. FinalizeWith(c) = "commit" => prop[c].key \in SpentKeys
    BY <2>1 DEF FinalizeWith, ReceiptIsTrue, SpentKeys
  <2>3. Finalized(snap[c], FinalizeWith(c)).status = "COMMITTED"
            => FinalizeWith(c) = "commit"
    BY <2>1, FinalizedType, FinalizeWithType DEF FinalizeKind
  <2>4. ASSUME NEW k \in Keys, ledger'[k].status = "COMMITTED"
        PROVE  k \in SpentKeys
    BY <1>4, <2>1, <2>2, <2>3, <2>4 DEF FinalizeWrite, TypeOK, CommittedIsMined
  <2>5. UNCHANGED positions
    BY <1>4 DEF FinalizeWrite
  <2> QED
    BY <1>1, <2>4, <2>5 DEF CommittedIsMined, PositionIsMined
<1>5. ASSUME NEW c \in Cycles, UpsertPosition(c)
      PROVE  CommittedIsMined' /\ PositionIsMined'
  <2>1. prop[c].key \in SpentKeys
    BY <1>5 DEF UpsertPosition, ReceiptIsTrue, SpentKeys, TypeOK, Proposal
  <2> QED
    BY <1>1, <1>5, <2>1 DEF UpsertPosition, CommittedIsMined, PositionIsMined
<1>6. ASSUME NEW c \in Cycles, CycleStep(c) \/ Abort(c)
      PROVE  \/ UNCHANGED <<ledger, positions>>
             \/ Reserve(c) \/ FinalizeWrite(c) \/ UpsertPosition(c)
  BY <1>6 DEF CycleStep, LoadAgent, Decide, Pass, PolicyAgent, PolicySession,
              PolicyTotal, UserFundsDeny, Gate, Send, SendThrows, VerifyReceipt,
              FinalizeRead, PersistExecution, Abort, store
<1> QED
  BY <1>2, <1>3, <1>4, <1>5, <1>6, WatcherFrame, EnvironmentFrame
     DEF Next, vars, store

LEMMA MinedInductive == Spec => []MinedInv
<1>1. Init => MinedInv
  BY MinedInit
<1>2. MinedInv /\ [Next]_vars => MinedInv'
  BY TypeStep, UnsentStep, ReceiptStep, CommittedStep DEF MinedInv
<1> QED
  BY <1>1, <1>2, PTL DEF Spec

\* However cycles interleave, whatever keys they share and wherever they
\* stop, a COMMITTED reservation is a mined transaction of its key.
THEOREM CommittedMined == Spec => []CommittedIsMined
<1>1. MinedInv => CommittedIsMined
  BY DEF MinedInv
<1> QED
  BY <1>1, MinedInductive, PTL

\* ... and so is a position.
THEOREM PositionMined == Spec => []PositionIsMined
<1>1. MinedInv => PositionIsMined
  BY DEF MinedInv
<1> QED
  BY <1>1, MinedInductive, PTL

-----------------------------------------------------------------------------
(* Ending a session stops every cycle not yet authorised                   *)

LEMMA KillSwitchStep == KillSwitchInv /\ [Next]_vars => KillSwitchInv'
<1> SUFFICES ASSUME KillSwitchInv, [Next]_vars PROVE KillSwitchInv'
  OBVIOUS
<1>1. TypeOK' /\ Unsent'
  BY TypeStep, UnsentStep DEF KillSwitchInv
<1> DEFINE Authorised(d) ==
      sessStatus[prop[d].session] = "ENDED" /\ (chain[d].status # "none" \/ pc[d] \in MaySend)
          => d \in inFlight
<1>2. SUFFICES ASSUME NEW d \in Cycles PROVE Authorised(d)'
  BY <1>1 DEF KillSwitchInv, KillSwitch
<1>3. Authorised(d) /\ TypeOK /\ Unsent
  BY DEF KillSwitchInv, KillSwitch
<1> USE DEF envVars, store, cycleVars, Goto, TypeOK, MaySend
<1>4. ASSUME NEW c \in Cycles, Decide(c) PROVE Authorised(d)'
  BY <1>3, <1>4 DEF Decide, Unsent, BeforeSend, NoTransaction
<1>5. ASSUME NEW c \in Cycles, PolicySession(c) PROVE Authorised(d)'
  BY <1>3, <1>5 DEF PolicySession, SessionChecks, Usable
<1>6. ASSUME NEW c \in Cycles, Send(c) \/ SendThrows(c) PROVE Authorised(d)'
  BY <1>3, <1>6 DEF Send, SendThrows
<1>7. ASSUME NEW c \in Cycles,
             LoadAgent(c) \/ Pass(c) \/ PolicyAgent(c) \/ PolicyTotal(c)
             \/ Reserve(c) \/ UserFundsDeny(c) \/ Gate(c) \/ VerifyReceipt(c)
      PROVE  Authorised(d)'
  BY <1>3, <1>7 DEF LoadAgent, Pass, PolicyAgent, PolicyTotal, Reserve,
                    UserFundsDeny, Gate, VerifyReceipt
<1>8. ASSUME NEW c \in Cycles,
             FinalizeRead(c) \/ FinalizeWrite(c) \/ PersistExecution(c)
             \/ UpsertPosition(c) \/ Abort(c)
      PROVE  Authorised(d)'
  BY <1>3, <1>8, AfterFinalizePhase
     DEF FinalizeRead, FinalizeWrite, PersistExecution, UpsertPosition, Abort
<1>9. ASSUME NEW c \in Cycles, Mine(c) PROVE Authorised(d)'
  BY <1>3, <1>9 DEF Mine
<1>10. ASSUME NEW s \in Sessions, EndSession(s) PROVE Authorised(d)'
  BY <1>3, <1>10 DEF EndSession
<1>11. ASSUME NEW s \in Sessions, ActivateSession(s) PROVE Authorised(d)'
  BY <1>3, <1>11 DEF ActivateSession
<1>12. CASE UNCHANGED <<sessStatus, inFlight, chain, pc, prop>>
  BY <1>3, <1>12
<1> QED
  BY <1>4, <1>5, <1>6, <1>7, <1>8, <1>9, <1>10, <1>11, <1>12, WatcherFrame
     DEF Next, CycleStep, Environment, Age, ToggleAgent, vars

\* No cycle broadcasts under an ended session unless it had passed the
\* policy's session check when the session ended.
THEOREM KillSwitchHolds == Spec => []KillSwitch
<1>1. Init => KillSwitchInv
  BY InitType DEF Init, KillSwitchInv, KillSwitch, Unsent, MaySend, NoTransaction
<1>2. KillSwitchInv /\ [Next]_vars => KillSwitchInv'
  BY KillSwitchStep
<1>3. KillSwitchInv => KillSwitch
  BY DEF KillSwitchInv
<1> QED
  BY <1>1, <1>2, <1>3, PTL DEF Spec

-----------------------------------------------------------------------------
(* With fresh keys and a backend that never throws after a broadcast, what *)
(* is on the chain is counted.                                             *)

\* CountedInv's own part, for one cycle.
Accounted(d) ==
    /\ pc[d] \in BeforeReserve => \A k \in KeysOf[d] : ledger[k].status = "ABSENT"
    /\ pc[d] \in Phase \ {"start", "session", "done", "dead"} =>
           prop[d].key \in KeysOf[d]
    /\ chain[d].status # "none" => prop[d].key \in KeysOf[d]
    /\ Holding(d) => Owns(d)
    /\ pc[d] = "write" => snap[d] = ledger[prop[d].key]
    /\ pc[d] \in {"finalize", "write"} /\ receipt[d] = "none" => chain[d].status = "none"
    /\ chain[d].status \in {"pending", "success"} =>
           LET e == ledger[prop[d].key]
           IN  Counted(e) /\ e.amount = prop[d].amount /\ e.session = prop[d].session

LEMMA AccountedAll ==
  (\A d \in Cycles : Accounted(d)) <=> OwnReservation /\ ThrewBeforeSend /\ LiveTxIsCounted
  BY DEF Accounted, OwnReservation, ThrewBeforeSend, LiveTxIsCounted

\* From its proposal on, a cycle's key is one it may be given.
OwnKey == \A c \in Cycles : pc[c] \in Phase \ {"start", "session", "done", "dead"} =>
              prop[c].key \in KeysOf[c]

LEMMA OwnKeyFollows == OwnReservation => OwnKey
  BY DEF OwnReservation, OwnKey

\* A cycle's step leaves another cycle, and its keys' documents, alone.
LEMMA OthersFrame ==
  ASSUME FreshKeys, TypeOK, OwnKey,
         NEW c \in Cycles, NEW d \in Cycles, c # d, CycleStep(c) \/ Abort(c)
  PROVE  /\ pc'[d] = pc[d] /\ prop'[d] = prop[d] /\ receipt'[d] = receipt[d]
         /\ snap'[d] = snap[d] /\ chain'[d] = chain[d]
         /\ \A k \in KeysOf[d] : ledger'[k] = ledger[k]
<1> USE DEF envVars, store, cycleVars, Goto, TypeOK
<1>1. CASE Reserve(c) \/ FinalizeWrite(c)
  <2>1. prop[c].key \in KeysOf[c] /\ prop[c].key \notin KeysOf[d]
    BY <1>1 DEF Reserve, FinalizeWrite, OwnKey, Phase, FreshKeys
  <2>2. KeysOf[d] \subseteq Keys
    BY CycleAssumption
  <2> QED
    BY <1>1, <2>1, <2>2 DEF Reserve, FinalizeWrite
<1>2. CASE ~(Reserve(c) \/ FinalizeWrite(c))
  BY <1>2 DEF CycleStep, LoadAgent, Decide, Pass, PolicyAgent, PolicySession,
              PolicyTotal, UserFundsDeny, Gate, Send, SendThrows, VerifyReceipt,
              FinalizeRead, PersistExecution, UpsertPosition, Abort
<1> QED
  BY <1>1, <1>2

\* A cycle's own steps.
LEMMA OwnStep ==
  ASSUME LostSend = FALSE, TypeOK, Unsent, ReceiptIsTrue,
         NEW c \in Cycles, Accounted(c), CycleStep(c) \/ Abort(c)
  PROVE  Accounted(c)'
<1> USE DEF envVars, store, cycleVars, Goto
<1>0. /\ pc[c] \in Phase /\ prop[c] \in Proposal /\ chain[c] \in Tx
      /\ receipt[c] \in Receipt
      /\ ledger \in [Keys -> Entry] /\ prop[c].key \in Keys
      /\ pc \in [Cycles -> Phase] /\ prop \in [Cycles -> Proposal]
      /\ chain \in [Cycles -> Tx] /\ receipt \in [Cycles -> Receipt]
      /\ snap \in [Cycles -> Entry]
  BY DEF TypeOK, Proposal
<1>00. pc[c] \in BeforeSend => chain[c].status = "none" /\ receipt[c] = "none"
  BY DEF Unsent, NoTransaction
<1>000. ASSUME Decide(c)
        PROVE  \E p \in Proposal : p.key \in KeysOf[c] /\ prop' = [prop EXCEPT ![c] = p]
  <2>1. PICK k \in KeysOf[c], a \in Amounts, s \in Sessions :
            prop' = [prop EXCEPT ![c] = [key |-> k, amount |-> a, session |-> s]]
    BY <1>000 DEF Decide
  <2>2. [key |-> k, amount |-> a, session |-> s] \in Proposal
    BY CycleAssumption DEF Proposal
  <2> QED
    BY <2>1, <2>2
<1> USE <1>0, <1>00 DEF Accounted, BeforeSend, BeforeReserve, Holding, Owns, Phase
<1>1. CASE LoadAgent(c) \/ Pass(c) \/ PolicyAgent(c) \/ PolicySession(c)
           \/ PolicyTotal(c)
  BY <1>1 DEF LoadAgent, Pass, PolicyAgent, PolicySession, PolicyTotal
<1>2. CASE Decide(c)
  <2>1. PICK p \in Proposal : p.key \in KeysOf[c] /\ prop' = [prop EXCEPT ![c] = p]
    BY <1>000, <1>2
  <2>2. prop'[c].key \in KeysOf[c] /\ pc' = [pc EXCEPT ![c] = "policyAgent"]
        /\ pc[c] = "session" /\ UNCHANGED <<ledger, chain, receipt, snap>>
    BY <1>2, <2>1 DEF Decide
  <2> QED
    BY <2>2
<1>3. CASE Reserve(c)
  <2> DEFINE k == prop[c].key
  <2>1. k \in KeysOf[c] /\ ledger[k].status = "ABSENT"
        /\ UNCHANGED <<chain, prop, receipt, snap>>
    BY <1>3 DEF Reserve
  <2>2. /\ ledger' = [ledger EXCEPT ![k] = [status |-> "RESERVED",
               amount |-> prop[c].amount, session |-> prop[c].session]]
        /\ pc' = [pc EXCEPT ![c] = "gate"]
    BY <1>3, <2>1 DEF Reserve, Refused, Reserved
  <2> QED
    BY <1>3, <2>1, <2>2 DEF Reserve
<1>4. CASE UserFundsDeny(c) \/ Gate(c)
  BY <1>4 DEF UserFundsDeny, Gate
<1>5. CASE Send(c)
  BY <1>5 DEF Send, Counted
<1>6. CASE SendThrows(c)
  BY <1>6 DEF SendThrows
<1>7. CASE VerifyReceipt(c)
  <2>1. PICK r \in ReceiptsFor(chain[c]) : receipt' = [receipt EXCEPT ![c] = r]
    BY <1>7 DEF VerifyReceipt
  <2>2. r # "none" \/ chain[c].status = "none"
    BY <2>1 DEF ReceiptsFor
  <2> QED
    BY <1>7, <2>1, <2>2 DEF VerifyReceipt
<1>8. CASE FinalizeRead(c)
  BY <1>8 DEF FinalizeRead, AfterFinalize
<1>9. CASE FinalizeWrite(c)
  <2>1. snap[c] = [status |-> "RESERVED", amount |-> prop[c].amount,
                   session |-> prop[c].session]
    BY <1>9 DEF FinalizeWrite
  <2>2. UNCHANGED <<chain, prop, receipt, snap>>
        /\ pc' = [pc EXCEPT ![c] = AfterFinalize(c)] /\ pc[c] = "write"
    BY <1>9 DEF FinalizeWrite
  <2>3. AfterFinalize(c) = "persist" => receipt[c] # "success"
    BY DEF AfterFinalize
  <2>4. chain[c].status \in {"pending", "success"} =>
            /\ Counted(Finalized(snap[c], FinalizeWith(c)))
            /\ Finalized(snap[c], FinalizeWith(c)).amount = prop[c].amount
            /\ Finalized(snap[c], FinalizeWith(c)).session = prop[c].session
    BY <2>1, <2>2 DEF FinalizeWith, Finalized, Counted, ReceiptIsTrue, Receipt
  <2>5. ledger'[prop[c].key] \in {ledger[prop[c].key],
                                  Finalized(snap[c], FinalizeWith(c))}
    BY <1>9 DEF FinalizeWrite
  <2> QED
    BY <2>2, <2>3, <2>4, <2>5, AfterFinalizePhase
<1>10. CASE PersistExecution(c)
  BY <1>10 DEF PersistExecution
<1>11. CASE UpsertPosition(c) \/ Abort(c)
  BY <1>11 DEF UpsertPosition, Abort
<1> QED
  BY <1>1, <1>2, <1>3, <1>4, <1>5, <1>6, <1>7, <1>8, <1>9, <1>10, <1>11
     DEF CycleStep

LEMMA CountedStep ==
  ASSUME FreshKeys, LostSend = FALSE
  PROVE  CountedInv /\ [Next]_vars => CountedInv'
<1> SUFFICES ASSUME CountedInv, [Next]_vars PROVE CountedInv'
  OBVIOUS
<1> USE DEF CountedInv
<1>0. ReadReserved
  <2> SUFFICES ASSUME NEW c \in Cycles, pc[c] = "write"
               PROVE  snap[c].status = "RESERVED"
    BY DEF ReadReserved
  <2>1. snap[c] = ledger[prop[c].key] /\ Owns(c)
    BY DEF OwnReservation, Holding
  <2> QED
    BY <2>1 DEF Owns
<1>1. TypeOK' /\ Unsent' /\ ReceiptIsTrue'
  BY <1>0, TypeStep, UnsentStep, ReceiptStep
<1>2. SUFFICES ASSUME NEW d \in Cycles PROVE Accounted(d)'
  BY <1>1 DEF Accounted, OwnReservation, ThrewBeforeSend, LiveTxIsCounted
<1>3. Accounted(d)
  BY AccountedAll
<1>4. ASSUME NEW c \in Cycles, CycleStep(c) \/ Abort(c) PROVE Accounted(d)'
  <2>1. CASE c = d
    BY <1>3, <1>4, <2>1, OwnStep
  <2>2. CASE c # d
    BY <1>3, <1>4, <2>2, OthersFrame, OwnKeyFollows
       DEF Accounted, Holding, Owns, Phase, BeforeReserve
  <2> QED
    BY <2>1, <2>2
<1>5. ASSUME NEW c \in Cycles, Mine(c) PROVE Accounted(d)'
  BY <1>3, <1>5 DEF Mine, Accounted, Holding, Owns, TypeOK, store, cycleVars
<1>6. CASE UNCHANGED <<ledger, chain, pc, prop, receipt, snap>>
  BY <1>3, <1>6 DEF Accounted, Holding, Owns
<1> QED
  BY <1>4, <1>5, <1>6, WatcherFrame, EnvironmentFrame
     DEF Next, vars, store, cycleVars

LEMMA CountedInit == Init => CountedInv
<1> SUFFICES ASSUME Init PROVE CountedInv
  OBVIOUS
<1>1. TypeOK
  BY InitType
<1>2. Unsent /\ ReceiptIsTrue /\ ThrewBeforeSend /\ LiveTxIsCounted
  BY DEF Init, Unsent, ReceiptIsTrue, ThrewBeforeSend, LiveTxIsCounted,
         NoTransaction
<1>3. OwnReservation
  BY CycleAssumption DEF Init, OwnReservation, Holding, AbsentEntry, NoTransaction
<1> QED
  BY <1>1, <1>2, <1>3 DEF CountedInv

\* If no two cycles are given one key and the backend never throws after a
\* broadcast, every transaction that is or may become a spend counts against
\* its session's cap, wherever a cycle stops.
THEOREM LiveTxCounted ==
  ASSUME FreshKeys, LostSend = FALSE
  PROVE  Spec => []LiveTxIsCounted
<1>1. Init => CountedInv
  BY CountedInit
<1>2. CountedInv /\ [Next]_vars => CountedInv'
  BY CountedStep
<1>3. CountedInv => LiveTxIsCounted
  BY DEF CountedInv
<1> QED
  BY <1>1, <1>2, <1>3, PTL DEF Spec

-----------------------------------------------------------------------------
(* Each reservation follows ReservationLifecycle                           *)

\* Only a block changes what is spent.
LEMMA SpentFrame ==
  ASSUME TypeOK, Unsent, NEW c \in Cycles, CycleStep(c) \/ Abort(c)
  PROVE  SpentKeys' = SpentKeys
<1> SUFFICES ASSUME NEW d \in Cycles
             PROVE  /\ chain'[d].status = "success" <=> chain[d].status = "success"
                    /\ chain[d].status = "success" => prop'[d].key = prop[d].key
  BY DEF SpentKeys
<1>0. pc[d] \in BeforeSend => chain[d].status = "none"
  BY DEF Unsent, NoTransaction
<1> USE DEF envVars, store, cycleVars, TypeOK
<1>1. CASE Decide(c)
  BY <1>0, <1>1 DEF Decide, BeforeSend
<1>2. CASE Send(c)
  BY <1>0, <1>2 DEF Send, BeforeSend
<1>3. CASE SendThrows(c)
  <2>1. chain[c].status = "none" /\ UNCHANGED prop
    BY <1>3 DEF SendThrows, Unsent, BeforeSend, NoTransaction
  <2>2. chain[c] \in Tx
    OBVIOUS
  <2>3. CASE UNCHANGED chain
    BY <2>1, <2>3
  <2>4. CASE chain' = [chain EXCEPT ![c].status = "pending"]
    <3>1. chain'[c].status = "pending"
      BY <2>2, <2>4 DEF Tx
    <3>2. CASE d = c
      BY <2>1, <3>1, <3>2
    <3>3. CASE d # c
      BY <2>1, <2>4, <3>3
    <3> QED
      BY <3>2, <3>3
  <2> QED
    BY <1>3, <2>3, <2>4 DEF SendThrows
<1>4. CASE UNCHANGED <<prop, chain>>
  BY <1>4
<1> QED
  BY <1>1, <1>2, <1>3, <1>4
     DEF CycleStep, LoadAgent, Pass, PolicyAgent, PolicySession, PolicyTotal,
         Reserve, UserFundsDeny, Gate, VerifyReceipt, FinalizeRead,
         FinalizeWrite, PersistExecution, UpsertPosition, Abort

\* The cycle that owns a key alone decides whether it is spent.
LEMMA SpentByOwner ==
  ASSUME FreshKeys, TypeOK, OwnReservation, NEW c \in Cycles,
         prop[c].key \in KeysOf[c], prop[c].key \in SpentKeys
  PROVE  chain[c].status = "success"
<1>1. PICK d \in Cycles : prop[d].key = prop[c].key /\ chain[d].status = "success"
  BY DEF SpentKeys
<1>2. prop[d].key \in KeysOf[d]
  BY <1>1 DEF OwnReservation
<1> QED
  BY <1>1, <1>2 DEF FreshKeys

LEMMA LifecycleStep ==
  ASSUME FreshKeys, LostSend = FALSE, CountedInv, MinedInv, [Next]_vars
  PROVE  [Lifecycle!Next]_(Lifecycle!vars)
<1> DEFINE Status == [k \in Keys |-> ledger[k].status]
<1> USE DEF CountedInv
<1>1. ASSUME UNCHANGED ledger, UNCHANGED SpentKeys
      PROVE  UNCHANGED Lifecycle!vars
  BY <1>1 DEF Lifecycle!vars
<1>2. ASSUME NEW c \in Cycles, Reserve(c) PROVE [Lifecycle!Next]_(Lifecycle!vars)
  <2> DEFINE k == prop[c].key
  <2>1. /\ k \in Keys /\ k \in KeysOf[c] /\ ledger[k].status = "ABSENT"
        /\ prop[c].amount \in Nat /\ prop[c].session \in Sessions
    BY <1>2 DEF Reserve, OwnReservation, BeforeReserve, Phase, TypeOK, Proposal
  <2>2. ledger' = [ledger EXCEPT ![k] = Reserved(@, prop[c].amount, prop[c].session)]
    BY <1>2, <2>1 DEF Reserve, Refused
  <2>3. Status' = [Status EXCEPT ![k] = "RESERVED"]
    BY <2>1, <2>2 DEF Reserved, TypeOK
  <2>4. SpentKeys' = SpentKeys
    BY <1>2, SpentFrame DEF CycleStep
  <2> QED
    BY <2>1, <2>3, <2>4 DEF Lifecycle!Next, Lifecycle!Reserve
<1>3. ASSUME NEW c \in Cycles, FinalizeWrite(c) PROVE [Lifecycle!Next]_(Lifecycle!vars)
  <2> DEFINE k == prop[c].key
             kind == FinalizeWith(c)
  <2>1. /\ k \in Keys /\ k \in KeysOf[c] /\ snap[c] = ledger[k]
        /\ ledger[k].status = "RESERVED" /\ ledger[k] \in Entry
    <3>1. pc[c] = "write"
      BY <1>3 DEF FinalizeWrite
    <3>2. k \in Keys
      BY DEF TypeOK, Proposal
    <3>3. k \in KeysOf[c]
      BY <3>1 DEF OwnReservation, Phase
    <3>4. snap[c] = ledger[k] /\ Owns(c)
      BY <3>1 DEF OwnReservation, Holding
    <3>5. ledger[k].status = "RESERVED"
      BY <3>4 DEF Owns
    <3>6. ledger[k] \in Entry
      BY <3>2 DEF TypeOK
    <3> QED
      BY <3>2, <3>3, <3>4, <3>5, <3>6
  <2>2. SpentKeys' = SpentKeys
    BY <1>3, SpentFrame DEF CycleStep
  <2>3. CASE UNCHANGED ledger
    BY <1>1, <2>2, <2>3
  <2>4. CASE ledger' = [ledger EXCEPT ![k] = Finalized(snap[c], kind)]
    <3>1. kind \in FinalizeKind
      BY FinalizeWithType
    <3>2. CASE kind = "commit"
      <4>1. chain[c].status = "success" /\ k \in SpentKeys
        BY <2>1, <3>2 DEF FinalizeWith, ReceiptIsTrue, SpentKeys
      <4>2. Status' = [Status EXCEPT ![k] = "COMMITTED"]
        BY <2>1, <2>4, <3>2 DEF Finalized, TypeOK, Entry
      <4> QED
        BY <2>1, <2>2, <4>1, <4>2 DEF Lifecycle!Next, Lifecycle!Commit
    <3>3. CASE kind = "release"
      <4>1. chain[c].status # "success"
        BY <1>3, <3>3 DEF FinalizeWrite, FinalizeWith, ReceiptIsTrue, ThrewBeforeSend
      <4>2. k \notin SpentKeys
        BY <2>1, <4>1, SpentByOwner
      <4>3. Status' = [Status EXCEPT ![k] = "RELEASED"]
        BY <2>1, <2>4, <3>3 DEF Finalized, TypeOK, Entry
      <4> QED
        BY <2>1, <2>2, <4>2, <4>3 DEF Lifecycle!Next, Lifecycle!Release
    <3>4. CASE kind = "hold"
      <4>1. ledger' = ledger
        BY <2>1, <2>4, <3>4 DEF Finalized, TypeOK
      <4> QED
        BY <1>1, <2>2, <4>1
    <3> QED
      BY <3>1, <3>2, <3>3, <3>4 DEF FinalizeKind
  <2> QED
    BY <1>3, <2>3, <2>4 DEF FinalizeWrite
<1>4. ASSUME NEW c \in Cycles, Mine(c) PROVE [Lifecycle!Next]_(Lifecycle!vars)
  <2> DEFINE k == prop[c].key
  <2>1. PICK r \in {"success", "reverted"} : chain' = [chain EXCEPT ![c].status = r]
    BY <1>4 DEF Mine
  <2>2. /\ k \in Keys /\ k \in KeysOf[c] /\ chain[c].status = "pending"
        /\ UNCHANGED <<ledger, prop>>
    BY <1>4 DEF Mine, OwnReservation, TypeOK, Proposal, store, cycleVars
  <2>3. CASE r = "reverted"
    <3>1. SpentKeys' = SpentKeys
      BY <2>1, <2>2, <2>3 DEF SpentKeys, TypeOK
    <3> QED
      BY <1>1, <2>2, <3>1
  <2>4. CASE r = "success"
    <3>1. SpentKeys' = SpentKeys \cup {k}
      BY <2>1, <2>2, <2>4 DEF SpentKeys, TypeOK
    <3>2. ledger[k].status \in {"RESERVED", "COMMITTED"}
      BY <2>2 DEF LiveTxIsCounted, Counted
    <3>3. k \notin SpentKeys
      BY <2>2, SpentByOwner
    <3>4. ledger[k].status = "RESERVED"
      BY <2>2, <3>2, <3>3 DEF MinedInv, CommittedIsMined
    <3>5. Status' = Status
      BY <2>2
    <3> QED
      BY <2>2, <3>1, <3>4, <3>5 DEF Lifecycle!Next, Lifecycle!Spend
  <2> QED
    BY <2>1, <2>3, <2>4
<1>5. ASSUME NEW c \in Cycles, CycleStep(c) \/ Abort(c)
      PROVE  UNCHANGED ledger \/ Reserve(c) \/ FinalizeWrite(c)
  BY <1>5 DEF CycleStep, LoadAgent, Decide, Pass, PolicyAgent, PolicySession,
              PolicyTotal, UserFundsDeny, Gate, Send, SendThrows, VerifyReceipt,
              FinalizeRead, PersistExecution, UpsertPosition, Abort, store
<1>6. ASSUME NEW c \in Cycles, CycleStep(c) \/ Abort(c)
      PROVE  [Lifecycle!Next]_(Lifecycle!vars)
  BY <1>1, <1>2, <1>3, <1>5, <1>6, SpentFrame
<1>7. ASSUME UNCHANGED <<ledger, chain, prop>> PROVE UNCHANGED Lifecycle!vars
  BY <1>1, <1>7 DEF SpentKeys
<1> QED
  BY <1>4, <1>6, <1>7, WatcherFrame, EnvironmentFrame
     DEF Next, vars, store, cycleVars

\* With fresh keys and no throw after a broadcast, every reservation follows
\* the lifecycle the policy engine documents.
THEOREM LifecycleImplemented ==
  ASSUME FreshKeys, LostSend = FALSE
  PROVE  Spec => ImplementsLifecycle
<1>1. Init => Lifecycle!Init
  <2> SUFFICES ASSUME Init PROVE Lifecycle!Init
    OBVIOUS
  <2>1. [k \in Keys |-> ledger[k].status] = [k \in Keys |-> "ABSENT"]
    BY DEF Init, AbsentEntry
  <2>2. SpentKeys = {}
    BY DEF Init, SpentKeys, NoTransaction
  <2> QED
    BY <2>1, <2>2 DEF Lifecycle!Init
<1>2. Init => CountedInv
  BY CountedInit
<1>3. CountedInv /\ [Next]_vars => CountedInv'
  BY CountedStep
<1>4. CountedInv /\ MinedInv /\ [Next]_vars => [Lifecycle!Next]_(Lifecycle!vars)
  BY LifecycleStep
<1> QED
  BY <1>1, <1>2, <1>3, <1>4, MinedInductive, PTL DEF Spec, ImplementsLifecycle, Lifecycle!Spec

-----------------------------------------------------------------------------
(* What is CONFIRMED has a receipt                                         *)

\* Phases in which the cycle has written its execution, or never will.
Recorded(c) ==
    \/ pc[c] \in {"position", "done", "dead"}
    \/ receipt[c] = "success" /\ pc[c] \in {"finalize", "write"}

\* A key's execution document is its cycle's, and is not there before.
NotYetRecorded ==
    \A c \in Cycles : ~Recorded(c) => \A k \in KeysOf[c] : executions[k].status = "ABSENT"

RecordOf(k) ==
    executions[k].status # "ABSENT" =>
        /\ executions[k].tx \in Cycles
        /\ k \in KeysOf[executions[k].tx]
        /\ executions[k].status = "CONFIRMED" => chain[executions[k].tx].status = "success"

\* The watcher's copy names the transaction the document still names.
CopyOf(k) == ~Idle(k) => /\ executions[k].status # "ABSENT"
                         /\ watch[k].tx = executions[k].tx

RecordInv == /\ TypeOK
             /\ Unsent
             /\ ReceiptIsTrue
             /\ ReadReserved
             /\ OwnKey
             /\ NotYetRecorded
             /\ \A k \in Keys : RecordOf(k) /\ CopyOf(k)

LEMMA OwnKeyStep == TypeOK /\ OwnKey /\ [Next]_vars => OwnKey'
<1> SUFFICES ASSUME TypeOK, OwnKey, [Next]_vars, NEW d \in Cycles,
                    pc'[d] \in Phase \ {"start", "session", "done", "dead"}
             PROVE  prop'[d].key \in KeysOf[d]
  BY DEF OwnKey
<1> USE DEF envVars, store, cycleVars, Goto, TypeOK, OwnKey, Phase
<1>1. ASSUME NEW c \in Cycles, Decide(c) PROVE prop'[d].key \in KeysOf[d]
  <2>1. PICK k \in KeysOf[c], a \in Amounts, s \in Sessions :
            prop' = [prop EXCEPT ![c] = [key |-> k, amount |-> a, session |-> s]]
    BY <1>1 DEF Decide
  <2> QED
    BY <1>1, <2>1 DEF Decide
<1>2. ASSUME NEW c \in Cycles,
             LoadAgent(c) \/ Pass(c) \/ PolicyAgent(c) \/ PolicySession(c)
             \/ PolicyTotal(c) \/ Reserve(c) \/ UserFundsDeny(c) \/ Gate(c)
             \/ Send(c) \/ SendThrows(c)
      PROVE  prop'[d].key \in KeysOf[d]
  BY <1>2 DEF LoadAgent, Pass, PolicyAgent, PolicySession, PolicyTotal, Reserve,
              UserFundsDeny, Gate, Send, SendThrows
<1>3. ASSUME NEW c \in Cycles,
             VerifyReceipt(c) \/ FinalizeRead(c) \/ FinalizeWrite(c)
             \/ PersistExecution(c) \/ UpsertPosition(c) \/ Abort(c)
      PROVE  prop'[d].key \in KeysOf[d]
  BY <1>3 DEF VerifyReceipt, FinalizeRead, FinalizeWrite, PersistExecution,
              UpsertPosition, Abort, Active
<1>4. CASE UNCHANGED <<pc, prop>>
  BY <1>4
<1> QED
  BY <1>1, <1>2, <1>3, <1>4, WatcherFrame, EnvironmentFrame
     DEF Next, CycleStep, vars

\* What has been recorded, or cannot be any more, stays so.
LEMMA RecordedStable ==
  ASSUME TypeOK, [Next]_vars, NEW d \in Cycles, Recorded(d)
  PROVE  Recorded(d)'
<1> USE DEF envVars, store, cycleVars, Goto, TypeOK, Recorded
<1>1. ASSUME NEW c \in Cycles, CycleStep(c) \/ Abort(c) PROVE Recorded(d)'
  <2>1. CASE c # d
    BY <1>1, <2>1
       DEF CycleStep, LoadAgent, Decide, Pass, PolicyAgent, PolicySession,
           PolicyTotal, Reserve, UserFundsDeny, Gate, Send, SendThrows,
           VerifyReceipt, FinalizeRead, FinalizeWrite, PersistExecution,
           UpsertPosition, Abort
  <2>2. CASE c = d
    <3>1. receipt[d] = "success" => AfterFinalize(d) = "position"
      BY DEF AfterFinalize
    <3>2. \/ FinalizeRead(d) \/ FinalizeWrite(d) \/ UpsertPosition(d) \/ Abort(d)
      BY <1>1, <2>2
         DEF CycleStep, LoadAgent, Decide, Pass, PolicyAgent, PolicySession,
             PolicyTotal, Reserve, UserFundsDeny, Gate, Send, SendThrows,
             VerifyReceipt, PersistExecution
    <3> QED
      BY <3>1, <3>2 DEF FinalizeRead, FinalizeWrite, UpsertPosition, Abort
  <2> QED
    BY <2>1, <2>2
<1>2. CASE UNCHANGED cycleVars
  BY <1>2
<1> QED
  BY <1>1, <1>2, WatcherFrame, EnvironmentFrame DEF Next, vars

LEMMA RecordStep ==
  ASSUME FreshKeys, RecordInv, [Next]_vars
  PROVE  NotYetRecorded' /\ \A k \in Keys : RecordOf(k)' /\ CopyOf(k)'
<1> USE DEF RecordInv
<1>1. \A d \in Cycles : Recorded(d) => Recorded(d)'
  BY RecordedStable
<1>2. \A d \in Cycles : chain[d].status = "success" => chain'[d].status = "success"
  BY SuccessStable
<1>3. /\ executions \in [Keys -> Execution] /\ watch \in [Keys -> Execution]
      /\ \A d \in Cycles : KeysOf[d] \subseteq Keys
  BY CycleAssumption DEF TypeOK
<1>4. ASSUME UNCHANGED <<executions, watch>>
      PROVE  NotYetRecorded' /\ \A k \in Keys : RecordOf(k)' /\ CopyOf(k)'
  BY <1>1, <1>2, <1>4 DEF NotYetRecorded, RecordOf, CopyOf, Idle
<1>5. ASSUME NEW c \in Cycles, PersistExecution(c)
      PROVE  NotYetRecorded' /\ \A k \in Keys : RecordOf(k)' /\ CopyOf(k)'
  <2> DEFINE key == prop[c].key
  <2>1. key \in KeysOf[c] /\ key \in Keys /\ ~Recorded(c)
    BY <1>3, <1>5 DEF PersistExecution, OwnKey, Phase, Recorded
  <2>2. executions[key].status = "ABSENT" /\ Idle(key)
    BY <2>1 DEF NotYetRecorded, CopyOf
  <2>3. /\ executions' = [executions EXCEPT ![key] =
                              [status |-> ExecutionStatus(c), tx |-> c, age |-> 0]]
        /\ UNCHANGED <<watch, chain>>
    BY <1>5 DEF PersistExecution
  <2>4. Recorded(c)'
    <3>1. /\ pc'[c] = IF receipt[c] = "success" THEN "finalize" ELSE "done"
          /\ receipt'[c] = receipt[c]
      BY <1>5 DEF PersistExecution, Goto, TypeOK
    <3> QED
      BY <3>1 DEF Recorded
  <2>5. ExecutionStatus(c) = "CONFIRMED" => chain[c].status = "success"
    BY DEF ExecutionStatus, ReceiptIsTrue
  <2>6. NotYetRecorded'
    <3> SUFFICES ASSUME NEW d \in Cycles, ~Recorded(d)', NEW k \in KeysOf[d]
                 PROVE  executions'[k].status = "ABSENT"
      BY DEF NotYetRecorded
    <3>1. ~Recorded(d) /\ d # c
      BY <1>1, <2>4
    <3>2. k # key /\ k \in Keys
      BY <1>3, <2>1, <3>1 DEF FreshKeys
    <3> QED
      BY <1>3, <2>3, <3>1, <3>2 DEF NotYetRecorded
  <2>7. ASSUME NEW k \in Keys PROVE RecordOf(k)' /\ CopyOf(k)'
    <3>1. CASE k = key
      BY <1>3, <2>1, <2>2, <2>3, <2>5, <3>1 DEF RecordOf, CopyOf, Idle
    <3>2. CASE k # key
      BY <1>3, <2>3, <3>2 DEF RecordOf, CopyOf, Idle
    <3> QED
      BY <3>1, <3>2
  <2> QED
    BY <2>6, <2>7
<1>6. CASE WatchStart
  <2>1. /\ UNCHANGED <<executions, chain>>
        /\ \A k \in Keys : watch'[k] \in {executions[k], NoExecution}
        /\ \A k \in Keys : watch'[k] # NoExecution => k \in Executing
    BY <1>6 DEF WatchStart, store, Batch
  <2> QED
    BY <1>1, <2>1 DEF NotYetRecorded, RecordOf, CopyOf, Idle, Executing
<1>7. ASSUME NEW k \in Keys, NEW v \in {"CONFIRMED", "FAILED"}, Settle(k, v), ~Idle(k),
             v = "CONFIRMED" => chain[watch[k].tx].status = "success"
      PROVE  NotYetRecorded' /\ \A j \in Keys : RecordOf(j)' /\ CopyOf(j)'
  <2>1. /\ executions[k].status # "ABSENT" /\ watch[k].tx = executions[k].tx
        /\ RecordOf(k)
    BY <1>7 DEF CopyOf
  <2>2. /\ executions' = [executions EXCEPT ![k].status = v]
        /\ watch' = [watch EXCEPT ![k] = NoExecution]
        /\ UNCHANGED chain
    BY <1>7 DEF Settle
  <2>3. executions'[k].status = v /\ executions'[k].tx = executions[k].tx
    BY <1>3, <2>2 DEF Execution
  <2>4. ASSUME NEW j \in Keys PROVE RecordOf(j)' /\ CopyOf(j)'
    <3>1. CASE j = k
      BY <1>3, <1>7, <2>1, <2>2, <2>3, <3>1 DEF RecordOf, CopyOf, Idle
    <3>2. CASE j # k
      BY <1>3, <2>2, <3>2 DEF RecordOf, CopyOf, Idle
    <3> QED
      BY <3>1, <3>2
  <2>5. NotYetRecorded'
    BY <1>1, <1>3, <2>1, <2>2 DEF NotYetRecorded
  <2> QED
    BY <2>4, <2>5
<1>8. ASSUME NEW k \in Keys, WatchReceipt(k) \/ WatchBatchTimeout(k) \/ WatchTimeout(k)
      PROVE  NotYetRecorded' /\ \A j \in Keys : RecordOf(j)' /\ CopyOf(j)'
  BY <1>7, <1>8 DEF WatchReceipt, WatchBatchTimeout, WatchTimeout
<1>9. ASSUME NEW k \in Keys, WatchSkip(k)
      PROVE  NotYetRecorded' /\ \A j \in Keys : RecordOf(j)' /\ CopyOf(j)'
  BY <1>1, <1>3, <1>9 DEF WatchSkip, store, NotYetRecorded, RecordOf, CopyOf, Idle
<1>10. ASSUME NEW k \in Keys, Age(k)
       PROVE  NotYetRecorded' /\ \A j \in Keys : RecordOf(j)' /\ CopyOf(j)'
  <2>1. \A j \in Keys : /\ executions'[j].status = executions[j].status
                        /\ executions'[j].tx = executions[j].tx
    BY <1>3, <1>10 DEF Age, Execution
  <2>2. UNCHANGED <<watch, chain>>
    BY <1>10 DEF Age
  <2> QED
    BY <1>1, <1>3, <2>1, <2>2 DEF NotYetRecorded, RecordOf, CopyOf, Idle
<1>11. ASSUME NEW c \in Cycles, CycleStep(c) \/ Abort(c)
       PROVE  UNCHANGED <<executions, watch>> \/ PersistExecution(c)
  BY <1>11 DEF CycleStep, LoadAgent, Decide, Pass, PolicyAgent, PolicySession,
               PolicyTotal, Reserve, UserFundsDeny, Gate, Send, SendThrows,
               VerifyReceipt, FinalizeRead, FinalizeWrite, UpsertPosition, Abort, store
<1>12. ASSUME Environment, \A k \in Keys : ~Age(k) PROVE UNCHANGED <<executions, watch>>
  BY <1>12 DEF Environment, Mine, ToggleAgent, ActivateSession, EndSession, store
<1> QED
  BY <1>4, <1>5, <1>6, <1>8, <1>9, <1>10, <1>11, <1>12 DEF Next, Watcher, vars, store

\* With fresh keys nothing is CONFIRMED without an on-chain receipt, whether
\* the cycle writes it or the watcher from a copy it read a while ago.
THEOREM ConfirmedMined ==
  ASSUME FreshKeys
  PROVE  Spec => []ConfirmedIsMined
<1>1. Init => RecordInv
  <2> SUFFICES ASSUME Init PROVE RecordInv
    OBVIOUS
  <2>1. MinedInv
    BY MinedInit
  <2>2. OwnKey /\ NotYetRecorded /\ \A k \in Keys : RecordOf(k) /\ CopyOf(k)
    BY CycleAssumption DEF Init, OwnKey, NotYetRecorded, RecordOf, CopyOf, Idle, NoExecution
  <2> QED
    BY <2>1, <2>2 DEF RecordInv, MinedInv
<1>2. RecordInv /\ [Next]_vars => RecordInv'
  <2> SUFFICES ASSUME RecordInv, [Next]_vars PROVE RecordInv'
    OBVIOUS
  <2>1. TypeOK' /\ Unsent' /\ ReceiptIsTrue' /\ ReadReserved' /\ OwnKey'
    BY TypeStep, UnsentStep, ReceiptStep, OwnKeyStep DEF RecordInv
  <2>2. NotYetRecorded' /\ \A k \in Keys : RecordOf(k)' /\ CopyOf(k)'
    BY RecordStep
  <2> QED
    BY <2>1, <2>2 DEF RecordInv
<1>3. RecordInv => ConfirmedIsMined
  BY DEF RecordInv, RecordOf, ConfirmedIsMined
<1> QED
  BY <1>1, <1>2, <1>3, PTL DEF Spec

-----------------------------------------------------------------------------
(* A cycle that ends leaves its reservation as its receipt says            *)

FinalStatus(c) ==
    CASE receipt[c] = "success" -> {"COMMITTED"}
      [] receipt[c] \in {"pending", "unverifiable"} -> {"RESERVED"}
      [] OTHER -> {"ABSENT", "RELEASED"}

HasFinalized(c) == \/ pc[c] = "done" /\ prop[c].key \in KeysOf[c]
                   \/ pc[c] = "position"
                   \/ pc[c] = "persist" /\ receipt[c] # "success"

\* From the write of the reservation on, and not only once the cycle is done.
AsReceipt(c) == HasFinalized(c) => ledger[prop[c].key].status \in FinalStatus(c)

FinalInv == CountedInv /\ \A c \in Cycles : AsReceipt(c)

\* What the write makes of a held document is what the receipt asks for.
LEMMA FinalizedAsReceipt ==
  ASSUME TypeOK, NEW c \in Cycles, NEW e \in Entry, e.status = "RESERVED"
  PROVE  Finalized(e, FinalizeWith(c)).status \in FinalStatus(c)
<1>1. receipt[c] \in Receipt /\ FinalizeWith(c) \in FinalizeKind
  BY FinalizeWithType DEF TypeOK
<1>2. CASE receipt[c] = "success"
  <2>1. FinalizeWith(c) = "commit" /\ FinalStatus(c) = {"COMMITTED"}
    BY <1>2 DEF FinalizeWith, FinalStatus
  <2> QED
    BY <1>1, <2>1, FinalizedType
<1>3. CASE receipt[c] \in {"pending", "unverifiable"}
  <2>1. FinalizeWith(c) = "hold" /\ FinalStatus(c) = {"RESERVED"}
    BY <1>3 DEF FinalizeWith, FinalStatus
  <2> QED
    BY <1>1, <2>1, FinalizedType
<1>4. CASE receipt[c] \in {"reverted", "none"}
  <2>1. FinalizeWith(c) = "release" /\ FinalStatus(c) = {"ABSENT", "RELEASED"}
    BY <1>4 DEF FinalizeWith, FinalStatus
  <2> QED
    BY <1>1, <2>1, FinalizedType
<1> QED
  BY <1>1, <1>2, <1>3, <1>4 DEF Receipt

LEMMA AsReceiptOwnStep ==
  ASSUME Faults = FALSE, RequiresUserFunds = FALSE, CountedInv,
         NEW c \in Cycles, AsReceipt(c), CycleStep(c) \/ Abort(c)
  PROVE  AsReceipt(c)'
<1> USE DEF CountedInv
<1>0. /\ pc \in [Cycles -> Phase] /\ prop[c].key \in Keys /\ receipt[c] \in Receipt
      /\ prop \in [Cycles -> Proposal] /\ receipt \in [Cycles -> Receipt]
      /\ ledger \in [Keys -> Entry] /\ snap[c] \in Entry
  BY DEF TypeOK, Proposal
<1>1. ASSUME pc'[c] \notin {"done", "position", "persist"} PROVE AsReceipt(c)'
  BY <1>1 DEF AsReceipt, HasFinalized
<1>2. ASSUME UNCHANGED <<ledger, prop, receipt>>,
             receipt[c] = "none",
             prop[c].key \in KeysOf[c] => ledger[prop[c].key].status = "ABSENT",
             pc'[c] = "done"
      PROVE  AsReceipt(c)'
  BY <1>2 DEF AsReceipt, HasFinalized, FinalStatus
<1>3. ASSUME UNCHANGED <<ledger, prop, receipt>>, HasFinalized(c) PROVE AsReceipt(c)'
  BY <1>3 DEF AsReceipt, FinalStatus
<1> USE DEF envVars, store, cycleVars, Goto
<1>4. CASE LoadAgent(c) \/ Decide(c) \/ Gate(c) \/ Send(c)
  BY <1>0, <1>1, <1>4 DEF LoadAgent, Decide, Gate, Send
<1>5. CASE Pass(c) \/ PolicyAgent(c) \/ PolicySession(c) \/ PolicyTotal(c)
  <2>1. /\ UNCHANGED <<ledger, prop, receipt>> /\ receipt[c] = "none"
        /\ prop[c].key \in KeysOf[c] => ledger[prop[c].key].status = "ABSENT"
    BY <1>5 DEF Pass, PolicyAgent, PolicySession, PolicyTotal, Unsent, BeforeSend,
                OwnReservation, BeforeReserve
  <2>2. pc'[c] \in {"done", "policySession", "policyTotal", "reserve"}
    BY <1>0, <1>5 DEF Pass, PolicyAgent, PolicySession, PolicyTotal
  <2> QED
    BY <1>1, <1>2, <2>1, <2>2
<1>6. CASE Reserve(c)
  <2>1. ledger[prop[c].key].status = "ABSENT"
    BY <1>6 DEF Reserve, OwnReservation, BeforeReserve, Phase
  <2>2. pc'[c] = "gate"
    BY <1>0, <1>6, <2>1 DEF Reserve, Refused
  <2> QED
    BY <1>1, <2>2
<1>7. CASE SendThrows(c)
  BY <1>0, <1>1, <1>7 DEF SendThrows
<1>8. CASE VerifyReceipt(c)
  <2>1. \/ pc'[c] = "finalize"
        \/ pc'[c] = "persist" /\ receipt'[c] = "success"
    BY <1>0, <1>8 DEF VerifyReceipt
  <2> QED
    BY <2>1 DEF AsReceipt, HasFinalized
<1>9. CASE FinalizeRead(c)
  <2>1. ledger[prop[c].key].status = "RESERVED"
    <3>1. Owns(c)
      BY <1>9 DEF FinalizeRead, OwnReservation, Holding
    <3> QED
      BY <3>1 DEF Owns
  <2>2. pc'[c] = "write"
    BY <1>0, <1>9, <2>1 DEF FinalizeRead
  <2> QED
    BY <1>1, <2>2
<1>10. CASE FinalizeWrite(c)
  <2>1. snap[c].status = "RESERVED"
    <3>1. Owns(c) /\ snap[c] = ledger[prop[c].key]
      BY <1>10 DEF FinalizeWrite, OwnReservation, Holding
    <3> QED
      BY <3>1 DEF Owns
  <2>2. /\ ledger' = [ledger EXCEPT ![prop[c].key] = Finalized(snap[c], FinalizeWith(c))]
        /\ UNCHANGED <<prop, receipt>>
    BY <1>10 DEF FinalizeWrite
  <2>3. ledger'[prop'[c].key].status \in FinalStatus(c)
    BY <1>0, <2>1, <2>2, FinalizedAsReceipt
  <2>4. FinalStatus(c)' = FinalStatus(c)
    BY <2>2 DEF FinalStatus
  <2> QED
    BY <2>3, <2>4 DEF AsReceipt
<1>11. CASE PersistExecution(c)
  <2>1. CASE receipt[c] = "success"
    BY <1>0, <1>1, <1>11, <2>1 DEF PersistExecution
  <2>2. CASE receipt[c] # "success"
    BY <1>3, <1>11, <2>2 DEF PersistExecution, HasFinalized
  <2> QED
    BY <2>1, <2>2
<1>12. CASE UpsertPosition(c)
  BY <1>3, <1>12 DEF UpsertPosition, HasFinalized
<1> QED
  BY <1>4, <1>5, <1>6, <1>7, <1>8, <1>9, <1>10, <1>11, <1>12
     DEF CycleStep, UserFundsDeny, Abort

\* In a loop that dies nowhere, with fresh keys, no throw after a broadcast and
\* no user-funds gate, a cycle that ends leaves its reservation committed on
\* success, held while its transaction is unknown, and freed otherwise.
THEOREM FinalizedAsReceiptSays ==
  ASSUME FreshKeys, LostSend = FALSE, Faults = FALSE, RequiresUserFunds = FALSE
  PROVE  Spec => []FinalizedByReceipt
<1>1. Init => FinalInv
  <2> SUFFICES ASSUME Init, NEW c \in Cycles PROVE AsReceipt(c)
    BY CountedInit DEF FinalInv
  <2> QED
    BY DEF Init, AsReceipt, HasFinalized
<1>2. FinalInv /\ [Next]_vars => FinalInv'
  <2> SUFFICES ASSUME FinalInv, [Next]_vars, NEW d \in Cycles PROVE AsReceipt(d)'
    BY CountedStep DEF FinalInv
  <2>1. CountedInv /\ AsReceipt(d)
    BY DEF FinalInv
  <2>2. ASSUME NEW c \in Cycles, CycleStep(c) \/ Abort(c) PROVE AsReceipt(d)'
    <3>1. CASE c = d
      BY <2>1, <2>2, <3>1, AsReceiptOwnStep
    <3>2. CASE c # d
      <4>1. /\ pc'[d] = pc[d] /\ prop'[d] = prop[d] /\ receipt'[d] = receipt[d]
            /\ \A k \in KeysOf[d] : ledger'[k] = ledger[k]
        BY <2>1, <2>2, <3>2, OthersFrame, OwnKeyFollows DEF CountedInv
      <4>2. HasFinalized(d) => prop[d].key \in KeysOf[d]
        BY <2>1 DEF HasFinalized, CountedInv, OwnReservation, Phase
      <4> QED
        BY <2>1, <4>1, <4>2 DEF AsReceipt, HasFinalized, FinalStatus
    <3> QED
      BY <3>1, <3>2
  <2>3. CASE UNCHANGED <<ledger, cycleVars>>
    BY <2>1, <2>3 DEF AsReceipt, HasFinalized, FinalStatus, cycleVars
  <2> QED
    BY <2>2, <2>3, WatcherFrame, EnvironmentFrame DEF Next, vars, store
<1>3. FinalInv => FinalizedByReceipt
  <2> SUFFICES ASSUME FinalInv, NEW c \in Cycles, pc[c] = "done", prop[c].key \in KeysOf[c]
               PROVE  LET status == ledger[prop[c].key].status
                      IN  CASE receipt[c] = "success" -> status = "COMMITTED"
                            [] receipt[c] \in {"pending", "unverifiable"} -> status = "RESERVED"
                            [] OTHER -> status \in {"ABSENT", "RELEASED"}
    BY DEF FinalizedByReceipt
  <2>1. ledger[prop[c].key].status \in FinalStatus(c)
    BY DEF FinalInv, AsReceipt, HasFinalized
  <2> QED
    BY <2>1 DEF FinalStatus
<1> QED
  BY <1>1, <1>2, <1>3, PTL DEF Spec

-----------------------------------------------------------------------------
(* What the ledger counts against a session, one document at a time        *)

AmountsOf(led) == [k \in Keys |-> led[k].amount]
CountedKeys(led, s) == {k \in Keys : led[k].session = s /\ Counted(led[k])}

\* What one document adds to the total.
Share(led, s, k) == IF k \in CountedKeys(led, s) THEN led[k].amount ELSE 0

LEMMA SessionSum ==
  ASSUME NEW led \in [Keys -> Entry], NEW s
  PROVE  /\ IsFiniteSet(CountedKeys(led, s))
         /\ NatValued(AmountsOf(led), CountedKeys(led, s))
         /\ SessionTotal(led, s) = Total(AmountsOf(led), CountedKeys(led, s))
<1> DEFINE C == CountedKeys(led, s)
           f == AmountsOf(led)
           Made(g) == g = [t \in SUBSET C |-> IF t = {} THEN 0
                               ELSE led[Pick(t)].amount + g[t \ {Pick(t)}]]
<1>1. IsFiniteSet(C) /\ C \subseteq Keys
  BY KeysAssumption, FS_Subset DEF CountedKeys
<1>2. NatValued(f, C)
  BY <1>1 DEF AmountsOf, NatValued, Entry
<1>3. SessionTotal(led, s) = (CHOOSE g : Made(g))[C]
  BY Zenon DEF SessionTotal, MapThenSumSet, MapThenFoldSet, CountedKeys, Pick
<1>4. ASSUME NEW g PROVE Made(g) <=> IsSum(g, f, C)
  <2>1. ASSUME NEW t \in SUBSET C, t # {} PROVE f[Pick(t)] = led[Pick(t)].amount
    <3>1. Pick(t) \in Keys
      BY <1>1, <2>1 DEF Pick
    <3> QED
      BY <3>1 DEF AmountsOf
  <2>2. \A t \in SUBSET C : SumStep(g, f, t) = IF t = {} THEN 0
                                ELSE led[Pick(t)].amount + g[t \ {Pick(t)}]
    BY <2>1 DEF SumStep
  <2>3. [t \in SUBSET C |-> SumStep(g, f, t)] = [t \in SUBSET C |-> IF t = {} THEN 0
                                ELSE led[Pick(t)].amount + g[t \ {Pick(t)}]]
    BY <2>2
  <2> QED
    BY <2>3 DEF IsSum
<1> DEFINE c == CHOOSE g : Made(g)
<1>5. \E g : Made(g)
  BY <1>1, <1>2, <1>4, SumExists
<1>6. Made(c)
  <2> HIDE DEF Made
  <2> QED
    BY <1>5
<1>7. Total(f, C) = c[C]
  <2>1. IsSum(c, f, C)
    BY <1>4, <1>6
  <2> HIDE DEF c, f, C
  <2> QED
    BY <1>1, <1>2, <2>1, TotalIsSum
<1> QED
  BY <1>1, <1>2, <1>3, <1>7

LEMMA SessionTotalType ==
  ASSUME NEW led \in [Keys -> Entry], NEW s
  PROVE  SessionTotal(led, s) \in Nat
  BY SessionSum, TotalType

LEMMA WithoutDocument ==
  ASSUME NEW led \in [Keys -> Entry], NEW s, NEW k \in Keys
  PROVE  /\ Share(led, s, k) \in Nat
         /\ Total(AmountsOf(led), CountedKeys(led, s) \ {k}) \in Nat
         /\ SessionTotal(led, s) = Share(led, s, k)
                + Total(AmountsOf(led), CountedKeys(led, s) \ {k})
<1> DEFINE C == CountedKeys(led, s)
           f == AmountsOf(led)
<1>1. IsFiniteSet(C) /\ NatValued(f, C) /\ SessionTotal(led, s) = Total(f, C)
  BY SessionSum
<1>2. IsFiniteSet(C \ {k}) /\ NatValued(f, C \ {k})
  BY <1>1, FS_Subset DEF NatValued
<1>3. Total(f, C \ {k}) \in Nat
  BY <1>2, TotalType
<1>4. f[k] = led[k].amount /\ f[k] \in Nat
  BY DEF AmountsOf, Entry
<1>5. CASE k \in C
  <2>1. Total(f, C) = f[k] + Total(f, C \ {k})
    BY <1>1, <1>5, TotalWithout
  <2> QED
    BY <1>1, <1>3, <1>4, <1>5, <2>1 DEF Share
<1>6. CASE k \notin C
  <2>1. C \ {k} = C
    BY <1>6
  <2> QED
    BY <1>1, <1>3, <1>6, <2>1 DEF Share
<1> QED
  BY <1>5, <1>6

\* A write of one document moves a session's total by that document's share.
LEMMA OneDocument ==
  ASSUME NEW led \in [Keys -> Entry], NEW new \in [Keys -> Entry], NEW s, NEW k \in Keys,
         \A j \in Keys \ {k} : new[j] = led[j]
  PROVE  SessionTotal(new, s) = SessionTotal(led, s) - Share(led, s, k) + Share(new, s, k)
<1> DEFINE R == CountedKeys(led, s) \ {k}
<1>1. CountedKeys(new, s) \ {k} = R
  BY DEF CountedKeys
<1>2. IsFiniteSet(R) /\ NatValued(AmountsOf(led), R)
  <2>1. IsFiniteSet(CountedKeys(led, s)) /\ NatValued(AmountsOf(led), CountedKeys(led, s))
    BY SessionSum
  <2> QED
    BY <2>1, FS_Subset DEF NatValued
<1>3. \A j \in R : AmountsOf(new)[j] = AmountsOf(led)[j]
  BY DEF AmountsOf, CountedKeys
<1>4. Total(AmountsOf(new), R) = Total(AmountsOf(led), R)
  BY <1>2, <1>3, TotalEqual
<1> QED
  BY <1>1, <1>4, WithoutDocument

-----------------------------------------------------------------------------
(* What the gap between the check and the reservation can cost             *)

SnapIsCurrent == \A c \in Cycles : pc[c] = "write" => snap[c] = ledger[prop[c].key]

\* The cycles that have passed the cap check and have not reserved yet.
Entering(s) == {c \in Cycles : pc[c] = "reserve" /\ prop[c].session = s}

Limit == SpendCap + (MaxActive - 1) * PerTxCap

\* Each cycle in the gap may still add PerTxCap; but the last one to pass the
\* check, as long as it has not reserved, adds no more than its own amount.
WithinLimit(s) ==
    \/ SessionTotal(ledger, s) + Cardinality(Entering(s)) * PerTxCap <= Limit
    \/ \E c \in Entering(s) :
          SessionTotal(ledger, s) + prop[c].amount
              + (Cardinality(Entering(s)) - 1) * PerTxCap <= Limit

FewActive == Cardinality(Active) <= MaxActive

UnderTxCap == \A c \in Cycles : pc[c] \in {"policyTotal", "reserve"} =>
                  prop[c].amount <= PerTxCap

OvershootInv == /\ TypeOK
                /\ Unsent
                /\ ReceiptIsTrue
                /\ ReadReserved
                /\ OwnKey
                /\ SnapIsCurrent
                /\ FewActive
                /\ UnderTxCap
                /\ \A s \in Sessions : WithinLimit(s)

LEMMA SnapStep ==
  ASSUME FreshKeys, TypeOK, OwnKey, SnapIsCurrent, [Next]_vars
  PROVE  SnapIsCurrent'
<1> SUFFICES ASSUME NEW d \in Cycles, pc'[d] = "write"
             PROVE  snap'[d] = ledger'[prop'[d].key]
  BY DEF SnapIsCurrent
<1>1. ASSUME NEW c \in Cycles, CycleStep(c) \/ Abort(c)
      PROVE  snap'[d] = ledger'[prop'[d].key]
  <2>1. CASE c # d
    <3>1. /\ pc'[d] = pc[d] /\ prop'[d] = prop[d] /\ snap'[d] = snap[d]
          /\ \A k \in KeysOf[d] : ledger'[k] = ledger[k]
      BY <1>1, <2>1, OthersFrame
    <3>2. prop[d].key \in KeysOf[d] /\ snap[d] = ledger[prop[d].key]
      BY <3>1 DEF OwnKey, SnapIsCurrent, Phase
    <3> QED
      BY <3>1, <3>2
  <2>2. CASE c = d
    <3>1. FinalizeRead(d)
      BY <1>1, <2>2, AfterFinalizePhase
         DEF CycleStep, LoadAgent, Decide, Pass, PolicyAgent, PolicySession,
             PolicyTotal, Reserve, UserFundsDeny, Gate, Send, SendThrows,
             VerifyReceipt, FinalizeWrite, PersistExecution, UpsertPosition,
             Abort, Goto, TypeOK
    <3>2. snap' = [snap EXCEPT ![d] = ledger[prop[d].key]]
      BY <3>1, AfterFinalizePhase DEF FinalizeRead, Goto, TypeOK
    <3> QED
      BY <3>1, <3>2 DEF FinalizeRead, store, TypeOK
  <2> QED
    BY <2>1, <2>2
<1>2. CASE UNCHANGED <<ledger, cycleVars>>
  BY <1>2 DEF SnapIsCurrent, cycleVars
<1> QED
  BY <1>1, <1>2, WatcherFrame, EnvironmentFrame DEF Next, vars, store

LEMMA ActiveStep == TypeOK /\ FewActive /\ [Next]_vars => FewActive'
<1> SUFFICES ASSUME TypeOK, FewActive, [Next]_vars PROVE FewActive'
  OBVIOUS
<1>1. /\ IsFiniteSet(Active) /\ IsFiniteSet(Active') /\ Cardinality(Active) \in Nat
      /\ Cardinality(Active') \in Nat /\ MaxActive \in Nat
  <2>1. Active \subseteq Cycles /\ Active' \subseteq Cycles
    BY DEF Active
  <2> QED
    BY <2>1, CycleAssumption, FS_Subset, FS_CardinalityType
<1>2. ASSUME Active' \subseteq Active PROVE FewActive'
  BY <1>1, <1>2, FS_Subset DEF FewActive
<1> USE DEF envVars, store, cycleVars, Goto
<1>3. ASSUME NEW c \in Cycles, LoadAgent(c) PROVE FewActive'
  <2>1. Active' \subseteq Active \cup {c} /\ Cardinality(Active) < MaxActive
    BY <1>3 DEF LoadAgent, Active, TypeOK
  <2>2. /\ IsFiniteSet(Active \cup {c})
        /\ Cardinality(Active \cup {c}) <= Cardinality(Active) + 1
    <3>1. /\ IsFiniteSet(Active \cup {c})
          /\ Cardinality(Active \cup {c}) =
                 IF c \in Active THEN Cardinality(Active) ELSE Cardinality(Active) + 1
      BY <1>1, FS_AddElement
    <3> QED
      BY <1>1, <3>1
  <2>3. /\ Cardinality(Active \cup {c}) \in Nat
        /\ Cardinality(Active') <= Cardinality(Active \cup {c})
    BY <2>1, <2>2, FS_Subset, FS_CardinalityType
  <2> QED
    BY <1>1, <2>1, <2>2, <2>3 DEF FewActive
<1>4. ASSUME NEW c \in Cycles, CycleStep(c) \/ Abort(c), ~LoadAgent(c)
      PROVE  Active' \subseteq Active
  BY <1>4
     DEF CycleStep, Decide, Pass, PolicyAgent, PolicySession, PolicyTotal,
         Reserve, UserFundsDeny, Gate, Send, SendThrows, VerifyReceipt,
         FinalizeRead, FinalizeWrite, PersistExecution, UpsertPosition,
         Abort, Active, TypeOK
<1>5. CASE UNCHANGED pc
  BY <1>2, <1>5 DEF Active
<1> QED
  BY <1>2, <1>3, <1>4, <1>5, WatcherFrame, EnvironmentFrame DEF Next, vars

LEMMA TxCapStep == TypeOK /\ UnderTxCap /\ [Next]_vars => UnderTxCap'
<1> SUFFICES ASSUME TypeOK, UnderTxCap, [Next]_vars,
                    NEW d \in Cycles, pc'[d] \in {"policyTotal", "reserve"}
             PROVE  prop'[d].amount <= PerTxCap
  BY DEF UnderTxCap
<1> USE DEF envVars, store, cycleVars, Goto, TypeOK
<1>1. ASSUME NEW c \in Cycles, CycleStep(c) \/ Abort(c)
      PROVE  prop'[d].amount <= PerTxCap
  <2>1. CASE Decide(c)
    BY <2>1 DEF Decide, UnderTxCap
  <2>2. CASE PolicySession(c)
    BY <2>2 DEF PolicySession, SessionChecks, UnderTxCap
  <2>3. CASE PolicyTotal(c)
    BY <2>3 DEF PolicyTotal, UnderTxCap
  <2>4. CASE LoadAgent(c) \/ Pass(c) \/ PolicyAgent(c) \/ Reserve(c)
             \/ UserFundsDeny(c) \/ Gate(c) \/ Send(c) \/ SendThrows(c) \/ VerifyReceipt(c)
    BY <2>4 DEF LoadAgent, Pass, PolicyAgent, Reserve, UserFundsDeny, Gate, Send,
                SendThrows, VerifyReceipt, UnderTxCap
  <2>5. CASE FinalizeRead(c) \/ FinalizeWrite(c) \/ PersistExecution(c)
             \/ UpsertPosition(c) \/ Abort(c)
    BY <2>5, AfterFinalizePhase
       DEF FinalizeRead, FinalizeWrite, PersistExecution, UpsertPosition, Abort, UnderTxCap
  <2> QED
    BY <1>1, <2>1, <2>2, <2>3, <2>4, <2>5 DEF CycleStep
<1>2. CASE UNCHANGED <<pc, prop>>
  BY <1>2 DEF UnderTxCap
<1> QED
  BY <1>1, <1>2, WatcherFrame, EnvironmentFrame DEF Next, vars

LEMMA GapTypes ==
  ASSUME TypeOK, NEW s \in Sessions
  PROVE  /\ SessionTotal(ledger, s) \in Nat
         /\ IsFiniteSet(Entering(s)) /\ Cardinality(Entering(s)) \in Nat
         /\ \A c \in Entering(s) : c \in Cycles /\ prop[c].amount \in Nat
         /\ {PerTxCap, SpendCap, MaxActive} \subseteq Nat /\ Limit \in Int
<1>1. Entering(s) \subseteq Cycles
  BY DEF Entering
<1>2. IsFiniteSet(Entering(s)) /\ Cardinality(Entering(s)) \in Nat
  BY <1>1, CycleAssumption, FS_Subset, FS_CardinalityType
<1>3. SessionTotal(ledger, s) \in Nat
  BY SessionTotalType DEF TypeOK
<1>4. {PerTxCap, SpendCap, MaxActive} \subseteq Nat /\ Limit \in Int
  BY CycleAssumption DEF Limit
<1> QED
  BY <1>1, <1>2, <1>3, <1>4 DEF TypeOK, Proposal

\* Nobody enters or leaves the gap, and the total does not grow.
LEMMA SameGap ==
  ASSUME TypeOK, TypeOK', NEW s \in Sessions, WithinLimit(s),
         Entering(s)' = Entering(s),
         \A c \in Entering(s) : prop'[c].amount = prop[c].amount,
         SessionTotal(ledger', s) <= SessionTotal(ledger, s)
  PROVE  WithinLimit(s)'
<1> DEFINE n == Cardinality(Entering(s))
<1>1. /\ SessionTotal(ledger, s) \in Nat /\ n * PerTxCap \in Nat
      /\ (n - 1) * PerTxCap \in Int
      /\ \A c \in Entering(s) : prop[c].amount \in Nat
      /\ Limit \in Int
  BY GapTypes
<1>2. SessionTotal(ledger', s) \in Nat
  BY SessionTotalType DEF TypeOK
<1>3. /\ Cardinality(Entering(s)') = n
  OBVIOUS
<1>4. CASE SessionTotal(ledger, s) + n * PerTxCap <= Limit
  <2>1. SessionTotal(ledger', s) + n * PerTxCap <= Limit
    BY <1>1, <1>2, <1>4
  <2> QED
    BY <1>3, <2>1 DEF WithinLimit, Limit
<1>5. ASSUME NEW c \in Entering(s),
             SessionTotal(ledger, s) + prop[c].amount + (n - 1) * PerTxCap <= Limit
      PROVE  WithinLimit(s)'
  <2>1. SessionTotal(ledger', s) + prop[c].amount + (n - 1) * PerTxCap <= Limit
    BY <1>1, <1>2, <1>5
  <2>2. SessionTotal(ledger', s) + prop'[c].amount + (n - 1) * PerTxCap <= Limit
    BY <2>1
  <2> QED
    BY <1>3, <2>2 DEF WithinLimit, Limit
<1> QED
  BY <1>4, <1>5 DEF WithinLimit

\* A cycle leaves the gap, and the total grows by its amount at most.
LEMMA LeavesGap ==
  ASSUME TypeOK, TypeOK', UnderTxCap, NEW s \in Sessions, WithinLimit(s),
         NEW c \in Entering(s), Entering(s)' = Entering(s) \ {c},
         \A d \in Entering(s) : prop'[d].amount = prop[d].amount,
         SessionTotal(ledger', s) <= SessionTotal(ledger, s) + prop[c].amount
  PROVE  WithinLimit(s)'
<1> DEFINE n == Cardinality(Entering(s))
           t == SessionTotal(ledger, s)
           u == SessionTotal(ledger', s)
           k == PerTxCap
<1>1. /\ t \in Nat /\ n \in Nat /\ k \in Nat /\ Limit \in Int
      /\ IsFiniteSet(Entering(s))
      /\ \A d \in Entering(s) : d \in Cycles /\ prop[d].amount \in Nat
  BY GapTypes
<1>2. u \in Nat
  BY SessionTotalType DEF TypeOK
<1>3. Cardinality(Entering(s)') = n - 1
  BY <1>1, FS_RemoveElement
<1>4. prop[c].amount <= k
  BY <1>1 DEF UnderTxCap, Entering
<1> HIDE DEF n, t, u, k
<1>5. n * k = (n - 1) * k + k /\ (n - 1) * k = (n - 2) * k + k
      /\ (n - 1) * k \in Int /\ (n - 2) * k \in Int /\ n * k \in Int /\ n - 1 - 1 = n - 2
  <2>1. \A a, b \in Int : a * b = (a - 1) * b + b /\ a * b \in Int
    OBVIOUS
  <2>2. n \in Int /\ n - 1 \in Int /\ n - 2 \in Int /\ k \in Int /\ n - 1 - 1 = n - 2
    BY <1>1 DEF n, k
  <2> QED
    BY <2>1, <2>2
<1>6. ASSUME u + (n - 1) * k <= Limit PROVE WithinLimit(s)'
  BY <1>3, <1>6 DEF WithinLimit, Limit, u, k
<1>7. CASE t + n * k <= Limit
  BY <1>1, <1>2, <1>4, <1>5, <1>6, <1>7 DEF t, u
<1>8. ASSUME NEW d \in Entering(s), t + prop[d].amount + (n - 1) * k <= Limit
      PROVE  WithinLimit(s)'
  <2>1. CASE d = c
    BY <1>1, <1>2, <1>5, <1>6, <1>8, <2>1 DEF t, u
  <2>2. CASE d # c
    <3>1. u + prop[d].amount + (n - 2) * k <= Limit
      <4>1. u <= t + prop[c].amount
        BY DEF t, u
      <4> QED
        BY <1>1, <1>2, <1>4, <1>5, <1>8, <4>1
    <3>2. d \in Entering(s)' /\ prop'[d].amount = prop[d].amount
      BY <2>2
    <3>3. u + prop'[d].amount + (Cardinality(Entering(s)') - 1) * k <= Limit
      BY <1>3, <1>5, <3>1, <3>2
    <3> QED
      BY <3>2, <3>3 DEF WithinLimit, Limit, u, k
  <2> QED
    BY <2>1, <2>2
<1> QED
  BY <1>7, <1>8 DEF WithinLimit, n, t, k

\* A cycle enters the gap: it has found room for its amount, and no more than
\* MaxActive - 1 others are in the gap with it.
LEMMA EntersGap ==
  ASSUME TypeOK, TypeOK', FewActive', NEW s \in Sessions,
         NEW c \in Cycles, c \in Entering(s)',
         SessionTotal(ledger', s) + prop'[c].amount <= SpendCap
  PROVE  WithinLimit(s)'
<1> DEFINE n == Cardinality(Entering(s)')
           t == SessionTotal(ledger', s)
<1>1. /\ IsFiniteSet(Active') /\ Entering(s)' \subseteq Active'
  <2>1. Active' \subseteq Cycles /\ Entering(s)' \subseteq Active'
    BY DEF Active, Entering
  <2> QED
    BY <2>1, CycleAssumption, FS_Subset
<1>2. n \in Nat /\ n <= Cardinality(Active') /\ Cardinality(Active') \in Nat
  BY <1>1, FS_Subset, FS_CardinalityType
<1>3. n <= MaxActive /\ MaxActive \in Nat /\ PerTxCap \in Nat /\ SpendCap \in Nat
  BY <1>2, CycleAssumption DEF FewActive
<1>4. t \in Nat /\ prop'[c].amount \in Nat
  BY SessionTotalType DEF TypeOK, Proposal
<1>5. (n - 1) * PerTxCap <= (MaxActive - 1) * PerTxCap
      /\ (n - 1) * PerTxCap \in Int /\ (MaxActive - 1) * PerTxCap \in Int
  <2>1. \A a, b, k \in Int : a <= b /\ k >= 0 => a * k <= b * k
    OBVIOUS
  <2>2. n - 1 <= MaxActive - 1 /\ n - 1 \in Int /\ MaxActive - 1 \in Int
    BY <1>2, <1>3
  <2> QED
    BY <1>3, <2>1, <2>2
<1> HIDE DEF n, t
<1>6. t + prop'[c].amount + (n - 1) * PerTxCap <= Limit
  BY <1>3, <1>4, <1>5 DEF t, Limit
<1> QED
  BY <1>6 DEF WithinLimit, Limit, n, t

\* The ledger's three writes, as they move a session's total: a reservation
\* adds its amount to its own session, finalizing adds nothing.
LEMMA ReserveTotal ==
  ASSUME TypeOK, TypeOK', NEW s \in Sessions, NEW c \in Cycles, Reserve(c)
  PROVE  SessionTotal(ledger', s) <=
             SessionTotal(ledger, s) + (IF prop[c].session = s THEN prop[c].amount ELSE 0)
<1> DEFINE k == prop[c].key
           a == IF prop[c].session = s THEN prop[c].amount ELSE 0
<1>1. ledger \in [Keys -> Entry] /\ ledger' \in [Keys -> Entry] /\ k \in Keys
      /\ prop[c].amount \in Nat
  BY DEF TypeOK, Proposal
<1>2. SessionTotal(ledger, s) \in Nat
  BY <1>1, SessionTotalType
<1>3. CASE ledger' = ledger
  BY <1>1, <1>2, <1>3
<1>4. CASE ledger' = [ledger EXCEPT ![k] = Reserved(@, prop[c].amount, prop[c].session)]
  <2>1. SessionTotal(ledger', s) =
            SessionTotal(ledger, s) - Share(ledger, s, k) + Share(ledger', s, k)
    <3>1. \A j \in Keys \ {k} : ledger'[j] = ledger[j]
      BY <1>1, <1>4
    <3> HIDE DEF k
    <3> QED
      BY <1>1, <3>1, OneDocument
  <2>2. Share(ledger, s, k) \in Nat /\ Share(ledger', s, k) \in Nat
    BY <1>1, WithoutDocument
  <2>3. Share(ledger', s, k) <= Share(ledger, s, k) + a
    <3>1. ledger'[k] = Reserved(ledger[k], prop[c].amount, prop[c].session)
      BY <1>1, <1>4
    <3>2. CASE ledger'[k] = ledger[k]
      <4>1. Share(ledger', s, k) = Share(ledger, s, k)
        BY <1>1, <3>2 DEF Share, CountedKeys
      <4> QED
        BY <1>1, <2>2, <4>1
    <3>3. CASE ledger'[k] = [status |-> "RESERVED", amount |-> prop[c].amount,
                             session |-> prop[c].session]
      <4>1. Share(ledger', s, k) = a
        BY <1>1, <3>3 DEF Share, CountedKeys, Counted
      <4> QED
        BY <1>1, <2>2, <4>1
    <3> QED
      BY <3>1, <3>2, <3>3 DEF Reserved
  <2>4. a \in Nat
    BY <1>1
  <2> HIDE DEF a
  <2>5. SessionTotal(ledger', s) <= SessionTotal(ledger, s) + a
    BY <1>2, <2>1, <2>2, <2>3, <2>4
  <2> QED
    BY <2>5 DEF a
<1> QED
  BY <1>3, <1>4 DEF Reserve

LEMMA FinalizeTotal ==
  ASSUME TypeOK, TypeOK', ReadReserved, SnapIsCurrent,
         NEW s \in Sessions, NEW c \in Cycles, FinalizeWrite(c)
  PROVE  SessionTotal(ledger', s) <= SessionTotal(ledger, s)
<1> DEFINE k == prop[c].key
           e == ledger[k]
<1>1. ledger \in [Keys -> Entry] /\ ledger' \in [Keys -> Entry] /\ k \in Keys
  BY DEF TypeOK, Proposal
<1>2. SessionTotal(ledger, s) \in Nat
  BY <1>1, SessionTotalType
<1>3. CASE ledger' = ledger
  BY <1>2, <1>3
<1>4. CASE ledger' = [ledger EXCEPT ![k] = Finalized(snap[c], FinalizeWith(c))]
  <2>1. SessionTotal(ledger', s) =
            SessionTotal(ledger, s) - Share(ledger, s, k) + Share(ledger', s, k)
    <3>1. \A j \in Keys \ {k} : ledger'[j] = ledger[j]
      BY <1>1, <1>4
    <3> HIDE DEF k
    <3> QED
      BY <1>1, <3>1, OneDocument
  <2>2. Share(ledger, s, k) \in Nat /\ Share(ledger', s, k) \in Nat
    BY <1>1, WithoutDocument
  <2>3. e.status = "RESERVED" /\ e \in Entry
    BY <1>1 DEF FinalizeWrite, ReadReserved, SnapIsCurrent
  <2>4. \/ ledger'[k] = [e EXCEPT !.status = "COMMITTED"]
        \/ ledger'[k] = [e EXCEPT !.status = "RELEASED"]
        \/ ledger'[k] = e
    <3>1. snap[c] = e
      BY DEF FinalizeWrite, SnapIsCurrent
    <3>2. ledger'[k] = Finalized(e, FinalizeWith(c))
      BY <1>1, <1>4, <3>1
    <3> QED
      BY <3>2 DEF Finalized, FinalizeWith
  <2>5. Share(ledger', s, k) <= Share(ledger, s, k)
    <3>1. /\ ledger'[k].session = e.session /\ ledger'[k].amount = e.amount
      BY <2>3, <2>4 DEF Entry
    <3>2. Share(ledger', s, k) \in {Share(ledger, s, k), 0}
      BY <1>1, <2>3, <3>1 DEF Share, CountedKeys, Counted
    <3> QED
      BY <2>2, <3>2
  <2> QED
    BY <1>2, <2>1, <2>2, <2>5
<1> QED
  BY <1>3, <1>4 DEF FinalizeWrite

\* A cycle's step that neither lets it into the gap nor out of it.
LEMMA OutsideGap ==
  ASSUME TypeOK, TypeOK', ReadReserved, SnapIsCurrent,
         NEW s \in Sessions, WithinLimit(s),
         NEW c \in Cycles, CycleStep(c) \/ Abort(c),
         c \notin Entering(s), c \notin Entering(s)'
  PROVE  WithinLimit(s)'
<1>1. /\ Entering(s)' = Entering(s)
      /\ \A d \in Entering(s) : prop'[d].amount = prop[d].amount
  <2>1. \A d \in Cycles \ {c} : pc'[d] = pc[d] /\ prop'[d] = prop[d]
    BY DEF CycleStep, LoadAgent, Decide, Pass, PolicyAgent, PolicySession, PolicyTotal,
           Reserve, UserFundsDeny, Gate, Send, SendThrows, VerifyReceipt, FinalizeRead,
           FinalizeWrite, PersistExecution, UpsertPosition, Abort, Goto, cycleVars, TypeOK
  <2> QED
    BY <2>1 DEF Entering
<1>2. SessionTotal(ledger', s) <= SessionTotal(ledger, s)
  <2>1. CASE Reserve(c)
    <3>1. prop[c].session # s /\ prop[c].amount \in Nat
      BY <2>1 DEF Reserve, Entering, TypeOK, Proposal
    <3>2. SessionTotal(ledger', s) <= SessionTotal(ledger, s) + 0
      BY <2>1, <3>1, ReserveTotal
    <3> QED
      BY <3>2, GapTypes
  <2>2. CASE FinalizeWrite(c)
    BY <2>2, FinalizeTotal
  <2>3. CASE UNCHANGED ledger
    BY <2>3, GapTypes
  <2> QED
    BY <2>1, <2>2, <2>3
       DEF CycleStep, LoadAgent, Decide, Pass, PolicyAgent, PolicySession, PolicyTotal,
           UserFundsDeny, Gate, Send, SendThrows, VerifyReceipt, FinalizeRead,
           PersistExecution, UpsertPosition, Abort, store
<1> QED
  BY <1>1, <1>2, SameGap

\* A cycle in the gap reserves or dies there.
LEMMA OutOfGap ==
  ASSUME TypeOK, TypeOK', UnderTxCap, NEW s \in Sessions, WithinLimit(s),
         NEW c \in Entering(s), CycleStep(c) \/ Abort(c)
  PROVE  WithinLimit(s)'
<1>1. c \in Cycles /\ pc[c] = "reserve" /\ prop[c].session = s /\ prop[c].amount \in Nat
  BY DEF Entering, TypeOK, Proposal
<1>2. Reserve(c) \/ Abort(c)
  BY <1>1
     DEF CycleStep, LoadAgent, Decide, Pass, PolicyAgent, PolicySession, PolicyTotal,
         UserFundsDeny, Gate, Send, SendThrows, VerifyReceipt, FinalizeRead,
         FinalizeWrite, PersistExecution, UpsertPosition
<1>3. Entering(s)' = Entering(s) \ {c} /\ prop' = prop
  BY <1>1, <1>2 DEF Reserve, Abort, Goto, Entering, cycleVars, TypeOK
<1>4. SessionTotal(ledger', s) <= SessionTotal(ledger, s) + prop[c].amount
  <2>1. CASE Reserve(c)
    BY <1>1, <2>1, ReserveTotal
  <2>2. CASE Abort(c)
    BY <1>1, <2>2, GapTypes DEF Abort, store
  <2> QED
    BY <1>2, <2>1, <2>2
<1> QED
  BY <1>3, <1>4, LeavesGap

\* A cycle gets into the gap by the cap check only.
LEMMA IntoGap ==
  ASSUME TypeOK, TypeOK', FewActive', NEW s \in Sessions,
         NEW c \in Cycles, CycleStep(c) \/ Abort(c),
         c \notin Entering(s), c \in Entering(s)'
  PROVE  WithinLimit(s)'
<1>1. PolicyTotal(c) /\ UnderCap(c) /\ prop[c].session = s
  BY AfterFinalizePhase
     DEF CycleStep, LoadAgent, Decide, Pass, PolicyAgent, PolicySession, PolicyTotal,
         Reserve, UserFundsDeny, Gate, Send, SendThrows, VerifyReceipt, FinalizeRead,
         FinalizeWrite, PersistExecution, UpsertPosition, Abort, Goto, Entering,
         cycleVars, TypeOK
<1>2. ledger' = ledger /\ prop' = prop
  BY <1>1 DEF PolicyTotal, store
<1>3. SessionTotal(ledger', s) + prop'[c].amount <= SpendCap
  BY <1>1, <1>2 DEF UnderCap
<1> QED
  BY <1>3, EntersGap

LEMMA GapStep ==
  ASSUME TypeOK, TypeOK', ReadReserved, SnapIsCurrent, UnderTxCap, FewActive',
         NEW s \in Sessions, WithinLimit(s), [Next]_vars
  PROVE  WithinLimit(s)'
<1>1. ASSUME NEW c \in Cycles, CycleStep(c) \/ Abort(c) PROVE WithinLimit(s)'
  BY <1>1, OutsideGap, OutOfGap, IntoGap
<1>2. CASE UNCHANGED <<ledger, cycleVars>>
  <2>1. ledger' = ledger /\ prop' = prop /\ Entering(s)' = Entering(s)
    BY <1>2 DEF cycleVars, Entering
  <2>2. SessionTotal(ledger', s) <= SessionTotal(ledger, s)
    BY <2>1, GapTypes
  <2> QED
    BY <2>1, <2>2, SameGap
<1> QED
  BY <1>1, <1>2, WatcherFrame, EnvironmentFrame DEF Next, vars, store

LEMMA OvershootInit ==
  ASSUME MaxActive > 0, Init
  PROVE  OvershootInv
<1>1. TypeOK /\ Unsent /\ ReceiptIsTrue /\ ReadReserved
  BY MinedInit DEF MinedInv
<1>2. OwnKey /\ SnapIsCurrent /\ UnderTxCap
  BY DEF Init, OwnKey, SnapIsCurrent, UnderTxCap
<1>3. FewActive
  <2>1. Active = {}
    BY DEF Init, Active
  <2> QED
    BY <2>1, FS_EmptySet, CycleAssumption DEF FewActive
<1>4. ASSUME NEW s \in Sessions PROVE WithinLimit(s)
  <2>1. CountedKeys(ledger, s) = {}
    BY DEF Init, CountedKeys, Counted, AbsentEntry
  <2>2. SessionTotal(ledger, s) = 0
    <3>1. SessionTotal(ledger, s) = Total(AmountsOf(ledger), {})
      BY <1>1, <2>1, SessionSum DEF TypeOK
    <3> QED
      BY <3>1, TotalEmpty
  <2>3. Cardinality(Entering(s)) = 0
    <3>1. Entering(s) = {}
      BY DEF Init, Entering
    <3> QED
      BY <3>1, FS_EmptySet
  <2>4. 0 <= Limit
    <3>1. \A a, b \in Nat : a > 0 => 0 <= (a - 1) * b /\ (a - 1) * b \in Int
      OBVIOUS
    <3>2. 0 <= (MaxActive - 1) * PerTxCap /\ (MaxActive - 1) * PerTxCap \in Int
      BY <3>1, CycleAssumption
    <3> QED
      BY <3>2, CycleAssumption DEF Limit
  <2>5. 0 * PerTxCap = 0
    BY CycleAssumption
  <2> QED
    BY <2>2, <2>3, <2>4, <2>5 DEF WithinLimit
<1> QED
  BY <1>1, <1>2, <1>3, <1>4 DEF OvershootInv

\* The gap itself never takes a session past the limit.
LEMMA OvershootFollows == OvershootInv => OvershootBounded
<1> SUFFICES ASSUME OvershootInv, NEW s \in Sessions
             PROVE  SessionTotal(ledger, s) <= Limit
  BY DEF OvershootBounded, Limit
<1> DEFINE n == Cardinality(Entering(s))
           t == SessionTotal(ledger, s)
           k == PerTxCap
<1>1. /\ t \in Nat /\ n \in Nat /\ k \in Nat /\ Limit \in Int
      /\ IsFiniteSet(Entering(s))
      /\ \A c \in Entering(s) : prop[c].amount \in Nat
  BY GapTypes DEF OvershootInv
<1>2. \A a, b \in Nat : 0 <= a * b /\ a * b \in Nat
  OBVIOUS
<1>3. CASE t + n * k <= Limit
  <2> HIDE DEF n, t, k
  <2>1. 0 <= n * k /\ n * k \in Nat
    BY <1>1, <1>2
  <2>2. t <= Limit
    BY <1>1, <1>3, <2>1
  <2> QED
    BY <2>2 DEF t
<1>4. ASSUME NEW c \in Entering(s), t + prop[c].amount + (n - 1) * k <= Limit
      PROVE  t <= Limit
  <2>1. n # 0
    BY <1>1, FS_EmptySet
  <2> HIDE DEF n, t, k
  <2>2. n - 1 \in Nat
    BY <1>1, <2>1
  <2>3. 0 <= (n - 1) * k /\ (n - 1) * k \in Nat
    BY <1>1, <1>2, <2>2
  <2> QED
    BY <1>1, <1>4, <2>3
<1> QED
  BY <1>3, <1>4 DEF OvershootInv, WithinLimit

\* With fresh keys and at least one cycle allowed in flight, what the ledger
\* counts against a session exceeds its cap by one transaction for each other
\* cycle in flight at most, however the checks and the reservations interleave,
\* with or without crashes and lost answers.
THEOREM OvershootHolds ==
  ASSUME FreshKeys, MaxActive > 0
  PROVE  Spec => []OvershootBounded
<1>1. Init => OvershootInv
  BY OvershootInit
<1>2. OvershootInv /\ [Next]_vars => OvershootInv'
  <2> SUFFICES ASSUME OvershootInv, [Next]_vars PROVE OvershootInv'
    OBVIOUS
  <2>1. /\ TypeOK' /\ Unsent' /\ ReceiptIsTrue' /\ ReadReserved' /\ OwnKey'
        /\ SnapIsCurrent' /\ FewActive' /\ UnderTxCap'
    BY TypeStep, UnsentStep, ReceiptStep, OwnKeyStep, SnapStep, ActiveStep, TxCapStep
       DEF OvershootInv
  <2>2. \A s \in Sessions : WithinLimit(s)'
    BY <2>1, GapStep DEF OvershootInv
  <2> QED
    BY <2>1, <2>2 DEF OvershootInv
<1> QED
  BY <1>1, <1>2, OvershootFollows, PTL DEF Spec
=============================================================================
