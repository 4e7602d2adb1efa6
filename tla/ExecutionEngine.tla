-------------------------- MODULE ExecutionEngine ---------------------------
(***************************************************************************)
(* GenericExecutionEngine of packages/execution-engine/src/index.ts: the   *)
(* calls of execute and reconcile, over the execution records and the      *)
(* chain.  A call is a process and an action what it does between two      *)
(* awaits.  A call may throw at any await, and its process may die there;  *)
(* whoever made it may then call again with the same proposal.             *)
(***************************************************************************)
EXTENDS Naturals, FiniteSets

CONSTANTS
    Executes,   \* calls of execute; a call's id also names its transaction
    Reconciles, \* calls of reconcile
    Ids,        \* execution ids, derived from the proposal's
    IdOf,       \* the execution a call is about
    Overlap,    \* may two calls of execute for one id be under way at once
    NoTx        \* no transaction hash

Calls == Executes \cup Reconciles

ASSUME EngineAssumption ==
    /\ IdOf \in [Calls -> Ids]
    /\ Executes \cap Reconciles = {}
    /\ NoTx \notin Executes
    /\ Overlap \in BOOLEAN

VARIABLES
    docs,       \* executions/{id}
    chain,      \* the transaction of each call
    pc, copy,   \* where a call is, and the Execution object it holds
    threw       \* history: calls that saw an error after they broadcast

vars == <<docs, chain, pc, copy, threw>>

-----------------------------------------------------------------------------
Status == {"ABSENT", "PROPOSED", "EXECUTING", "CONFIRMING", "CONFIRMED", "FAILED"}
Doc    == [status : Status, tx : Executes \cup {NoTx}]
Fresh(status) == [status |-> status, tx |-> NoTx]
NoDoc  == Fresh("ABSENT")

Phase == {"start", "propose", "gate", "refuse", "executing", "submit",
          "confirming", "query", "final", "catch", "load", "done"}

Sent(c) == chain[c] # "none"

Init ==
    /\ docs = [i \in Ids |-> NoDoc]
    /\ chain = [c \in Executes |-> "none"]
    /\ pc = [c \in Calls |-> IF c \in Executes THEN "start" ELSE "load"]
    /\ copy = [c \in Calls |-> NoDoc]
    /\ threw = {}

Record(c) == docs[IdOf[c]]

\* One step of call c: it was at one phase and goes to another.
Move(c, from, to) == pc[c] = from /\ pc' = [pc EXCEPT ![c] = to]
Hold(c, doc) == copy' = [copy EXCEPT ![c] = doc]
Persist(c, doc) == docs' = [docs EXCEPT ![IdOf[c]] = doc]

-----------------------------------------------------------------------------
(* execute: the idempotency gate                                           *)

\* Another call of execute for the same id is under way.
Overlapped(c) == \E d \in Executes \ {c} : /\ IdOf[d] = IdOf[c]
                                           /\ pc[d] \notin {"start", "done"}

\* *Mutant*: a record that is EXECUTING and has no hash is taken for unsent.
RetryWithoutHash(doc) ==
    IF doc.status \in {"ABSENT", "PROPOSED", "EXECUTING"} THEN "propose"
    ELSE IF doc.status = "CONFIRMING" THEN "load" ELSE "done"

\* Where handleExisting sends the call: on to the pipeline, to reconcile, or
\* out (it returns a CONFIRMED record and refuses every other one).
HandleExisting(doc) ==
    IF doc.status \in {"ABSENT", "PROPOSED"} THEN "propose"
    ELSE IF doc.status \in {"EXECUTING", "CONFIRMING"} /\ doc.tx # NoTx THEN "load"
    ELSE "done"

Begin(c) ==
    /\ c \in Executes
    /\ Overlap \/ ~Overlapped(c)
    /\ Move(c, "start", HandleExisting(Record(c)))
    /\ Hold(c, Fresh("PROPOSED"))
    /\ UNCHANGED <<docs, chain, threw>>

-----------------------------------------------------------------------------
(* execute: the pipeline                                                   *)

Propose(c) ==
    /\ Move(c, "propose", "gate")
    /\ Persist(c, copy[c])
    /\ UNCHANGED <<chain, copy, threw>>

\* The session of the context, the EIP-7702 provider and the preflight, all of
\* them outside the engine.
Gate(c) ==
    /\ \/ Move(c, "gate", "executing")
       \/ Move(c, "gate", "refuse")
    /\ UNCHANGED <<docs, chain, copy, threw>>

Refuse(c) ==
    /\ Move(c, "refuse", "done")
    /\ Persist(c, Fresh("FAILED"))
    /\ UNCHANGED <<chain, copy, threw>>

MarkExecuting(c) ==
    /\ Move(c, "executing", "submit")
    /\ Persist(c, Fresh("EXECUTING"))
    /\ UNCHANGED <<chain, copy, threw>>

\* The only broadcast point.
Submit(c) ==
    /\ Move(c, "submit", "confirming")
    /\ chain' = [chain EXCEPT ![c] = "pending"]
    /\ Hold(c, [status |-> "CONFIRMING", tx |-> c])
    /\ UNCHANGED <<docs, threw>>

PersistHash(c) ==
    /\ Move(c, "confirming", "query")
    /\ Persist(c, copy[c])
    /\ UNCHANGED <<chain, copy, threw>>

-----------------------------------------------------------------------------
(* The answer, in execute and in reconcile                                 *)

\* *Mutant*: a transaction that is not mined yet counts as failed.
PendingIsFailed(tx) == IF chain[tx] = "success" THEN "CONFIRMED" ELSE "FAILED"

\* *Mutant*: the chain's word for it is stored as the record's status.
AnswerIsRaw(tx) == chain[tx]

\* deps.reconcileExecution: what the chain says of the recorded hash.
Answer(tx) ==
    CASE chain[tx] = "success" -> "CONFIRMED"
      [] chain[tx] = "reverted" -> "FAILED"
      [] OTHER -> "CONFIRMING"

Query(c) ==
    /\ Move(c, "query", "final")
    /\ Hold(c, [copy[c] EXCEPT !.status = Answer(copy[c].tx)])
    /\ UNCHANGED <<docs, chain, threw>>

\* *Mutant*: the final record leaves the hash out.
FinalForgetsHash(c) ==
    /\ Move(c, "final", "done")
    /\ Persist(c, Fresh(copy[c].status))
    /\ UNCHANGED <<chain, copy, threw>>

PersistFinal(c) ==
    /\ Move(c, "final", "done")
    /\ Persist(c, copy[c])
    /\ UNCHANGED <<chain, copy, threw>>

\* reconcile's own read of the record.
Load(c) ==
    /\ Move(c, "load", IF Record(c).tx = NoTx THEN "done" ELSE "query")
    /\ Hold(c, Record(c))
    /\ UNCHANGED <<docs, chain, threw>>

-----------------------------------------------------------------------------
(* Errors and crashes                                                      *)

\* Inside execute's try: the call that threw is the one copy[c] is from.
InTry(c) == c \in Executes /\ pc[c] \in {"submit", "confirming", "query", "final"}
            /\ copy[c].tx \in {NoTx, c}

\* submitTransaction, persistExecution or reconcileExecution throws; a
\* submission may have gone out before it threw.
Throw(c) ==
    /\ InTry(c)
    /\ pc' = [pc EXCEPT ![c] = "catch"]
    /\ chain' \in {chain} \cup
         IF pc[c] = "submit" THEN {[chain EXCEPT ![c] = "pending"]} ELSE {}
    /\ threw' = IF chain'[c] # "none" THEN threw \cup {c} ELSE threw
    /\ UNCHANGED <<docs, copy>>

\* The catch persists { ...execution, FAILED }: the object from before the
\* submission, so a hash already recorded is lost.
Catch(c) ==
    /\ Move(c, "catch", "done")
    /\ Persist(c, Fresh("FAILED"))
    /\ UNCHANGED <<chain, copy, threw>>

\* The process dies, or an await outside the try throws: the call just ends.
Die(c) ==
    /\ pc[c] # "done" /\ (c \in Executes => pc[c] # "start")
    /\ pc' = [pc EXCEPT ![c] = "done"]
    /\ UNCHANGED <<docs, chain, copy, threw>>

Settle(c) ==
    /\ chain[c] = "pending"
    /\ \E s \in {"success", "reverted"} : chain' = [chain EXCEPT ![c] = s]
    /\ UNCHANGED <<docs, pc, copy, threw>>

-----------------------------------------------------------------------------
Call(c) ==
    \/ Begin(c) \/ Propose(c) \/ Gate(c) \/ Refuse(c) \/ MarkExecuting(c)
    \/ Submit(c) \/ PersistHash(c) \/ Query(c) \/ PersistFinal(c) \/ Load(c)
    \/ Throw(c) \/ Catch(c) \/ Die(c)

Next == (\E c \in Calls : Call(c)) \/ (\E c \in Executes : Settle(c))

Spec == Init /\ [][Next]_vars

-----------------------------------------------------------------------------
(* Properties                                                              *)

\* The state has its types.
TypeOK ==
    /\ docs \in [Ids -> Doc]
    /\ chain \in [Executes -> {"none", "pending", "success", "reverted"}]
    /\ pc \in [Calls -> Phase]
    /\ copy \in [Calls -> Doc]
    /\ threw \subseteq Executes

\* "If an execution already exists for the derived executionId, we NEVER
\* broadcast a second transaction": through crashes and retries, with
\* reconciles at any time, as long as two calls of execute for one proposal do
\* not overlap; and the record reads CONFIRMED only for a transaction that
\* succeeded.
Promise ==
    INSTANCE AtMostOnce WITH
        Txs <- Executes,
        sent <- [i \in Ids |-> {c \in Executes : IdOf[c] = i /\ Sent(c)}],
        mined <- {c \in Executes : chain[c] = "success"},
        confirmed <- {i \in Ids : docs[i].status = "CONFIRMED"}

PromiseKept == Promise!Spec

\* A record reads FAILED while its transaction is out or has succeeded only
\* when the call that sent it saw an error after the broadcast: no crash and
\* no retry or late reconcile makes a live transaction look failed.
FailedIsDead ==
    \A c \in Executes :
        docs[IdOf[c]].status = "FAILED" /\ chain[c] \in {"pending", "success"}
            => c \in threw

\* A recorded hash is what a later call reconciles from: it is never replaced,
\* and lost only to the catch of the call that sent it.
HashKept ==
    [][\A i \in Ids : LET tx == docs[i].tx IN
           tx # NoTx => docs'[i].tx = tx \/ (docs'[i].tx = NoTx /\ tx \in threw)]_vars
=============================================================================
