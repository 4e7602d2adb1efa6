------------------------ MODULE ExecutionEngineProofs ------------------------
(***************************************************************************)
(* Theorems about ExecutionEngine for any calls, ids and records: its      *)
(* types, and, when calls of execute for one id do not overlap, what its   *)
(* records say of the chain and the refinement of AtMostOnce.              *)
(***************************************************************************)
EXTENDS ExecutionEngine, TLAPS

-----------------------------------------------------------------------------
(* The inductive invariant                                                 *)

\* What only a call of execute does.
Placed ==
    \A c \in Calls : pc[c] \notin {"load", "query", "final", "done"} => c \in Executes

AtRest(c) == pc[c] \in {"start", "done"}

\* No two calls of execute for one id are under way.
Alone ==
    \A c, d \in Executes : c # d /\ IdOf[c] = IdOf[d] => AtRest(c) \/ AtRest(d)

OneSent ==
    \A c, d \in Executes : Sent(c) /\ Sent(d) /\ IdOf[c] = IdOf[d] => c = d

\* Nothing has been broadcast for an id.
Untouched(i) == \A d \in Executes : IdOf[d] = i => ~Sent(d)

\* A record's hash is a broadcast transaction of its id; a record up to
\* PROPOSED is of an id without one; and CONFIRMED is the chain's word.
RecordIsTrue(i) ==
    /\ docs[i].tx # NoTx => Sent(docs[i].tx) /\ IdOf[docs[i].tx] = i
    /\ docs[i].status \in {"ABSENT", "PROPOSED"} => Untouched(i)
    /\ docs[i].status = "CONFIRMED" => docs[i].tx # NoTx /\ chain[docs[i].tx] = "success"

\* What a call knows where it is.
CallIsTrue(c) ==
    /\ pc[c] = "propose" => /\ copy[c] = Fresh("PROPOSED")
                            /\ Record(c).status \in {"ABSENT", "PROPOSED"}
    /\ pc[c] \in {"gate", "refuse", "executing"} => Record(c).status = "PROPOSED"
    /\ pc[c] = "submit" => Record(c).status = "EXECUTING" /\ Untouched(IdOf[c])
    /\ pc[c] = "confirming" => copy[c] = [status |-> "CONFIRMING", tx |-> c]
    /\ pc[c] \in {"confirming", "query", "final"} =>
          copy[c].tx # NoTx /\ Sent(copy[c].tx) /\ IdOf[copy[c].tx] = IdOf[c]
    /\ pc[c] = "final" =>
          /\ copy[c].status \in {"CONFIRMING", "CONFIRMED", "FAILED"}
          /\ copy[c].status = "CONFIRMED" => chain[copy[c].tx] = "success"
          /\ copy[c].status = "FAILED" => chain[copy[c].tx] = "reverted"
    /\ pc[c] = "catch" =>
          /\ \A d \in Executes : IdOf[d] = IdOf[c] /\ Sent(d) => d = c
          /\ Sent(c) => c \in threw

EngineInv ==
    /\ TypeOK
    /\ Placed
    /\ Alone
    /\ OneSent
    /\ \A i \in Ids : RecordIsTrue(i)
    /\ \A c \in Calls : CallIsTrue(c)
    /\ FailedIsDead
-----------------------------------------------------------------------------
(* Type correctness                                                        *)

LEMMA FreshType == \A st \in Status : Fresh(st) \in Doc
  BY DEF Fresh, Doc

LEMMA AnswerType == \A tx : Answer(tx) \in {"CONFIRMING", "CONFIRMED", "FAILED"}
  BY DEF Answer

LEMMA InitType == Init => TypeOK /\ Placed
<1> SUFFICES ASSUME Init PROVE TypeOK /\ Placed
  OBVIOUS
<1>1. NoDoc \in Doc
  BY FreshType DEF NoDoc, Status
<1> QED
  BY <1>1 DEF Init, TypeOK, Placed, Phase

\* The types need Placed: a transaction is named by the call that sends it.
LEMMA TypeStep == TypeOK /\ Placed /\ [Next]_vars => TypeOK' /\ Placed'
<1> SUFFICES ASSUME TypeOK, Placed, [Next]_vars PROVE TypeOK' /\ Placed'
  OBVIOUS
<1> USE EngineAssumption DEF TypeOK, Placed, Move, Hold, Persist, Record
<1>1. ASSUME NEW c \in Calls, Begin(c) PROVE TypeOK' /\ Placed'
  BY <1>1, FreshType DEF Begin, HandleExisting, Phase, Status
<1>2. ASSUME NEW c \in Calls,
             Propose(c) \/ Gate(c) \/ PersistHash(c) \/ PersistFinal(c) \/ Die(c)
      PROVE  TypeOK' /\ Placed'
  BY <1>2 DEF Propose, Gate, PersistHash, PersistFinal, Die, Phase
<1>3. ASSUME NEW c \in Calls, Refuse(c) \/ MarkExecuting(c) \/ Catch(c)
      PROVE  TypeOK' /\ Placed'
  BY <1>3, FreshType DEF Refuse, MarkExecuting, Catch, Phase, Status
<1>4. ASSUME NEW c \in Calls, Load(c) PROVE TypeOK' /\ Placed'
  BY <1>4 DEF Load, Phase
<1>5. ASSUME NEW c \in Calls, Query(c) PROVE TypeOK' /\ Placed'
  <2>1. [copy[c] EXCEPT !.status = Answer(copy[c].tx)] \in Doc
    BY AnswerType DEF Doc, Status
  <2> QED
    BY <1>5, <2>1 DEF Query, Phase
<1>6. ASSUME NEW c \in Calls, Submit(c) PROVE TypeOK' /\ Placed'
  <2>1. c \in Executes
    BY <1>6 DEF Submit
  <2>2. [status |-> "CONFIRMING", tx |-> c] \in Doc
    BY <2>1 DEF Doc, Status
  <2> QED
    BY <1>6, <2>1, <2>2 DEF Submit, Phase
<1>7. ASSUME NEW c \in Calls, Throw(c) PROVE TypeOK' /\ Placed'
  BY <1>7 DEF Throw, InTry, Phase
<1>8. ASSUME NEW c \in Executes, Settle(c) PROVE TypeOK' /\ Placed'
  BY <1>8 DEF Settle
<1>9. CASE UNCHANGED vars
  BY <1>9 DEF vars
<1> QED
  BY <1>1, <1>2, <1>3, <1>4, <1>5, <1>6, <1>7, <1>8, <1>9 DEF Next, Call

\* Every reachable state has its types, overlapping calls included: TypeOK.
THEOREM EngineTypeCorrect == Spec => []TypeOK
<1>1. TypeOK /\ Placed => TypeOK
  OBVIOUS
<1> QED
  BY <1>1, InitType, TypeStep, PTL DEF Spec

-----------------------------------------------------------------------------
(* Records and transactions, one call of execute per id at a time          *)

LEMMA EngineInit == Init => EngineInv
<1> SUFFICES ASSUME Init PROVE EngineInv
  OBVIOUS
<1> USE EngineAssumption
<1>1. TypeOK /\ Placed
  BY InitType
<1>2. /\ \A c \in Executes : ~Sent(c) /\ AtRest(c)
      /\ \A i \in Ids : docs[i] = [status |-> "ABSENT", tx |-> NoTx]
      /\ \A c \in Calls : pc[c] \in {"start", "load"}
  BY DEF Init, Sent, AtRest, NoDoc, Fresh, Calls
<1>3. Alone /\ OneSent
  BY <1>2 DEF Alone, OneSent
<1>4. \A i \in Ids : RecordIsTrue(i)
  BY <1>2 DEF RecordIsTrue, Untouched
<1>5. \A c \in Calls : CallIsTrue(c)
  BY <1>2 DEF CallIsTrue
<1>6. FailedIsDead
  BY <1>2 DEF FailedIsDead, Sent
<1> QED
  BY <1>1, <1>3, <1>4, <1>5, <1>6 DEF EngineInv

\* A call that starts or moves on keeps the calls of one id apart.
LEMMA AloneStep ==
  ASSUME Overlap = FALSE, TypeOK, Placed, Alone, [Next]_vars
  PROVE  Alone'
<1> USE EngineAssumption DEF TypeOK, AtRest, Move
<1>1. ASSUME NEW c \in Calls, Begin(c) PROVE Alone'
  <2>1. \A d \in Executes : d # c /\ IdOf[d] = IdOf[c] => AtRest(d)
    BY <1>1 DEF Begin, Overlapped
  <2>2. pc' = [pc EXCEPT ![c] = HandleExisting(Record(c))]
    BY <1>1 DEF Begin
  <2> QED
    BY <2>1, <2>2 DEF Alone, Calls
<1>2. ASSUME NEW c \in Calls, pc[c] \notin {"start", "done"},
             \E phase : pc' = [pc EXCEPT ![c] = phase]
      PROVE  Alone'
  BY <1>2 DEF Alone, Calls
<1>3. ASSUME NEW c \in Calls, Call(c), ~Begin(c)
      PROVE  pc[c] \notin {"start", "done"} /\ \E phase : pc' = [pc EXCEPT ![c] = phase]
  BY <1>3 DEF Call, Propose, Gate, Refuse, MarkExecuting, Submit, PersistHash, Query,
              PersistFinal, Load, Throw, InTry, Catch, Die, Placed
<1>4. CASE UNCHANGED pc
  BY <1>4 DEF Alone
<1> QED
  BY <1>1, <1>2, <1>3, <1>4 DEF Next, Settle, vars

\* A call's own step, seen from the others: what it leaves alone.
LEMMA Frame ==
  ASSUME TypeOK, Placed, NEW c \in Calls, Call(c)
  PROVE  /\ \A d \in Calls : d # c => pc'[d] = pc[d] /\ copy'[d] = copy[d]
         /\ \A i \in Ids : i # IdOf[c] => docs'[i] = docs[i]
         /\ \A d \in Executes : d # c => chain'[d] = chain[d]
         /\ threw \subseteq threw' /\ threw' \subseteq threw \cup {c}
<1> USE EngineAssumption DEF TypeOK, Move, Hold, Persist
<1>1. CASE Begin(c) \/ Gate(c) \/ Load(c) \/ Query(c) \/ Die(c)
  BY <1>1 DEF Begin, Gate, Load, Query, Die
<1>2. CASE Propose(c) \/ Refuse(c) \/ MarkExecuting(c) \/ PersistHash(c)
           \/ PersistFinal(c) \/ Catch(c)
  BY <1>2 DEF Propose, Refuse, MarkExecuting, PersistHash, PersistFinal, Catch
<1>3. CASE Submit(c)
  BY <1>3 DEF Submit
<1>4. CASE Throw(c)
  BY <1>4 DEF Throw, InTry
<1> QED
  BY <1>1, <1>2, <1>3, <1>4 DEF Call

\* What is broadcast stays so with its outcome, and only a call that submits
\* broadcasts, with nothing out for its id.
LEMMA ChainStep ==
  ASSUME EngineInv, [Next]_vars, NEW d \in Executes
  PROVE  /\ Sent(d) => Sent(d)'
         /\ chain[d] \in {"success", "reverted"} => chain'[d] = chain[d]
         /\ Sent(d)' /\ ~Sent(d) => pc[d] = "submit" /\ pc'[d] # "submit"
         /\ (Sent(d)' /\ ~Sent(d)) => Untouched(IdOf[d])
<1> USE EngineAssumption DEF EngineInv, TypeOK, Sent
<1>1. ASSUME pc[d] = "submit" PROVE Untouched(IdOf[d])
  BY <1>1 DEF CallIsTrue, Calls
<1>2. pc[d] = "submit" => ~Sent(d)
  BY <1>1 DEF Untouched
<1>3. ASSUME NEW c \in Calls, Submit(c) \/ Throw(c)
      PROVE  /\ Sent(d) => Sent(d)'
             /\ chain[d] \in {"success", "reverted"} => chain'[d] = chain[d]
             /\ Sent(d)' /\ ~Sent(d) => pc[d] = "submit" /\ pc'[d] # "submit"
  BY <1>2, <1>3 DEF Submit, Throw, Move, InTry
<1>4. ASSUME NEW c \in Executes, Settle(c)
      PROVE  /\ Sent(d) => Sent(d)'
             /\ chain[d] \in {"success", "reverted"} => chain'[d] = chain[d]
             /\ Sent(d)' => Sent(d)
  BY <1>4 DEF Settle
<1>5. CASE UNCHANGED chain
  BY <1>5
<1> QED
  BY <1>1, <1>3, <1>4, <1>5
     DEF Next, Call, vars, Begin, Propose, Gate, Refuse, MarkExecuting, PersistHash,
         Query, PersistFinal, Load, Catch, Die

\* At most one transaction per id goes out.
LEMMA OneSentStep ==
  ASSUME Overlap = FALSE, EngineInv, [Next]_vars
  PROVE  OneSent'
<1> SUFFICES ASSUME NEW c \in Executes, NEW d \in Executes,
                    Sent(c)', Sent(d)', IdOf[c] = IdOf[d]
             PROVE  c = d
  BY DEF OneSent
<1>1. CASE Sent(c) /\ Sent(d)
  BY <1>1 DEF EngineInv, OneSent
<1>2. CASE ~Sent(c) /\ Sent(d)
  BY <1>2, ChainStep DEF Untouched
<1>3. CASE Sent(c) /\ ~Sent(d)
  BY <1>3, ChainStep DEF Untouched
<1>4. CASE ~Sent(c) /\ ~Sent(d)
  BY <1>4, ChainStep DEF EngineInv, Alone, AtRest
<1> QED
  BY <1>1, <1>2, <1>3, <1>4

\* An id stays untouched but for the submission of a call of its own.
LEMMA UntouchedStep ==
  ASSUME EngineInv, [Next]_vars, NEW i \in Ids, Untouched(i),
         \A d \in Executes : IdOf[d] = i => pc[d] # "submit" \/ pc'[d] = "submit"
  PROVE  Untouched(i)'
  BY ChainStep DEF Untouched

\* A record nothing is written to stays true.
LEMMA KeptRecord ==
  ASSUME EngineInv, [Next]_vars, NEW i \in Ids, docs'[i] = docs[i]
  PROVE  RecordIsTrue(i)'
<1> USE EngineAssumption DEF EngineInv, TypeOK
<1>1. docs[i].tx # NoTx => docs[i].tx \in Executes
  BY DEF Doc
<1>2. ASSUME docs[i].status \in {"ABSENT", "PROPOSED"}
      PROVE  Untouched(i)'
  <2>1. Untouched(i)
    BY <1>2 DEF RecordIsTrue
  <2>2. \A d \in Executes : IdOf[d] = i => pc[d] # "submit"
    BY <1>2 DEF CallIsTrue, Record, Calls
  <2> QED
    BY <2>1, <2>2, UntouchedStep
<1> QED
  BY <1>1, <1>2, ChainStep DEF RecordIsTrue

\* What a record holds when a call writes it.
LEMMA OwnRecord ==
  ASSUME EngineInv, NEW c \in Calls, Call(c), [Next]_vars
  PROVE  RecordIsTrue(IdOf[c])'
<1> DEFINE i == IdOf[c]
<1> USE EngineAssumption DEF TypeOK, Move, Persist
<1>0. i \in Ids /\ TypeOK /\ CallIsTrue(c) /\ RecordIsTrue(i)
  BY DEF EngineInv
<1>1. ASSUME NEW st \in {"PROPOSED", "EXECUTING", "FAILED"},
             docs' = [docs EXCEPT ![i] = Fresh(st)], UNCHANGED chain,
             st = "PROPOSED" => Untouched(i)
      PROVE  RecordIsTrue(i)'
  BY <1>0, <1>1 DEF RecordIsTrue, Untouched, Fresh, Sent
<1>2. CASE Propose(c)
  <2>1. copy[c] = Fresh("PROPOSED") /\ Untouched(i)
    BY <1>0, <1>2 DEF Propose, CallIsTrue, RecordIsTrue, Record
  <2> QED
    BY <1>1, <1>2, <2>1 DEF Propose
<1>3. CASE Refuse(c) \/ MarkExecuting(c) \/ Catch(c)
  BY <1>1, <1>3 DEF Refuse, MarkExecuting, Catch
<1>4. CASE PersistHash(c) \/ PersistFinal(c)
  <2>1. docs' = [docs EXCEPT ![i] = copy[c]] /\ UNCHANGED chain
    BY <1>4 DEF PersistHash, PersistFinal
  <2>2. /\ copy[c].tx # NoTx /\ Sent(copy[c].tx) /\ IdOf[copy[c].tx] = i
        /\ copy[c].status \in {"CONFIRMING", "CONFIRMED", "FAILED"}
        /\ copy[c].status = "CONFIRMED" => chain[copy[c].tx] = "success"
    BY <1>0, <1>4 DEF PersistHash, PersistFinal, CallIsTrue
  <2>3. docs'[i] = copy[c]
    BY <1>0, <2>1
  <2> QED
    BY <2>1, <2>2, <2>3 DEF RecordIsTrue, Sent
<1>5. CASE UNCHANGED docs
  BY <1>0, <1>5, KeptRecord
<1> QED
  BY <1>2, <1>3, <1>4, <1>5 DEF Call, Begin, Gate, Submit, Query, Load, Throw, Die

\* What a call knows after its own step.
LEMMA OwnCall ==
  ASSUME EngineInv, NEW c \in Calls, Call(c)
  PROVE  CallIsTrue(c)'
<1> USE EngineAssumption DEF TypeOK, Move, Hold, Persist, Record
<1>0. /\ IdOf[c] \in Ids /\ TypeOK /\ Placed /\ OneSent /\ CallIsTrue(c)
      /\ RecordIsTrue(IdOf[c])
  BY DEF EngineInv
<1>1. CASE Begin(c)
  BY <1>0, <1>1 DEF Begin, HandleExisting, CallIsTrue
<1>2. CASE Propose(c)
  <2>1. pc'[c] = "gate" /\ docs'[IdOf[c]].status = "PROPOSED"
    BY <1>0, <1>2 DEF Propose, CallIsTrue, Fresh
  <2> QED
    BY <2>1 DEF CallIsTrue
<1>3. CASE Gate(c)
  BY <1>0, <1>3 DEF Gate, CallIsTrue
<1>4. CASE Refuse(c) \/ PersistFinal(c) \/ Catch(c) \/ Die(c)
  <2>1. pc'[c] = "done"
    BY <1>0, <1>4 DEF Refuse, PersistFinal, Catch, Die
  <2> QED
    BY <2>1 DEF CallIsTrue
<1>5. CASE MarkExecuting(c)
  <2>1. pc'[c] = "submit" /\ docs'[IdOf[c]].status = "EXECUTING" /\ UNCHANGED chain
    BY <1>0, <1>5 DEF MarkExecuting, Fresh
  <2>2. Untouched(IdOf[c])
    BY <1>0, <1>5 DEF MarkExecuting, CallIsTrue, RecordIsTrue
  <2>3. Untouched(IdOf[c])'
    BY <2>1, <2>2 DEF Untouched, Sent
  <2> QED
    BY <2>1, <2>3 DEF CallIsTrue
<1>6. CASE Submit(c)
  <2>1. c \in Executes
    BY <1>0, <1>6 DEF Submit, Placed
  <2>2. /\ pc'[c] = "confirming" /\ chain'[c] = "pending"
        /\ copy'[c] = [status |-> "CONFIRMING", tx |-> c]
    BY <1>0, <1>6, <2>1 DEF Submit
  <2> QED
    BY <2>1, <2>2 DEF CallIsTrue, Sent
<1>7. CASE PersistHash(c)
  <2>1. pc'[c] = "query" /\ copy'[c] = copy[c] /\ chain' = chain
    BY <1>0, <1>7 DEF PersistHash
  <2>2. copy[c].tx # NoTx /\ Sent(copy[c].tx) /\ IdOf[copy[c].tx] = IdOf[c]
    BY <1>0, <1>7 DEF PersistHash, CallIsTrue
  <2> QED
    BY <2>1, <2>2 DEF CallIsTrue, Sent
<1>8. CASE Query(c)
  <2>1. /\ pc'[c] = "final" /\ chain' = chain
        /\ copy'[c].tx = copy[c].tx /\ copy'[c].status = Answer(copy[c].tx)
    BY <1>0, <1>8 DEF Query, Doc
  <2>2. copy[c].tx # NoTx /\ Sent(copy[c].tx) /\ IdOf[copy[c].tx] = IdOf[c]
    BY <1>0, <1>8 DEF Query, CallIsTrue
  <2> QED
    BY <2>1, <2>2 DEF CallIsTrue, Sent, Answer
<1>9. CASE Load(c)
  <2>1. pc'[c] \in {"done", "query"} /\ copy'[c] = Record(c) /\ chain' = chain
    BY <1>0, <1>9 DEF Load
  <2>2. pc'[c] = "query" => Record(c).tx # NoTx
    BY <1>0, <1>9 DEF Load
  <2> QED
    BY <1>0, <2>1, <2>2 DEF CallIsTrue, RecordIsTrue, Sent
<1>10. CASE Throw(c)
  <2>1. /\ c \in Executes /\ pc'[c] = "catch"
        /\ \A d \in Executes : d # c => chain'[d] = chain[d]
        /\ Sent(c)' => c \in threw'
    BY <1>0, <1>10 DEF Throw, InTry, Sent
  <2>2. \A d \in Executes : d # c /\ IdOf[d] = IdOf[c] => ~Sent(d)
    <3>1. CASE pc[c] = "submit"
      BY <1>0, <3>1 DEF CallIsTrue, Untouched
    <3>2. CASE pc[c] # "submit"
      <4>1. copy[c].tx = c /\ Sent(c)
        BY <1>0, <1>10, <3>2 DEF Throw, InTry, CallIsTrue
      <4> QED
        BY <1>0, <2>1, <4>1 DEF OneSent
    <3> QED
      BY <3>1, <3>2
  <2> QED
    BY <2>1, <2>2 DEF CallIsTrue, Sent
<1> QED
  BY <1>1, <1>2, <1>3, <1>4, <1>5, <1>6, <1>7, <1>8, <1>9, <1>10 DEF Call

\* A call that does not move keeps what it knows, whoever else does.
LEMMA OtherCall ==
  ASSUME EngineInv, [Next]_vars, NEW d \in Calls,
         pc'[d] = pc[d], copy'[d] = copy[d], threw \subseteq threw',
         pc[d] \in {"propose", "gate", "refuse", "executing", "submit"} =>
             docs'[IdOf[d]] = docs[IdOf[d]]
  PROVE  CallIsTrue(d)'
<1> USE EngineAssumption DEF TypeOK
<1>0. /\ IdOf[d] \in Ids /\ TypeOK /\ Placed /\ Alone /\ CallIsTrue(d)
      /\ copy[d].tx # NoTx => copy[d].tx \in Executes
  BY DEF EngineInv, Doc
<1>1. ASSUME pc[d] = "submit" PROVE Untouched(IdOf[d])'
  <2>1. Untouched(IdOf[d]) /\ d \in Executes
    BY <1>0, <1>1 DEF CallIsTrue, Placed
  <2>2. \A e \in Executes : IdOf[e] = IdOf[d] => pc[e] # "submit" \/ pc'[e] = "submit"
    BY <1>0, <1>1, <2>1 DEF Alone, AtRest
  <2> QED
    BY <1>0, <2>1, <2>2, UntouchedStep
<1>2. ASSUME pc[d] = "catch"
      PROVE  /\ \A e \in Executes : IdOf[e] = IdOf[d] /\ Sent(e)' => e = d
             /\ Sent(d)' => d \in threw'
  <2>1. d \in Executes
    BY <1>0, <1>2 DEF Placed
  <2>2. \A e \in Executes : IdOf[e] = IdOf[d] => pc[e] # "submit"
    BY <1>0, <1>2, <2>1 DEF Alone, AtRest
  <2>3. \A e \in Executes : IdOf[e] = IdOf[d] /\ Sent(e)' => Sent(e)
    BY <2>2, ChainStep
  <2> QED
    BY <1>0, <1>2, <2>1, <2>3 DEF CallIsTrue
<1>3. ASSUME pc[d] \in {"confirming", "query", "final"}
      PROVE  /\ copy[d].tx # NoTx /\ Sent(copy[d].tx)' /\ IdOf[copy[d].tx] = IdOf[d]
             /\ chain[copy[d].tx] \in {"success", "reverted"} =>
                    chain'[copy[d].tx] = chain[copy[d].tx]
  BY <1>0, <1>3, ChainStep DEF CallIsTrue
<1>4. /\ pc[d] = "propose" => /\ copy'[d] = Fresh("PROPOSED")
                              /\ docs'[IdOf[d]].status \in {"ABSENT", "PROPOSED"}
      /\ pc[d] \in {"gate", "refuse", "executing"} => docs'[IdOf[d]].status = "PROPOSED"
      /\ pc[d] = "submit" => docs'[IdOf[d]].status = "EXECUTING"
      /\ pc[d] = "confirming" => copy'[d] = [status |-> "CONFIRMING", tx |-> d]
  BY <1>0 DEF CallIsTrue, Record
<1>5. pc[d] = "final" =>
          /\ copy'[d].status \in {"CONFIRMING", "CONFIRMED", "FAILED"}
          /\ copy'[d].status = "CONFIRMED" => chain'[copy'[d].tx] = "success"
          /\ copy'[d].status = "FAILED" => chain'[copy'[d].tx] = "reverted"
  BY <1>0, <1>3 DEF CallIsTrue
<1> QED
  BY <1>1, <1>2, <1>3, <1>4, <1>5 DEF CallIsTrue, Record

\* A record still to be proposed or sent is written by no call but its own.
LEMMA OthersWait ==
  ASSUME EngineInv, NEW c \in Calls, Call(c), NEW d \in Calls, c # d,
         pc[d] \in {"propose", "gate", "refuse", "executing", "submit"}
  PROVE  docs'[IdOf[d]] = docs[IdOf[d]]
<1> USE EngineAssumption
<1>0. /\ IdOf[d] \in Ids /\ TypeOK /\ Placed /\ Alone /\ CallIsTrue(c) /\ CallIsTrue(d)
      /\ RecordIsTrue(IdOf[d])
  BY DEF EngineInv, TypeOK
<1>1. CASE IdOf[c] # IdOf[d]
  BY <1>0, <1>1, Frame
<1>2. CASE IdOf[c] = IdOf[d]
  <2>1. Untouched(IdOf[d]) /\ d \in Executes
    BY <1>0 DEF CallIsTrue, RecordIsTrue, Record, Placed
  <2>2. c \in Executes => AtRest(c)
    BY <1>0, <1>2, <2>1 DEF Alone, AtRest
  <2>3. ~PersistFinal(c)
    <3>1. copy[c].tx # NoTx => copy[c].tx \in Executes
      BY <1>0 DEF TypeOK, Doc
    <3> QED
      BY <1>0, <1>2, <2>1, <3>1 DEF PersistFinal, Move, CallIsTrue, Untouched
  <2>4. ~(Propose(c) \/ Refuse(c) \/ MarkExecuting(c) \/ PersistHash(c) \/ Catch(c))
    BY <1>0, <2>2 DEF Propose, Refuse, MarkExecuting, PersistHash, Catch, Move, Placed, AtRest
  <2> QED
    BY <2>3, <2>4 DEF Call, Begin, Gate, Submit, Query, Load, Throw, Die
<1> QED
  BY <1>1, <1>2

\* What a record that reads FAILED says, when a call writes it.
LEMMA FailedStep ==
  ASSUME EngineInv, [Next]_vars
  PROVE  FailedIsDead'
<1> USE EngineAssumption DEF TypeOK, Move, Persist
<1> SUFFICES ASSUME NEW d \in Executes, docs'[IdOf[d]].status = "FAILED",
                    chain'[d] \in {"pending", "success"}
             PROVE  d \in threw'
  BY DEF FailedIsDead
<1>0. /\ d \in Calls /\ IdOf[d] \in Ids /\ TypeOK /\ OneSent /\ FailedIsDead
      /\ CallIsTrue(d) /\ RecordIsTrue(IdOf[d])
  BY DEF EngineInv, Calls
<1>1. threw \subseteq threw'
  BY <1>0, Frame DEF EngineInv, Next, Settle, vars
<1>2. CASE docs'[IdOf[d]] = docs[IdOf[d]]
  <2>1. pc[d] # "submit"
    BY <1>0, <1>2 DEF CallIsTrue, Record
  <2>2. Sent(d) /\ chain[d] # "reverted"
    BY <2>1, ChainStep DEF Sent
  <2> QED
    BY <1>0, <1>1, <1>2, <2>2 DEF FailedIsDead, Sent
<1>3. CASE docs'[IdOf[d]] # docs[IdOf[d]]
  <2>1. PICK c \in Calls : Call(c)
    BY <1>3 DEF Next, Settle, vars
  <2>2. IdOf[c] = IdOf[d]
    BY <1>0, <1>3, <2>1, Frame DEF EngineInv
  <2>3. TypeOK /\ CallIsTrue(c) /\ copy[c] \in Doc
    BY <1>0 DEF EngineInv
  <2>4. CASE Refuse(c)
    <3>1. Untouched(IdOf[d])
      BY <1>0, <2>2, <2>3, <2>4 DEF Refuse, CallIsTrue, RecordIsTrue, Record
    <3> QED
      BY <2>4, <3>1 DEF Refuse, Untouched, Sent
  <2>5. CASE Catch(c)
    BY <1>1, <2>2, <2>3, <2>5 DEF Catch, CallIsTrue, Sent
  <2>6. CASE PersistFinal(c)
    <3>1. docs'[IdOf[d]] = copy[c] /\ chain' = chain
      BY <1>0, <2>2, <2>6 DEF PersistFinal
    <3>2. /\ copy[c].tx \in Executes /\ Sent(copy[c].tx) /\ IdOf[copy[c].tx] = IdOf[d]
          /\ chain[copy[c].tx] = "reverted"
      BY <2>2, <2>3, <2>6, <3>1 DEF PersistFinal, CallIsTrue, Doc
    <3>3. copy[c].tx = d
      BY <1>0, <3>1, <3>2 DEF OneSent, Sent
    <3> QED
      BY <3>1, <3>2, <3>3
  <2>7. CASE Propose(c) \/ MarkExecuting(c) \/ PersistHash(c)
    <3>1. docs'[IdOf[d]].status \in {"PROPOSED", "EXECUTING", "CONFIRMING"}
      BY <1>0, <2>2, <2>3, <2>7 DEF Propose, MarkExecuting, PersistHash, CallIsTrue, Fresh
    <3> QED
      BY <3>1
  <2> QED
    BY <1>3, <2>1, <2>4, <2>5, <2>6, <2>7 DEF Call, Begin, Gate, Submit, Query, Load, Throw, Die
<1> QED
  BY <1>2, <1>3

LEMMA EngineStep ==
  ASSUME Overlap = FALSE, EngineInv, [Next]_vars
  PROVE  EngineInv'
<1> USE EngineAssumption
<1>1. TypeOK' /\ Placed' /\ Alone' /\ OneSent' /\ FailedIsDead'
  BY TypeStep, AloneStep, OneSentStep, FailedStep DEF EngineInv
<1>2. CASE \E c \in Calls : Call(c)
  <2>1. PICK c \in Calls : Call(c)
    BY <1>2
  <2>2. ASSUME NEW i \in Ids PROVE RecordIsTrue(i)'
    BY <2>1, OwnRecord, KeptRecord, Frame DEF EngineInv
  <2>3. ASSUME NEW d \in Calls PROVE CallIsTrue(d)'
    BY <2>1, OwnCall, OtherCall, OthersWait, Frame DEF EngineInv
  <2> QED
    BY <1>1, <2>2, <2>3 DEF EngineInv
<1>3. CASE ~\E c \in Calls : Call(c)
  <2>1. UNCHANGED <<docs, pc, copy, threw>>
    BY <1>3 DEF Next, Settle, vars
  <2> QED
    BY <1>1, <2>1, KeptRecord, OtherCall DEF EngineInv
<1> QED
  BY <1>2, <1>3

\* A recorded hash, seen from one step: the other broadcast of its id that could
\* replace it does not exist, and what takes it away is its own call's catch.
LEMMA HashStep ==
  ASSUME EngineInv, EngineInv', [Next]_vars, NEW i \in Ids, docs[i].tx # NoTx
  PROVE  docs'[i].tx = docs[i].tx \/ (docs'[i].tx = NoTx /\ docs[i].tx \in threw)
<1> USE EngineAssumption DEF Move, Persist
<1>1. /\ TypeOK /\ TypeOK' /\ OneSent' /\ RecordIsTrue(i) /\ RecordIsTrue(i)'
      /\ docs[i] \in Doc /\ docs'[i] \in Doc
  BY DEF EngineInv, TypeOK
<1>2. PICK tx \in Executes : tx = docs[i].tx
  BY <1>1 DEF Doc
<1>3. Sent(tx) /\ Sent(tx)' /\ IdOf[tx] = i
  BY <1>1, <1>2, ChainStep DEF RecordIsTrue
<1>4. CASE docs'[i].tx # NoTx
  <2>1. PICK new \in Executes : new = docs'[i].tx
    BY <1>1, <1>4 DEF Doc
  <2>2. Sent(new)' /\ IdOf[new] = i
    BY <1>1, <1>4, <2>1 DEF RecordIsTrue, Sent
  <2>3. new = tx
    BY <1>1, <1>3, <2>2 DEF OneSent
  <2> QED
    BY <1>2, <2>1, <2>3
<1>5. CASE docs'[i].tx = NoTx
  <2>1. PICK c \in Calls : Call(c)
    BY <1>5 DEF Next, Settle, vars
  <2>2. IdOf[c] = i /\ CallIsTrue(c) /\ copy[c] \in Doc
    BY <1>1, <1>5, <2>1, Frame DEF EngineInv, TypeOK
  <2>3. ~Untouched(i)
    BY <1>3 DEF Untouched
  <2>4. ~(Propose(c) \/ Refuse(c) \/ MarkExecuting(c))
    BY <1>1, <2>2, <2>3 DEF Propose, Refuse, MarkExecuting, CallIsTrue, RecordIsTrue, Record
  <2>5. ~(PersistHash(c) \/ PersistFinal(c))
    <3> SUFFICES ASSUME PersistHash(c) \/ PersistFinal(c) PROVE FALSE
      OBVIOUS
    <3>1. docs'[i] = copy[c] /\ copy[c].tx # NoTx
      BY <1>1, <2>2 DEF PersistHash, PersistFinal, CallIsTrue, TypeOK
    <3> QED
      BY <1>5, <3>1
  <2>6. CASE Catch(c)
    BY <1>2, <1>3, <1>5, <2>2, <2>6 DEF Catch, CallIsTrue
  <2> QED
    BY <1>5, <2>1, <2>4, <2>5, <2>6 DEF Call, Begin, Gate, Submit, Query, Load, Throw, Die
<1> QED
  BY <1>4, <1>5

\* The state AtMostOnce is about.
SentOf    == [i \in Ids |-> {c \in Executes : IdOf[c] = i /\ Sent(c)}]
Mined     == {c \in Executes : chain[c] = "success"}
Confirmed == {i \in Ids : docs[i].status = "CONFIRMED"}

\* A change on the chain is the one broadcast of an id, or its success.
LEMMA ChainIsPromised ==
  ASSUME EngineInv, [Next]_vars, chain' # chain
  PROVE  [Promise!Next]_(Promise!vars)
<1> USE EngineAssumption DEF EngineInv, TypeOK
<1>1. UNCHANGED docs
  BY DEF Next, Call, vars, Begin, Propose, Gate, Refuse, MarkExecuting, Submit, PersistHash,
         Query, PersistFinal, Load, Throw, Catch, Die, Settle
<1>2. Confirmed' = Confirmed
  BY <1>1 DEF Confirmed
<1>3. ASSUME NEW c \in Executes, chain' = [chain EXCEPT ![c] = "pending"], Untouched(IdOf[c])
      PROVE  Promise!Broadcast(IdOf[c], c)
  <2>1. IdOf[c] \in Ids /\ ~Sent(c) /\ SentOf[IdOf[c]] = {}
    BY <1>3 DEF SentOf, Untouched, Calls
  <2>2. \A d \in Executes : Sent(d)' <=> Sent(d) \/ d = c
    BY <1>3 DEF Sent
  <2>3. SentOf' = [SentOf EXCEPT ![IdOf[c]] = {c}]
    <3>1. ASSUME NEW i \in Ids
          PROVE  {d \in Executes : IdOf[d] = i /\ Sent(d)'} =
                     IF i = IdOf[c] THEN {c} ELSE {d \in Executes : IdOf[d] = i /\ Sent(d)}
      BY <1>3, <2>2 DEF Untouched
    <3> QED
      BY <3>1, <2>1 DEF SentOf
  <2>4. Mined' = Mined
    BY <1>3, <2>1 DEF Mined, Sent
  <2> QED
    BY <1>2, <2>1, <2>3, <2>4 DEF Promise!Broadcast, SentOf, Mined, Confirmed
<1>4. ASSUME NEW c \in Calls, Submit(c) \/ Throw(c)
      PROVE  Promise!Next
  <2>1. /\ pc[c] = "submit" /\ c \in Executes
        /\ chain' = [chain EXCEPT ![c] = "pending"]
    BY <1>4 DEF Submit, Throw, Move, Placed
  <2>2. Untouched(IdOf[c])
    BY <2>1 DEF CallIsTrue
  <2> QED
    BY <1>3, <2>1, <2>2 DEF Promise!Next
<1>5. ASSUME NEW c \in Executes, Settle(c)
      PROVE  [Promise!Next]_(Promise!vars)
  <2>1. \A d \in Executes : Sent(d)' <=> Sent(d)
    BY <1>5 DEF Settle, Sent
  <2>2. SentOf' = SentOf
    BY <2>1 DEF SentOf
  <2>3. CASE chain' = [chain EXCEPT ![c] = "success"]
    <3>1. IdOf[c] \in Ids /\ c \in SentOf[IdOf[c]]
      BY <1>5 DEF Settle, SentOf, Sent, Calls
    <3>2. Mined' = Mined \cup {c}
      BY <2>3 DEF Mined
    <3>3. Promise!Mine(IdOf[c], c)
      BY <1>2, <2>2, <3>1, <3>2 DEF Promise!Mine, SentOf, Mined, Confirmed
    <3> QED
      BY <3>1, <3>3 DEF Promise!Next
  <2>4. CASE chain' = [chain EXCEPT ![c] = "reverted"]
    <3>1. Mined' = Mined
      BY <1>5, <2>4 DEF Settle, Mined
    <3> QED
      BY <1>2, <2>2, <3>1 DEF Promise!vars, SentOf, Mined, Confirmed
  <2> QED
    BY <1>5, <2>3, <2>4 DEF Settle
<1>6. PICK c \in Calls : Submit(c) \/ Throw(c) \/ (c \in Executes /\ Settle(c))
  BY DEF Next, Call, vars, Begin, Propose, Gate, Refuse, MarkExecuting, PersistHash, Query,
         PersistFinal, Load, Catch, Die, Calls
<1> QED
  BY <1>4, <1>5, <1>6

\* With the chain as it is, a record may come to read CONFIRMED, when its one
\* transaction has succeeded, or cease to.
LEMMA RecordIsPromised ==
  ASSUME EngineInv, EngineInv', [Next]_vars, chain' = chain
  PROVE  [Promise!Next]_(Promise!vars)
<1> USE EngineAssumption
<1>1. TypeOK /\ TypeOK' /\ OneSent
  BY DEF EngineInv
<1>2. SentOf' = SentOf /\ Mined' = Mined
  BY DEF SentOf, Mined, Sent
<1>3. CASE docs' = docs
  BY <1>2, <1>3 DEF Promise!vars, SentOf, Mined, Confirmed
<1>4. CASE docs' # docs
  <2>1. PICK c \in Calls : Call(c)
    BY <1>4 DEF Next, Settle, vars
  <2> DEFINE i == IdOf[c]
  <2>2. i \in Ids /\ \A j \in Ids : j # i => docs'[j] = docs[j]
    BY <1>1, <2>1, Frame DEF EngineInv
  <2>3. CASE docs'[i].status = "CONFIRMED"
    <3>1. docs'[i].tx \in Executes /\ Sent(docs'[i].tx) /\ IdOf[docs'[i].tx] = i
          /\ chain[docs'[i].tx] = "success"
      BY <1>1, <2>2, <2>3 DEF EngineInv, RecordIsTrue, TypeOK, Doc, Sent
    <3>2. SentOf[i] # {} /\ SentOf[i] \subseteq Mined
      BY <1>1, <2>2, <3>1 DEF SentOf, Mined, OneSent
    <3>3. Confirmed' = Confirmed \cup {i}
      BY <2>2, <2>3 DEF Confirmed
    <3>4. Promise!Confirm(i)
      BY <1>2, <3>2, <3>3 DEF Promise!Confirm, SentOf, Mined, Confirmed
    <3> QED
      BY <2>2, <3>4 DEF Promise!Next
  <2>4. CASE docs'[i].status # "CONFIRMED"
    <3>1. Confirmed' = Confirmed \ {i}
      BY <2>2, <2>4 DEF Confirmed
    <3>2. Promise!Reopen(i)
      BY <1>2, <3>1 DEF Promise!Reopen, SentOf, Mined, Confirmed
    <3> QED
      BY <2>2, <3>2 DEF Promise!Next
  <2> QED
    BY <2>3, <2>4
<1> QED
  BY <1>3, <1>4

LEMMA PromiseInit == Init => Promise!Init
<1> SUFFICES ASSUME Init PROVE Promise!Init
  OBVIOUS
<1>1. /\ \A c \in Executes : chain[c] = "none"
      /\ \A i \in Ids : docs[i].status = "ABSENT"
  BY DEF Init, NoDoc, Fresh
<1>2. SentOf = [i \in Ids |-> {}] /\ Mined = {} /\ Confirmed = {}
  BY <1>1 DEF SentOf, Mined, Confirmed, Sent
<1> QED
  BY <1>2 DEF Promise!Init, SentOf, Mined, Confirmed

-----------------------------------------------------------------------------
(* Theorems, for calls of execute that do not overlap                      *)

\* FailedIsDead: a record that reads FAILED over a live transaction is of a call
\* that saw an error after its broadcast, through every crash, retry and late
\* reconcile.
THEOREM FailedIsDeadHolds ==
  ASSUME Overlap = FALSE PROVE Spec => []FailedIsDead
<1>1. EngineInv /\ [Next]_vars => EngineInv'
  BY EngineStep
<1>2. EngineInv => FailedIsDead
  BY DEF EngineInv
<1> QED
  BY <1>1, <1>2, EngineInit, PTL DEF Spec

\* HashKept: no step replaces a recorded hash, and only the catch of the call
\* that sent it takes it away.
THEOREM HashKeptHolds ==
  ASSUME Overlap = FALSE PROVE Spec => HashKept
<1> DEFINE Kept == \A i \in Ids : LET tx == docs[i].tx IN
        tx # NoTx => docs'[i].tx = tx \/ (docs'[i].tx = NoTx /\ tx \in threw)
<1>1. EngineInv /\ [Next]_vars => EngineInv'
  BY EngineStep
<1>2. EngineInv /\ EngineInv' /\ [Next]_vars => [Kept]_vars
  BY HashStep
<1> QED
  BY <1>1, <1>2, EngineInit, PTL DEF Spec, HashKept

\* PromiseKept: the engine implements AtMostOnce, one broadcast per execution id
\* and CONFIRMED only for a transaction that succeeded.
THEOREM PromiseHolds ==
  ASSUME Overlap = FALSE PROVE Spec => PromiseKept
<1>1. EngineInv /\ [Next]_vars => EngineInv'
  BY EngineStep
<1>2. EngineInv /\ EngineInv' /\ [Next]_vars => [Promise!Next]_(Promise!vars)
  BY ChainIsPromised, RecordIsPromised
<1> QED
  BY <1>1, <1>2, EngineInit, PromiseInit, PTL DEF Spec, PromiseKept, Promise!Spec
=============================================================================
