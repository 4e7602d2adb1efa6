--------------------------- MODULE OwnerApiProofs ----------------------------
(***************************************************************************)
(* Theorems about OwnerApi for any set of requests and of configurations:  *)
(* its types, revocations that hold, the wallet whose key is kept and      *)
(* destroyed, and the session key that was granted what its record says.   *)
(***************************************************************************)
EXTENDS OwnerApi, TLAPS

-----------------------------------------------------------------------------
(* The inductive invariant                                                 *)

LifecycleKinds == {"activate", "pause", "revoke"}

ProvisionPhase == {"load", "save", "mirror", "bind"}
DeletePhase == {"lifecycle", "terminal", "destroy", "clear", "drop"}

\* Which requests are at which phase.
Placed ==
    \A q \in Requests :
        /\ pc[q] \in ProvisionPhase => kind[q] = "provision"
        /\ pc[q] \in DeletePhase => kind[q] = "delete"
        /\ pc[q] \in {"grant", "expire"} => kind[q] = "register"
        /\ pc[q] \in {"patch", "regrant", "rekey"} => kind[q] = "edit"

USE DEF ProvisionPhase, DeletePhase

\* The history has every two requests that are at one matter now.
Noticed == Crowded \subseteq overlapped

\* What was found revoked with nothing under way has no request under way that
\* could take it back: each of them refuses a revoked document.
SealedIsFinal ==
    /\ RevokeHolds
    /\ \A q \in Busy :
          /\ "agent" \in sealed => kind[q] \notin LifecycleKinds
          /\ "session" \in sealed => kind[q] # "register"
          /\ "permission" \in sealed => kind[q] # "activatePermission"

\* What a provision knows of the keystore when it is the only request on the
\* wallet, and none before it failed to read a key: a mirror's key, and so one
\* that it was given, is the document's or one that a delete destroyed.
KeyIsTrue ==
    /\ agent.wallet # None => agent.wallet \in {keystore} \cup destroyed
    /\ \A i \in Instances : mirror[i] # None => mirror[i] \in {keystore} \cup destroyed
    /\ \A q \in Requests :
          /\ pc[q] = "save" => keystore = None
          /\ pc[q] = "mirror" => copy[q].key = keystore
          /\ pc[q] = "bind" => copy[q].key \in {keystore} \cup destroyed

\* What a delete knows of it, when no part of a destruction failed.
DeleteIsTrue ==
    \A q \in Requests :
        /\ pc[q] \in {"clear", "drop"} => keystore = None
        /\ pc[q] = "drop" => mirror[copy[q].on] = None
        /\ pc[q] = "done" /\ kind[q] = "delete" =>
              keystore = None /\ mirror[copy[q].on] = None

\* A deleted agent has no request on its wallet under way, and a delete that ran
\* to its end has deleted it.
GoneIsGone ==
    /\ agent.status = "GONE" => \A q \in Busy : kind[q] \notin {"provision", "delete"}
    /\ \A q \in Requests : pc[q] = "done" /\ kind[q] = "delete" => agent.status = "GONE"

WalletIsTrue ==
    "wallet" \notin overlapped =>
        /\ "read" \notin failed => KeyIsTrue
        /\ "keystore" \notin failed => DeleteIsTrue
        /\ GoneIsGone

\* What a request on the session knows of it, when it is the only one and none
\* has failed: what its new key is granted is what the record says, or will.
SessionIsTrue ==
    /\ session.status = "ACTIVE" => session.key \in Keys
    /\ "session" \notin overlapped \cup failed =>
          /\ \A q \in Requests :
                /\ pc[q] \in {"grant", "regrant"} => copy[q].config = session.config
                /\ pc[q] = "write" /\ kind[q] = "register" => granted[q] = session.config
                /\ pc[q] = "patch" /\ ~copy[q].active => session.status # "ACTIVE"
                /\ pc[q] = "rekey" => granted[q] = session.config
    /\ KeyMatchesConfig

ApiInv ==
    /\ TypeOK
    /\ Placed
    /\ Noticed
    /\ SealedIsFinal
    /\ WalletIsTrue
    /\ SessionIsTrue

-----------------------------------------------------------------------------
(* Kinds and matters                                                       *)

LEMMA LifecycleDomain == DOMAIN Lifecycle = LifecycleKinds
  BY DEF Lifecycle, LifecycleKinds

LEMMA LifecycleToType ==
  ASSUME NEW k \in LifecycleKinds
  PROVE  LifecycleTo[k] \in {"ACTIVE", "PAUSED", "REVOKED"}
  BY DEF LifecycleTo, LifecycleKinds

LEMMA AllKinds ==
  Kinds = LifecycleKinds \cup
            {"provision", "delete", "register", "edit", "revokeSession",
             "activatePermission", "revokePermission"}
  BY LifecycleDomain DEF Kinds

LEMMA MatterOf ==
  ASSUME NEW k \in Kinds
  PROVE  /\ Matter(k) = "agent" <=> k \in LifecycleKinds
         /\ Matter(k) = "wallet" <=> k \in {"provision", "delete"}
         /\ Matter(k) = "session" <=> k \in {"register", "edit", "revokeSession"}
         /\ Matter(k) = "permission" <=> k \in {"activatePermission", "revokePermission"}
<1>1. CASE k \in LifecycleKinds
  <2>1. Matter(k) = "agent"
    BY <1>1, LifecycleDomain DEF Matter, LifecycleKinds
  <2> QED
    BY <1>1, <2>1 DEF LifecycleKinds
<1>2. CASE k \in {"provision", "delete"}
  <2>1. Matter(k) = "wallet"
    BY <1>2, LifecycleDomain DEF Matter, LifecycleKinds
  <2> QED
    BY <1>2, <2>1 DEF LifecycleKinds
<1>3. CASE k \in {"register", "edit", "revokeSession"}
  <2>1. Matter(k) = "session"
    BY <1>3, LifecycleDomain DEF Matter, LifecycleKinds
  <2> QED
    BY <1>3, <2>1 DEF LifecycleKinds
<1>4. CASE k \in {"activatePermission", "revokePermission"}
  <2>1. Matter(k) = "permission"
    BY <1>4, LifecycleDomain DEF Matter, LifecycleKinds
  <2> QED
    BY <1>4, <2>1 DEF LifecycleKinds
<1> QED
  BY <1>1, <1>2, <1>3, <1>4, AllKinds

-----------------------------------------------------------------------------
(* Type correctness                                                        *)

LEMMA NoCopyType ==
  /\ FirstConfig \in Configs
  /\ NoCopy \in Copy /\ \A i \in Instances : On(i) \in Copy
<1>1. FirstConfig \in Configs
  BY ApiAssumption DEF FirstConfig
<1> QED
  BY <1>1, ApiAssumption DEF NoCopy, Copy, On

LEMMA InitType == Init => TypeOK /\ Placed
<1> SUFFICES ASSUME Init PROVE TypeOK /\ Placed
  OBVIOUS
<1>1. agent \in Agent /\ keystore \in Keys \cup {None} /\ mirror \in [Instances -> Keys \cup {None}]
  BY DEF Init, Agent, Keys, NoMirror
<1>2. session \in Session /\ granted \in [Keys -> Configs]
  BY NoCopyType DEF Init, Session, Keys
<1>3. /\ permission \in Permission
      /\ pc \in [Requests -> Phase] /\ kind \in [Requests -> Kinds]
      /\ copy \in [Requests -> Copy]
      /\ \A q \in Requests : pc[q] = "start"
  BY NoCopyType, AllKinds DEF Init, Permission, Phase, LifecycleKinds
<1> QED
  BY <1>1, <1>2, <1>3 DEF Init, TypeOK, Placed

\* A request that comes in, and its place.
LEMMA BeginType ==
  ASSUME TypeOK, Placed, NEW q \in Requests, NEW k \in Kinds, NEW held \in Copy,
         NEW phase \in Phase, Begin(q, k, phase, held),
         /\ phase \in ProvisionPhase => k = "provision"
         /\ phase \in DeletePhase => k = "delete"
         /\ phase \in {"grant", "expire"} => k = "register"
         /\ phase \in {"patch", "regrant", "rekey"} => k = "edit"
  PROVE  /\ UNCHANGED <<docs, destroyed, failed>>
         /\ pc' \in [Requests -> Phase] /\ kind' \in [Requests -> Kinds]
         /\ copy' \in [Requests -> Copy]
         /\ Placed'
  BY DEF Begin, Move, TypeOK, Placed

\* The types but for the two histories every step extends.
HandlersTyped ==
    /\ agent' \in Agent /\ keystore' \in Keys \cup {None}
    /\ mirror' \in [Instances -> Keys \cup {None}]
    /\ session' \in Session /\ granted' \in [Keys -> Configs]
    /\ permission' \in Permission
    /\ pc' \in [Requests -> Phase] /\ kind' \in [Requests -> Kinds]
    /\ copy' \in [Requests -> Copy]
    /\ destroyed' \subseteq Keys
    /\ failed' \subseteq {"keystore", "read"} \cup {Matter(k) : k \in Kinds}
    /\ Placed'

LEMMA StepType ==
  ASSUME TypeOK, Placed, NEW q \in Requests, Step(q)
  PROVE  HandlersTyped
<1> USE ApiAssumption, LifecycleDomain, AllKinds
<1>1. ASSUME UNCHANGED <<docs, destroyed, failed>>,
             pc' \in [Requests -> Phase], kind' \in [Requests -> Kinds],
             copy' \in [Requests -> Copy], Placed'
      PROVE  HandlersTyped
  BY <1>1 DEF HandlersTyped, TypeOK, docs
<1>2. CASE BeginLifecycle(q)
  <2>1. PICK k \in LifecycleKinds : Begin(q, k, "write", NoCopy)
    BY <1>2 DEF BeginLifecycle
  <2> QED
    BY <1>1, <2>1, BeginType, NoCopyType DEF Phase
<1>3. CASE BeginProvision(q)
  <2>1. PICK i \in Instances : Begin(q, "provision", "load", On(i))
    BY <1>3 DEF BeginProvision
  <2> QED
    BY <1>1, <2>1, BeginType, NoCopyType DEF Phase
<1>4. CASE BeginDelete(q)
  <2>1. PICK i \in Instances, phase \in {"destroy", "lifecycle"} : Begin(q, "delete", phase, On(i))
    BY <1>4 DEF BeginDelete
  <2> QED
    BY <1>1, <2>1, BeginType, NoCopyType DEF Phase
<1>5. \A c \in Configs, b \in BOOLEAN : Held(c, b) \in Copy
  BY NoCopyType DEF Held, Copy, TypeOK, Session
<1>6. CASE BeginRegister(q)
  <2>1. PICK phase \in {"grant", "expire"} :
            Begin(q, "register", phase, Held(session.config, FALSE))
    BY <1>6 DEF BeginRegister
  <2>2. session.config \in Configs
    BY DEF TypeOK, Session
  <2>3. Held(session.config, FALSE) \in Copy
    BY <1>5, <2>2
  <2>4. phase \in Phase /\ "register" \in Kinds
    BY DEF Phase
  <2> QED
    BY <1>1, <2>1, <2>3, <2>4, BeginType
<1>7. CASE BeginEdit(q)
  <2>1. PICK c \in Configs : Begin(q, "edit", "patch", Held(c, session.status = "ACTIVE"))
    BY <1>7 DEF BeginEdit
  <2> DEFINE active == session.status = "ACTIVE"
  <2>2. active \in BOOLEAN
    OBVIOUS
  <2>3. Held(c, active) \in Copy
    BY <1>5, <2>2
  <2> QED
    BY <1>1, <2>1, <2>3, BeginType DEF Phase
<1>8. CASE BeginRevokeSession(q)
  BY <1>1, <1>8, BeginType, NoCopyType DEF BeginRevokeSession, Phase
<1>9. CASE BeginActivatePermission(q)
  BY <1>1, <1>9, BeginType, NoCopyType DEF BeginActivatePermission, Phase
<1>10. CASE BeginRevokePermission(q)
  BY <1>1, <1>10, BeginType, NoCopyType DEF BeginRevokePermission, Phase
<1>11. CASE LoadKeystore(q)
  <2>1. PICK key \in Loads(copy[q].on) :
            /\ Move(q, "load", IF key = None THEN "save" ELSE "bind")
            /\ copy' = [copy EXCEPT ![q].key = IF key = None THEN q ELSE key]
            /\ failed' = failed \cup IF key = None /\ keystore # None THEN {"read"} ELSE {}
            /\ UNCHANGED <<docs, kind, destroyed>>
    BY <1>11 DEF LoadKeystore
  <2>2. copy[q].on \in Instances
    BY DEF TypeOK, Copy
  <2>3. key \in Keys \cup {None}
    BY <2>1, <2>2 DEF Loads, TypeOK
  <2>4. [copy[q] EXCEPT !.key = IF key = None THEN q ELSE key] \in Copy
    BY <2>3 DEF TypeOK, Copy, Keys
  <2>5. copy' \in [Requests -> Copy]
    BY <2>1, <2>4 DEF TypeOK
  <2>6. pc' \in [Requests -> Phase] /\ Placed'
    BY <2>1 DEF Move, TypeOK, Phase, Placed
  <2>7. failed' \subseteq {"keystore", "read"} \cup {Matter(k) : k \in Kinds}
    BY <2>1 DEF TypeOK
  <2> QED
    BY <2>1, <2>5, <2>6, <2>7 DEF HandlersTyped, TypeOK, docs
<1>12. ASSUME Same, NEW to \in Phase \ {"start"}, \E from : Move(q, from, to), Placed'
       PROVE  /\ pc' \in [Requests -> Phase] /\ kind' \in [Requests -> Kinds]
              /\ copy' \in [Requests -> Copy] /\ destroyed' \subseteq Keys
              /\ failed' \subseteq {"keystore", "read"} \cup {Matter(k) : k \in Kinds} /\ Placed'
  BY <1>12 DEF Same, Move, TypeOK
<1>13. CASE WriteLifecycle(q) \/ BindWallet(q) \/ Drop(q) \/ Terminal(q)
  <2>1. agent' \in Agent
    <3>1. ASSUME NEW st \in {"ACTIVE", "PAUSED", "REVOKED"}
          PROVE  [agent EXCEPT !.status = st] \in Agent
      BY DEF TypeOK, Agent
    <3>2. [agent EXCEPT !.wallet = copy[q].key] \in Agent
      BY DEF TypeOK, Agent, Copy
    <3>3. CASE WriteLifecycle(q)
      BY <3>1, <3>3, LifecycleToType DEF WriteLifecycle
    <3>4. CASE BindWallet(q)
      BY <3>2, <3>4 DEF BindWallet
    <3>5. CASE Drop(q) \/ Terminal(q)
      BY <3>1, <3>5 DEF Drop, Terminal, TypeOK, Agent
    <3> QED
      BY <1>13, <3>3, <3>4, <3>5
  <2>2. /\ UNCHANGED <<keystore, mirror, session, granted, permission>> /\ Same
        /\ \E to \in {"done", "destroy"} : \E from : Move(q, from, to)
    BY <1>13 DEF WriteLifecycle, BindWallet, Drop, Terminal
  <2>3. Placed'
    BY <1>13 DEF WriteLifecycle, BindWallet, Drop, Terminal, Same, Move, Placed, TypeOK
  <2> QED
    BY <1>12, <2>1, <2>2, <2>3 DEF HandlersTyped, TypeOK, Phase
<1>14. CASE SaveKeystore(q) \/ SaveMirror(q)
  <2>1. copy[q].key \in Keys \cup {None}
    BY DEF TypeOK, Copy
  <2>2. Placed' /\ keystore' \in Keys \cup {None} /\ mirror' \in [Instances -> Keys \cup {None}]
    BY <1>14, <2>1 DEF SaveKeystore, SaveMirror, Same, Move, Placed, TypeOK
  <2>3. /\ UNCHANGED <<agent, session, granted, permission>> /\ Same
        /\ \E to \in {"mirror", "bind"} : \E from : Move(q, from, to)
    BY <1>14 DEF SaveKeystore, SaveMirror
  <2> QED
    BY <1>12, <2>2, <2>3 DEF HandlersTyped, TypeOK, Phase
<1>15. CASE RevokeFirst(q)
  <2>1. Placed'
    BY <1>15 DEF RevokeFirst, Same, Move, Placed, TypeOK
  <2> QED
    BY <1>12, <1>15, <2>1 DEF RevokeFirst, HandlersTyped, TypeOK, Phase, docs
<1>16. CASE DestroyKeystore(q) \/ ClearMirror(q)
  <2>1. Placed' /\ pc' \in [Requests -> Phase]
    BY <1>16 DEF DestroyKeystore, ClearMirror, Move, Placed, TypeOK, Phase
  <2>2. /\ keystore' \in Keys \cup {None} /\ destroyed' \subseteq Keys
        /\ mirror' \in [Instances -> Keys \cup {None}]
        /\ failed' \subseteq {"keystore", "read"} \cup {Matter(k) : k \in Kinds}
    BY <1>16 DEF DestroyKeystore, ClearMirror, TypeOK
  <2> QED
    BY <1>16, <2>1, <2>2 DEF DestroyKeystore, ClearMirror, HandlersTyped, TypeOK
<1>17. CASE Expire(q) \/ WriteRegistered(q) \/ PatchConfig(q) \/ Rekey(q) \/ WriteRevokedSession(q)
  <2>1. session' \in Session
    BY <1>17 DEF Expire, WriteRegistered, PatchConfig, Rekey, WriteRevokedSession, TypeOK,
                 Session, Copy, Keys
  <2>2. /\ UNCHANGED <<agent, keystore, mirror, granted, permission>> /\ Same
        /\ \E to \in {"done", "regrant"} : \E from : Move(q, from, to)
    BY <1>17 DEF Expire, WriteRegistered, PatchConfig, Rekey, WriteRevokedSession
  <2>3. Placed'
    BY <1>17 DEF Expire, WriteRegistered, PatchConfig, Rekey, WriteRevokedSession, Same, Move,
                 Placed, TypeOK
  <2> QED
    BY <1>12, <2>1, <2>2, <2>3 DEF HandlersTyped, TypeOK, Phase
<1>18. CASE Grant(q, "grant", "write") \/ Regrant(q)
  <2>1. granted' \in [Keys -> Configs]
    BY <1>18 DEF Grant, Regrant, TypeOK, Copy, Keys
  <2>2. /\ UNCHANGED <<agent, keystore, mirror, session, permission>> /\ Same
        /\ \E to \in {"write", "rekey"} : \E from : Move(q, from, to)
    BY <1>18 DEF Grant, Regrant
  <2>3. Placed'
    BY <1>18 DEF Grant, Regrant, Same, Move, Placed, TypeOK
  <2> QED
    BY <1>12, <2>1, <2>2, <2>3 DEF HandlersTyped, TypeOK, Phase
<1>19. CASE WritePermission(q)
  <2>1. Placed'
    BY <1>19 DEF WritePermission, Same, Move, Placed, TypeOK
  <2> QED
    BY <1>12, <1>19, <2>1 DEF WritePermission, HandlersTyped, TypeOK, Phase, Permission
<1>20. CASE Fail(q)
  <2>1. Placed' /\ pc' \in [Requests -> Phase]
    BY <1>20 DEF Fail, Placed, TypeOK, Phase
  <2>2. failed' \subseteq {"keystore", "read"} \cup {Matter(k) : k \in Kinds}
    BY <1>20 DEF Fail, TypeOK
  <2>3. copy' \in [Requests -> Copy]
    BY <1>20, NoCopyType DEF Fail, TypeOK
  <2> QED
    BY <1>20, <2>1, <2>2, <2>3 DEF Fail, HandlersTyped, TypeOK, docs
<1> QED
  BY <1>2, <1>3, <1>4, <1>6, <1>7, <1>8, <1>9, <1>10, <1>11, <1>13, <1>14, <1>15, <1>16,
     <1>17, <1>18, <1>19, <1>20 DEF Step

LEMMA TypeStep == TypeOK /\ Placed /\ [Next]_vars => TypeOK' /\ Placed'
<1> SUFFICES ASSUME TypeOK, Placed, [Next]_vars PROVE TypeOK' /\ Placed'
  OBVIOUS
<1>1. CASE UNCHANGED vars
  BY <1>1 DEF vars, docs, TypeOK, Placed
<1>2. CASE Next
  <2>1. HandlersTyped
    BY <1>2, StepType DEF Next
  <2>2. sealed' \subseteq {"agent", "session", "permission"}
    BY <1>2 DEF Next, TypeOK, Revoked
  <2>3. overlapped' \subseteq {Matter(k) : k \in Kinds}
    <3>1. Crowded' \subseteq {Matter(k) : k \in Kinds}
      BY <2>1 DEF Crowded, Busy, HandlersTyped
    <3> QED
      BY <1>2, <3>1 DEF Next, TypeOK
  <2> QED
    BY <2>1, <2>2, <2>3 DEF HandlersTyped, TypeOK
<1> QED
  BY <1>1, <1>2

\* Every reachable state has its types: TypeOK.
THEOREM ApiTypeCorrect == Spec => []TypeOK
<1> QED
  BY InitType, TypeStep, PTL DEF Spec

-----------------------------------------------------------------------------
(* Steps, seen from the documents and from the other requests              *)

\* Which handlers write a document.
LEMMA Writes ==
  ASSUME NEW q \in Requests, Step(q)
  PROVE  /\ agent' = agent \/ WriteLifecycle(q) \/ BindWallet(q) \/ Terminal(q) \/ Drop(q)
         /\ keystore' = keystore \/ SaveKeystore(q) \/ DestroyKeystore(q)
         /\ mirror' = mirror \/ SaveMirror(q) \/ ClearMirror(q)
         /\ session' = session \/ Expire(q) \/ WriteRegistered(q) \/ PatchConfig(q)
                               \/ Rekey(q) \/ WriteRevokedSession(q)
         /\ granted' = granted \/ Grant(q, "grant", "write") \/ Regrant(q)
         /\ permission' = permission \/ WritePermission(q)
<1>1. CASE BeginLifecycle(q) \/ BeginProvision(q) \/ BeginDelete(q) \/ BeginRegister(q)
           \/ BeginEdit(q) \/ BeginRevokeSession(q) \/ BeginActivatePermission(q)
           \/ BeginRevokePermission(q)
  <2>1. UNCHANGED docs
    BY <1>1 DEF BeginLifecycle, BeginProvision, BeginDelete, BeginRegister, BeginEdit,
                BeginRevokeSession, BeginActivatePermission, BeginRevokePermission, Begin
  <2> QED
    BY <2>1 DEF docs
<1>2. CASE LoadKeystore(q) \/ RevokeFirst(q) \/ Fail(q)
  <2>1. UNCHANGED docs
    BY <1>2 DEF LoadKeystore, RevokeFirst, Fail
  <2> QED
    BY <2>1 DEF docs
<1>3. CASE WriteLifecycle(q) \/ BindWallet(q) \/ Terminal(q) \/ Drop(q) \/ SaveKeystore(q)
           \/ SaveMirror(q) \/ DestroyKeystore(q) \/ ClearMirror(q)
  BY <1>3 DEF WriteLifecycle, BindWallet, Terminal, Drop, SaveKeystore, SaveMirror,
              DestroyKeystore, ClearMirror
<1>4. CASE Expire(q) \/ Grant(q, "grant", "write") \/ WriteRegistered(q) \/ PatchConfig(q)
           \/ Regrant(q) \/ Rekey(q) \/ WriteRevokedSession(q) \/ WritePermission(q)
  BY <1>4 DEF Expire, Grant, WriteRegistered, PatchConfig, Regrant, Rekey,
              WriteRevokedSession, WritePermission
<1> QED
  BY <1>1, <1>2, <1>3, <1>4 DEF Step

\* A request that comes in: what it has found, and where it goes.
LEMMA Comes ==
  ASSUME TypeOK, NEW q \in Requests, Step(q), pc[q] = "start"
  PROVE  /\ UNCHANGED <<docs, destroyed, failed>>
         /\ \/ /\ kind'[q] \in LifecycleKinds /\ pc'[q] = "write"
               /\ agent.status \notin {"REVOKED", "GONE"}
            \/ /\ kind'[q] = "provision" /\ pc'[q] = "load" /\ agent.status # "GONE"
            \/ /\ kind'[q] = "delete" /\ pc'[q] \in {"lifecycle", "destroy"}
               /\ agent.status # "GONE"
            \/ /\ kind'[q] = "register" /\ pc'[q] \in {"grant", "expire"}
               /\ session.status = "PENDING" /\ copy'[q].config = session.config
            \/ /\ kind'[q] = "edit" /\ pc'[q] = "patch"
               /\ copy'[q].active <=> session.status = "ACTIVE"
            \/ kind'[q] \in {"revokeSession", "revokePermission"} /\ pc'[q] = "write"
            \/ /\ kind'[q] = "activatePermission" /\ pc'[q] = "write"
               /\ permission = "PENDING"
<1> USE LifecycleDomain DEF TypeOK, Begin, Move
<1>1. CASE BeginLifecycle(q)
  <2>1. PICK k \in LifecycleKinds : agent.status \in Lifecycle[k] /\ Begin(q, k, "write", NoCopy)
    BY <1>1 DEF BeginLifecycle
  <2>2. agent.status \notin {"REVOKED", "GONE"}
    BY <2>1 DEF Lifecycle, LifecycleKinds
  <2> QED
    BY <2>1, <2>2
<1>2. CASE BeginProvision(q) \/ BeginDelete(q)
  BY <1>2 DEF BeginProvision, BeginDelete
<1>3. CASE BeginRegister(q)
  BY <1>3 DEF BeginRegister, Held, NoCopy
<1>4. CASE BeginEdit(q)
  <2>1. PICK c \in Configs : Begin(q, "edit", "patch", Held(c, session.status = "ACTIVE"))
    BY <1>4 DEF BeginEdit
  <2>2. Held(c, session.status = "ACTIVE").active <=> session.status = "ACTIVE"
    BY DEF Held, NoCopy
  <2>3. copy'[q] = Held(c, session.status = "ACTIVE")
    BY <2>1
  <2>4. copy'[q].active <=> session.status = "ACTIVE"
    BY <2>2, <2>3
  <2> QED
    BY <2>1, <2>4
<1>5. CASE BeginRevokeSession(q) \/ BeginActivatePermission(q) \/ BeginRevokePermission(q)
  BY <1>5 DEF BeginRevokeSession, BeginActivatePermission, BeginRevokePermission
<1> QED
  BY <1>1, <1>2, <1>3, <1>4, <1>5
     DEF Step, WriteLifecycle, LoadKeystore, SaveKeystore, SaveMirror, BindWallet, RevokeFirst, Terminal,
         DestroyKeystore, ClearMirror, Drop, Expire, Grant, WriteRegistered, PatchConfig, Regrant, Rekey,
         WriteRevokedSession, WritePermission, Fail, Busy

\* A request under way keeps its kind, and a step leaves the other requests alone.
LEMMA Frame ==
  ASSUME TypeOK, NEW q \in Requests, Step(q)
  PROVE  /\ \A p \in Requests : p # q => pc'[p] = pc[p] /\ kind'[p] = kind[p] /\ copy'[p] = copy[p]
         /\ pc[q] # "start" => kind' = kind /\ q \in Busy
         /\ pc'[q] # "start"
<1> USE DEF TypeOK, Move, Busy
<1>1. CASE BeginLifecycle(q) \/ BeginProvision(q) \/ BeginDelete(q) \/ BeginRegister(q)
           \/ BeginEdit(q) \/ BeginRevokeSession(q) \/ BeginActivatePermission(q)
           \/ BeginRevokePermission(q)
  <2>1. PICK k, phase, held : Begin(q, k, phase, held)
    BY <1>1 DEF BeginLifecycle, BeginProvision, BeginDelete, BeginRegister, BeginEdit,
                BeginRevokeSession, BeginActivatePermission, BeginRevokePermission
  <2>2. pc[q] = "start"
    BY <2>1 DEF Begin
  <2>3. pc'[q] # "start"
    BY <2>2, Comes
  <2> QED
    BY <2>1, <2>2, <2>3 DEF Begin
<1>2. CASE LoadKeystore(q) \/ DestroyKeystore(q) \/ ClearMirror(q) \/ Fail(q)
  BY <1>2 DEF LoadKeystore, DestroyKeystore, ClearMirror, Fail
<1>3. CASE WriteLifecycle(q) \/ BindWallet(q) \/ Terminal(q) \/ Drop(q) \/ SaveKeystore(q)
           \/ SaveMirror(q) \/ RevokeFirst(q)
  BY <1>3 DEF WriteLifecycle, BindWallet, Terminal, Drop, SaveKeystore, SaveMirror, RevokeFirst,
              Same
<1>4. CASE Expire(q) \/ Grant(q, "grant", "write") \/ WriteRegistered(q) \/ PatchConfig(q)
           \/ Regrant(q) \/ Rekey(q) \/ WriteRevokedSession(q) \/ WritePermission(q)
  BY <1>4 DEF Expire, Grant, WriteRegistered, PatchConfig, Regrant, Rekey,
              WriteRevokedSession, WritePermission, Same
<1> QED
  BY <1>1, <1>2, <1>3, <1>4 DEF Step

\* Two requests at one matter are noticed.
LEMMA Sole ==
  ASSUME Noticed, NEW p \in Busy, NEW q \in Busy, Matter(kind[p]) = Matter(kind[q]),
         Matter(kind[q]) \notin overlapped
  PROVE  p = q
  BY DEF Noticed, Crowded

LEMMA NoticedStep ==
  ASSUME Noticed, [Next]_vars
  PROVE  Noticed'
<1>1. CASE Next
  BY <1>1 DEF Next, Noticed
<1>2. CASE UNCHANGED vars
  <2>1. Busy' = Busy
    BY <1>2 DEF vars, Busy
  <2>2. Crowded' = Crowded
    BY <1>2, <2>1 DEF vars, Crowded
  <2> QED
    BY <1>2, <2>2 DEF vars, Noticed
<1> QED
  BY <1>1, <1>2

-----------------------------------------------------------------------------
(* Revocations                                                             *)

\* The histories of a step.
LEMMA Records ==
  ASSUME TypeOK, NEW q \in Requests, Step(q), sealed' = sealed \cup (IF Busy' = {} THEN Revoked' ELSE {})
  PROVE  /\ \A p \in Busy' : p \in Busy \/ p = q
         /\ sealed \subseteq sealed'
         /\ "agent" \in sealed' /\ "agent" \notin sealed =>
                Busy' = {} /\ agent'.status = "REVOKED"
         /\ "session" \in sealed' /\ "session" \notin sealed =>
                Busy' = {} /\ session'.status = "REVOKED"
         /\ "permission" \in sealed' /\ "permission" \notin sealed =>
                Busy' = {} /\ permission' = "REVOKED"
<1>1. \A p \in Busy' : p \in Busy \/ p = q
  BY Frame DEF Busy
<1> QED
  BY <1>1 DEF Revoked

LEMMA SealedStep ==
  ASSUME ApiInv, [Next]_vars
  PROVE  SealedIsFinal'
<1> USE LifecycleDomain
<1>1. CASE UNCHANGED vars
  <2>1. Busy' = Busy
    BY <1>1 DEF vars, Busy
  <2> QED
    BY <1>1, <2>1 DEF vars, docs, ApiInv, SealedIsFinal, RevokeHolds
<1>2. CASE Next
  <2>1. PICK q \in Requests : Step(q)
    BY <1>2 DEF Next
  <2>2. TypeOK /\ Placed /\ SealedIsFinal
    BY DEF ApiInv
  <2>3. sealed' = sealed \cup (IF Busy' = {} THEN Revoked' ELSE {})
    BY <1>2 DEF Next
  <2>4. ASSUME "agent" \in sealed
        PROVE  agent'.status \in {"REVOKED", "GONE"} /\ kind'[q] \notin LifecycleKinds
    <3>1. agent.status \in {"REVOKED", "GONE"}
      BY <2>2, <2>4 DEF SealedIsFinal, RevokeHolds
    <3>2. kind'[q] \notin LifecycleKinds
      <4>1. CASE pc[q] = "start"
        BY <2>1, <2>2, <3>1, <4>1, Comes DEF LifecycleKinds
      <4>2. CASE pc[q] # "start"
        BY <2>1, <2>2, <2>4, <4>2, Frame DEF SealedIsFinal
      <4> QED
        BY <4>1, <4>2
    <3>3. ~WriteLifecycle(q)
      BY <2>2, <2>4, LifecycleDomain DEF WriteLifecycle, Move, SealedIsFinal, Busy
    <3>4. BindWallet(q) \/ Terminal(q) \/ Drop(q) => agent'.status \in {"REVOKED", "GONE"}
      BY <2>2, <3>1 DEF BindWallet, Terminal, Drop, TypeOK, Agent
    <3> QED
      BY <2>1, <3>1, <3>2, <3>3, <3>4, Writes
  <2>5. ASSUME "session" \in sealed
        PROVE  session'.status = "REVOKED" /\ kind'[q] # "register"
    <3>1. session.status = "REVOKED"
      BY <2>2, <2>5 DEF SealedIsFinal, RevokeHolds
    <3>2. kind'[q] # "register"
      <4>1. CASE pc[q] = "start"
        BY <2>1, <2>2, <3>1, <4>1, Comes DEF LifecycleKinds
      <4>2. CASE pc[q] # "start"
        BY <2>1, <2>2, <2>5, <4>2, Frame DEF SealedIsFinal
      <4> QED
        BY <4>1, <4>2
    <3>3. ~(WriteRegistered(q) \/ Expire(q))
      BY <2>2, <2>5 DEF WriteRegistered, Expire, Is, Move, SealedIsFinal, Busy, Placed
    <3>4. PatchConfig(q) \/ Rekey(q) \/ WriteRevokedSession(q) => session'.status = "REVOKED"
      BY <2>2, <3>1 DEF PatchConfig, Rekey, WriteRevokedSession, TypeOK, Session
    <3> QED
      BY <2>1, <3>1, <3>2, <3>3, <3>4, Writes
  <2>6. ASSUME "permission" \in sealed
        PROVE  permission' = "REVOKED" /\ kind'[q] # "activatePermission"
    <3>1. permission = "REVOKED"
      BY <2>2, <2>6 DEF SealedIsFinal, RevokeHolds
    <3>2. kind'[q] # "activatePermission"
      <4>1. CASE pc[q] = "start"
        BY <2>1, <2>2, <3>1, <4>1, Comes DEF LifecycleKinds
      <4>2. CASE pc[q] # "start"
        BY <2>1, <2>2, <2>6, <4>2, Frame DEF SealedIsFinal
      <4> QED
        BY <4>1, <4>2
    <3>3. WritePermission(q) => permission' = "REVOKED"
      BY <2>2, <2>6 DEF WritePermission, Is, Move, SealedIsFinal, Busy
    <3> QED
      BY <2>1, <3>1, <3>2, <3>3, Writes
  <2>7. RevokeHolds'
    BY <2>1, <2>2, <2>3, <2>4, <2>5, <2>6, Records DEF RevokeHolds
  <2>8. ASSUME NEW p \in Busy'
        PROVE  /\ "agent" \in sealed' => kind'[p] \notin LifecycleKinds
               /\ "session" \in sealed' => kind'[p] # "register"
               /\ "permission" \in sealed' => kind'[p] # "activatePermission"
    <3>1. /\ p \in Busy \/ p = q
          /\ sealed' = sealed
      BY <2>1, <2>2, <2>3, <2>8, Records
    <3>2. CASE p = q
      BY <3>1, <3>2, <2>4, <2>5, <2>6
    <3>3. CASE p # q
      <4>1. p \in Busy /\ kind'[p] = kind[p]
        BY <2>1, <2>2, <3>1, <3>3, Frame DEF Busy
      <4> QED
        BY <2>2, <3>1, <4>1 DEF SealedIsFinal
    <3> QED
      BY <3>2, <3>3
  <2> QED
    BY <2>7, <2>8 DEF SealedIsFinal
<1> QED
  BY <1>1, <1>2

-----------------------------------------------------------------------------
(* The wallet                                                              *)

\* The history of failures only grows.
LEMMA Fails ==
  ASSUME NEW q \in Requests, Step(q)
  PROVE  failed \subseteq failed'
<1>1. CASE LoadKeystore(q) \/ DestroyKeystore(q) \/ ClearMirror(q) \/ Fail(q)
  BY <1>1 DEF LoadKeystore, DestroyKeystore, ClearMirror, Fail
<1>2. CASE ~(LoadKeystore(q) \/ DestroyKeystore(q) \/ ClearMirror(q) \/ Fail(q))
  BY <1>2
     DEF Step, BeginLifecycle, BeginProvision, BeginDelete, BeginRegister, BeginEdit,
         BeginRevokeSession, BeginActivatePermission, BeginRevokePermission, Begin,
         WriteLifecycle, SaveKeystore, SaveMirror, BindWallet, RevokeFirst, Terminal, Drop,
         Expire, Grant, WriteRegistered, PatchConfig, Regrant, Rekey, WriteRevokedSession,
         WritePermission, Same
<1> QED
  BY <1>1, <1>2

LEMMA WalletStep ==
  ASSUME ApiInv, [Next]_vars
  PROVE  WalletIsTrue'
<1>1. CASE UNCHANGED vars
  <2>1. Busy' = Busy
    BY <1>1 DEF vars, Busy
  <2> QED
    BY <1>1, <2>1
       DEF vars, docs, ApiInv, WalletIsTrue, KeyIsTrue, DeleteIsTrue, GoneIsGone
<1>2. CASE Next
  <2> SUFFICES ASSUME "wallet" \notin overlapped'
               PROVE  WalletIsTrue'
    BY DEF WalletIsTrue
  <2>1. PICK q \in Requests : Step(q)
    BY <1>2 DEF Next
  <2>2. TypeOK /\ Placed /\ Noticed /\ TypeOK' /\ Placed' /\ Noticed'
    BY TypeStep, NoticedStep DEF ApiInv
  <2>3. "wallet" \notin overlapped
    BY <1>2 DEF Next
  <2> DEFINE OnWallet(p) == kind[p] \in {"provision", "delete"}
  <2>4. /\ \A p \in Busy : OnWallet(p) <=> Matter(kind[p]) = "wallet"
        /\ \A p \in Busy' : OnWallet(p)' <=> Matter(kind'[p]) = "wallet"
    BY <2>2, MatterOf DEF TypeOK, Busy
  <2>5. \A p, r \in Busy : OnWallet(p) /\ OnWallet(r) => p = r
    BY <2>2, <2>3, <2>4, Sole
  <2>6. \A p, r \in Busy' : OnWallet(p)' /\ OnWallet(r)' => p = r
    <3>1. ASSUME Noticed', NEW p \in Busy', NEW r \in Busy',
                 Matter(kind'[p]) = Matter(kind'[r]), Matter(kind'[r]) \notin overlapped'
          PROVE  p = r
      BY <3>1 DEF Noticed, Crowded
    <3> QED
      BY <2>2, <2>4, <3>1
  <2>7. WalletIsTrue
    BY DEF ApiInv
  <2>8. \A p \in Requests :
            pc'[p] \in ProvisionPhase \cup DeletePhase =>
                p \in Busy' /\ OnWallet(p)'
    BY <2>2 DEF Placed, Busy
  <2>9. \A p \in Requests :
            pc[p] \in ProvisionPhase \cup DeletePhase =>
                p \in Busy /\ OnWallet(p)
    BY <2>2 DEF Placed, Busy
  <2> USE <2>1, <2>2, <2>3
  <2>10. CASE pc[q] = "start"
    <3>1. /\ UNCHANGED <<agent, keystore, mirror, destroyed, failed>>
          /\ pc'[q] \notin {"save", "mirror", "bind", "clear", "drop", "done"}
          /\ agent.status = "GONE" => kind'[q] \notin {"provision", "delete"}
      BY <2>10, Comes DEF docs, LifecycleKinds
    <3>2. \A r \in Requests : r # q =>
              pc'[r] = pc[r] /\ kind'[r] = kind[r] /\ copy'[r] = copy[r]
      BY Frame
    <3>3. KeyIsTrue => KeyIsTrue'
      BY <3>1, <3>2 DEF KeyIsTrue
    <3>4. DeleteIsTrue => DeleteIsTrue'
      BY <3>1, <3>2 DEF DeleteIsTrue
    <3>5. GoneIsGone'
      <4>1. GoneIsGone
        BY <2>7 DEF WalletIsTrue
      <4>2. ASSUME agent.status = "GONE", NEW r \in Busy'
            PROVE  kind'[r] \notin {"provision", "delete"}
        BY <3>1, <3>2, <4>1, <4>2 DEF GoneIsGone, Busy
      <4> QED
        BY <3>1, <3>2, <4>1, <4>2 DEF GoneIsGone
    <3> QED
      BY <2>7, <3>1, <3>3, <3>4, <3>5 DEF WalletIsTrue
  <2> SUFFICES ASSUME pc[q] # "start" PROVE WalletIsTrue'
    BY <2>10
  <2>11. /\ kind' = kind /\ q \in Busy
         /\ \A r \in Busy' : r \in Busy
         /\ \A r \in Requests : r # q => pc'[r] = pc[r] /\ copy'[r] = copy[r]
         /\ failed \subseteq failed'
    BY Frame, Fails DEF Busy
  <2> USE <2>11
  \* A step that leaves the keys alone.
  <2>12. CASE /\ UNCHANGED <<keystore, mirror, destroyed>>
              /\ agent'.wallet = agent.wallet
              /\ agent'.status = "GONE" <=> agent.status = "GONE"
              /\ pc'[q] \notin {"save", "mirror", "bind", "clear", "drop"}
              /\ pc'[q] = "done" => kind[q] # "delete"
    <3>1. KeyIsTrue => KeyIsTrue'
      BY <2>12 DEF KeyIsTrue
    <3>2. DeleteIsTrue => DeleteIsTrue'
      BY <2>12 DEF DeleteIsTrue
    <3>3. GoneIsGone => GoneIsGone'
      BY <2>12 DEF GoneIsGone
    <3> QED
      BY <2>7, <3>1, <3>2, <3>3 DEF WalletIsTrue
  \* A step of a provision or a delete, which is the only one.
  <2>13. ASSUME OnWallet(q)
         PROVE  /\ agent.status # "GONE"
                /\ \A r \in Requests : ~(pc[r] = "done" /\ kind[r] = "delete")
                /\ \A r \in Requests : r # q => pc'[r] \notin ProvisionPhase \cup DeletePhase
    <3>1. GoneIsGone
      BY <2>7 DEF WalletIsTrue
    <3>2. agent.status # "GONE"
      BY <2>13, <3>1 DEF GoneIsGone
    <3>3. \A r \in Requests : r # q => pc[r] \notin ProvisionPhase \cup DeletePhase
      BY <2>5, <2>9, <2>13
    <3> QED
      BY <3>1, <3>2, <3>3 DEF GoneIsGone
  <2>14. ASSUME OnWallet(q), agent'.status # "GONE", pc'[q] # "done"
         PROVE  GoneIsGone'
    BY <2>13, <2>14 DEF GoneIsGone
  <2>15. ASSUME OnWallet(q), pc'[q] \notin {"clear", "drop", "done"}
         PROVE  DeleteIsTrue'
    BY <2>13, <2>15 DEF DeleteIsTrue
  <2>16. CASE LoadKeystore(q)
    <3>1. OnWallet(q)
      BY <2>9, <2>16 DEF LoadKeystore, Move
    <3>2. PICK key \in Loads(copy[q].on) :
              /\ Move(q, "load", IF key = None THEN "save" ELSE "bind")
              /\ copy' = [copy EXCEPT ![q].key = IF key = None THEN q ELSE key]
              /\ failed' = failed \cup IF key = None /\ keystore # None THEN {"read"} ELSE {}
              /\ UNCHANGED <<docs, kind, destroyed>>
      BY <2>16 DEF LoadKeystore
    <3>3. /\ UNCHANGED <<agent, keystore, mirror, destroyed>>
          /\ pc'[q] = IF key = None THEN "save" ELSE "bind"
          /\ key # None => copy'[q].key = key
      BY <3>2 DEF docs, Move, TypeOK, Copy
    <3>4. ASSUME "read" \notin failed' PROVE KeyIsTrue'
      <4>1. KeyIsTrue /\ (key = None => keystore = None)
        BY <2>7, <3>2, <3>4 DEF WalletIsTrue
      <4>2. key # None => key \in {keystore} \cup destroyed
        <5>1. copy[q].on \in Instances
          BY DEF TypeOK, Copy
        <5> QED
          BY <3>2, <4>1, <5>1 DEF Loads, KeyIsTrue
      <4> QED
        BY <2>13, <3>1, <3>3, <4>1, <4>2 DEF KeyIsTrue
    <3> QED
      BY <2>13, <2>14, <2>15, <3>1, <3>3, <3>4 DEF WalletIsTrue
  <2>17. CASE SaveKeystore(q)
    <3>1. /\ UNCHANGED <<agent, mirror, destroyed, failed, copy>>
          /\ pc[q] = "save" /\ pc'[q] = "mirror" /\ keystore' = copy[q].key
      BY <2>17 DEF SaveKeystore, Same, Move, TypeOK
    <3>2. OnWallet(q)
      BY <2>9, <3>1
    <3>3. ASSUME "read" \notin failed' PROVE KeyIsTrue'
      <4>1. KeyIsTrue /\ keystore = None
        BY <2>7, <3>1, <3>3 DEF WalletIsTrue, KeyIsTrue
      <4>2. \A k : k # None /\ k \in {keystore} \cup destroyed => k \in destroyed
        BY <4>1
      <4> QED
        BY <2>13, <3>1, <3>2, <4>1, <4>2 DEF KeyIsTrue
    <3> QED
      BY <2>13, <2>14, <2>15, <3>1, <3>2, <3>3 DEF WalletIsTrue
  <2>18. CASE SaveMirror(q)
    <3>1. /\ UNCHANGED <<agent, keystore, destroyed, failed, copy>>
          /\ pc[q] = "mirror" /\ pc'[q] = "bind"
          /\ \A i \in Instances : mirror'[i] \in {mirror[i], copy[q].key}
      BY <2>18 DEF SaveMirror, Same, Move, TypeOK
    <3>2. OnWallet(q)
      BY <2>9, <3>1
    <3>3. ASSUME "read" \notin failed' PROVE KeyIsTrue'
      <4>1. KeyIsTrue /\ copy[q].key = keystore
        BY <2>7, <3>1, <3>3 DEF WalletIsTrue, KeyIsTrue
      <4> QED
        BY <2>13, <3>1, <3>2, <4>1 DEF KeyIsTrue
    <3> QED
      BY <2>13, <2>14, <2>15, <3>1, <3>2, <3>3 DEF WalletIsTrue
  <2>19. CASE BindWallet(q)
    <3>1. /\ UNCHANGED <<keystore, mirror, destroyed, failed, copy>>
          /\ pc[q] = "bind" /\ pc'[q] = "done"
          /\ agent'.wallet = copy[q].key /\ agent'.status = agent.status
      BY <2>19 DEF BindWallet, Same, Move, TypeOK, Agent
    <3>2. OnWallet(q) /\ kind[q] = "provision"
      BY <2>9, <3>1 DEF Placed
    <3>3. ASSUME "read" \notin failed' PROVE KeyIsTrue'
      <4>1. KeyIsTrue /\ copy[q].key \in {keystore} \cup destroyed
        BY <2>7, <3>1, <3>3 DEF WalletIsTrue, KeyIsTrue
      <4> QED
        BY <2>13, <3>1, <3>2, <4>1 DEF KeyIsTrue
    <3>4. DeleteIsTrue'
      BY <2>13, <3>1, <3>2 DEF DeleteIsTrue
    <3>5. GoneIsGone'
      BY <2>13, <3>1, <3>2 DEF GoneIsGone
    <3> QED
      BY <3>3, <3>4, <3>5 DEF WalletIsTrue
  <2>20. CASE DestroyKeystore(q)
    <3>1. /\ UNCHANGED <<agent, mirror, copy>> /\ pc[q] = "destroy"
          /\ \/ /\ pc'[q] = "clear" /\ keystore' = None /\ failed' = failed
                /\ destroyed' = destroyed \cup ({keystore} \ {None})
             \/ /\ pc'[q] = "drop" /\ "keystore" \in failed'
                /\ UNCHANGED <<keystore, destroyed>>
      BY <2>20 DEF DestroyKeystore, Move, TypeOK
    <3>2. OnWallet(q)
      BY <2>9, <3>1
    <3>3. ASSUME "read" \notin failed' PROVE KeyIsTrue'
      <4>1. KeyIsTrue
        BY <2>7, <3>3 DEF WalletIsTrue
      <4>2. \A k : k # None /\ k \in {keystore} \cup destroyed => k \in {keystore'} \cup destroyed'
        BY <3>1
      <4>3. \A r \in Requests : pc'[r] \notin {"save", "mirror", "bind"}
        BY <2>13, <3>1, <3>2
      <4> QED
        BY <3>1, <4>1, <4>2, <4>3 DEF KeyIsTrue
    <3>4. ASSUME "keystore" \notin failed' PROVE DeleteIsTrue'
      BY <2>13, <3>1, <3>2, <3>4 DEF DeleteIsTrue
    <3> QED
      BY <2>13, <2>14, <3>1, <3>2, <3>3, <3>4 DEF WalletIsTrue
  <2>21. CASE ClearMirror(q)
    <3>1. /\ UNCHANGED <<agent, keystore, destroyed, copy>>
          /\ pc[q] = "clear" /\ pc'[q] = "drop"
          /\ \A i \in Instances : mirror'[i] \in {mirror[i], None}
          /\ "keystore" \notin failed' => mirror'[copy[q].on] = None
      <4>1. copy[q].on \in Instances
        BY DEF TypeOK, Copy
      <4> QED
        BY <2>21, <4>1 DEF ClearMirror, Move, TypeOK
    <3>2. OnWallet(q)
      BY <2>9, <3>1
    <3>3. ASSUME "read" \notin failed' PROVE KeyIsTrue'
      <4>1. KeyIsTrue
        BY <2>7, <3>3 DEF WalletIsTrue
      <4> QED
        BY <2>13, <3>1, <3>2, <4>1 DEF KeyIsTrue
    <3>4. ASSUME "keystore" \notin failed' PROVE DeleteIsTrue'
      <4>1. keystore = None
        BY <2>7, <3>1, <3>4 DEF WalletIsTrue, DeleteIsTrue
      <4> QED
        BY <2>13, <3>1, <3>2, <3>4, <4>1 DEF DeleteIsTrue
    <3> QED
      BY <2>13, <2>14, <3>1, <3>2, <3>3, <3>4 DEF WalletIsTrue
  <2>22. CASE Drop(q)
    <3>1. /\ UNCHANGED <<keystore, mirror, destroyed, failed, copy>>
          /\ pc[q] = "drop" /\ pc'[q] = "done"
          /\ agent' = [status |-> "GONE", wallet |-> None]
      BY <2>22 DEF Drop, Same, Move, TypeOK
    <3>2. OnWallet(q)
      BY <2>9, <3>1
    <3>3. KeyIsTrue => KeyIsTrue'
      BY <3>1 DEF KeyIsTrue
    <3>4. DeleteIsTrue => DeleteIsTrue'
      BY <2>13, <3>1, <3>2 DEF DeleteIsTrue
    <3>5. GoneIsGone'
      <4>1. q \notin Busy'
        BY <3>1 DEF Busy
      <4>2. \A r \in Busy' : ~OnWallet(r)
        BY <2>5, <3>2, <4>1
      <4> QED
        BY <3>1, <4>2 DEF GoneIsGone
    <3> QED
      BY <2>7, <3>1, <3>3, <3>4, <3>5 DEF WalletIsTrue
  <2>23. CASE WriteLifecycle(q) \/ Terminal(q) \/ RevokeFirst(q)
    <3>1. WriteLifecycle(q) => LifecycleTo[kind[q]] # "GONE" /\ kind[q] # "delete"
      BY LifecycleToType, LifecycleDomain DEF WriteLifecycle, LifecycleKinds
    <3> QED
      BY <2>12, <2>23, <3>1
         DEF WriteLifecycle, Terminal, RevokeFirst, Same, Move, TypeOK, Agent, docs
  <2>24. CASE Fail(q)
    BY <2>12, <2>24 DEF Fail, TypeOK, docs
  <2>25. CASE Expire(q) \/ Grant(q, "grant", "write") \/ WriteRegistered(q) \/ PatchConfig(q)
              \/ Regrant(q) \/ Rekey(q) \/ WriteRevokedSession(q) \/ WritePermission(q)
    <3>1. kind[q] # "delete"
      BY <2>25 DEF Expire, Grant, WriteRegistered, PatchConfig, Regrant, Rekey,
                   WriteRevokedSession, WritePermission, Placed, Move, Is
    <3>2. /\ UNCHANGED <<agent, keystore, mirror>> /\ Same
          /\ pc'[q] \in {"done", "write", "regrant", "rekey"}
      BY <2>25 DEF Expire, Grant, WriteRegistered, PatchConfig, Regrant, Rekey,
                   WriteRevokedSession, WritePermission, Move, TypeOK
    <3> QED
      BY <2>12, <3>1, <3>2 DEF Same
  <2> QED
    BY <2>16, <2>17, <2>18, <2>19, <2>20, <2>21, <2>22, <2>23, <2>24, <2>25
       DEF Step, BeginLifecycle, BeginProvision, BeginDelete, BeginRegister, BeginEdit,
           BeginRevokeSession, BeginActivatePermission, BeginRevokePermission, Begin, Move
<1> QED
  BY <1>1, <1>2

-----------------------------------------------------------------------------
(* The session                                                             *)

SessionKinds == {"register", "edit", "revokeSession"}

LEMMA SessionStep ==
  ASSUME ApiInv, [Next]_vars
  PROVE  SessionIsTrue'
<1>1. CASE UNCHANGED vars
  <2>1. Busy' = Busy
    BY <1>1 DEF vars, Busy
  <2> QED
    BY <1>1, <2>1 DEF vars, docs, ApiInv, SessionIsTrue, KeyMatchesConfig
<1>2. CASE Next
  <2>1. PICK q \in Requests : Step(q)
    BY <1>2 DEF Next
  <2>2. TypeOK /\ Placed /\ Noticed /\ TypeOK' /\ Placed' /\ SessionIsTrue
    BY TypeStep DEF ApiInv
  <2> USE <2>1, <2>2
  <2>3. session'.status = "ACTIVE" => session'.key \in Keys
    <3>1. PatchConfig(q) => session'.status = session.status /\ session'.key = session.key
      BY DEF PatchConfig, TypeOK, Session
    <3>2. WriteRegistered(q) \/ Rekey(q) => session'.key \in Keys
      BY DEF WriteRegistered, Rekey, TypeOK, Session, Keys
    <3>3. Expire(q) \/ WriteRevokedSession(q) => session'.status # "ACTIVE"
      BY DEF Expire, WriteRevokedSession, TypeOK, Session
    <3> QED
      BY <3>1, <3>2, <3>3, Writes DEF SessionIsTrue
  <2> SUFFICES ASSUME "session" \notin overlapped' \cup failed'
               PROVE  SessionIsTrue'
    BY <2>3 DEF SessionIsTrue, KeyMatchesConfig
  <2> DEFINE OnSession(p) == kind[p] \in SessionKinds
  <2>4. \A k \in Kinds : Matter(k) = "session" <=> k \in SessionKinds
    BY MatterOf DEF SessionKinds
  <2>5. "session" \notin overlapped \cup failed
    <3>1. failed \subseteq failed'
      BY Fails
    <3> QED
      BY <1>2, <3>1 DEF Next
  <2>6. /\ \A p \in Requests :
              /\ pc[p] \in {"grant", "regrant"} => copy[p].config = session.config
              /\ pc[p] = "write" /\ kind[p] = "register" => granted[p] = session.config
              /\ pc[p] = "patch" /\ ~copy[p].active => session.status # "ACTIVE"
              /\ pc[p] = "rekey" => granted[p] = session.config
        /\ session.status = "ACTIVE" /\ (\A p \in Busy : ~OnSession(p)) =>
              granted[session.key] = session.config
    <3>1. \A p \in Busy : OnSession(p) <=> Matter(kind[p]) = "session"
      BY <2>4 DEF TypeOK, Busy
    <3>2. session.status = "ACTIVE" /\ (\A p \in Busy : ~OnSession(p)) =>
              granted[session.key] = session.config
      BY <2>5, <3>1 DEF SessionIsTrue, KeyMatchesConfig
    <3> QED
      BY <2>5, <3>2 DEF SessionIsTrue
  <2>7. \A p, r \in Busy : OnSession(p) /\ OnSession(r) => p = r
    BY <2>4, <2>5, Sole DEF TypeOK, Busy
  <2>8. \A p, r \in Busy' : OnSession(p)' /\ OnSession(r)' => p = r
    <3>1. Noticed'
      BY NoticedStep DEF ApiInv
    <3>2. \A p \in Busy' : OnSession(p)' <=> Matter(kind'[p]) = "session"
      BY <2>4 DEF TypeOK, Busy
    <3>3. ASSUME NEW p \in Busy', NEW r \in Busy',
                 Matter(kind'[p]) = Matter(kind'[r]), Matter(kind'[r]) \notin overlapped'
          PROVE  p = r
      BY <3>1, <3>3 DEF Noticed, Crowded
    <3> QED
      BY <3>2, <3>3
  \* What is to be shown of the session and of the requests on it.
  <2> DEFINE AtSession(p) == \/ pc[p] \in {"grant", "expire", "patch", "regrant", "rekey"}
                             \/ pc[p] = "write" /\ kind[p] = "register"
  <2>9. \A p \in Requests : /\ AtSession(p) => p \in Busy /\ OnSession(p)
                            /\ AtSession(p)' => p \in Busy' /\ OnSession(p)'
    BY DEF Placed, Busy, SessionKinds
  <2>10. SUFFICES
           /\ \A p \in Requests :
                 /\ pc'[p] \in {"grant", "regrant"} => copy'[p].config = session'.config
                 /\ pc'[p] = "write" /\ kind'[p] = "register" => granted'[p] = session'.config
                 /\ pc'[p] = "patch" /\ ~copy'[p].active => session'.status # "ACTIVE"
                 /\ pc'[p] = "rekey" => granted'[p] = session'.config
           /\ session'.status = "ACTIVE" /\ (\A p \in Busy' : ~OnSession(p)') =>
                 granted'[session'.key] = session'.config
    BY <2>3, <2>4, <2>9 DEF SessionIsTrue, KeyMatchesConfig, TypeOK, Busy, SessionKinds
  <2>11. CASE pc[q] = "start"
    <3>1. UNCHANGED <<session, granted>>
      BY <2>11, Comes DEF docs
    <3>2. /\ pc'[q] \notin {"regrant", "rekey"}
          /\ pc'[q] = "grant" => copy'[q].config = session.config
          /\ ~(pc'[q] = "write" /\ kind'[q] = "register")
          /\ pc'[q] = "patch" => (copy'[q].active <=> session.status = "ACTIVE")
      BY <2>11, Comes DEF LifecycleKinds
    <3>3. \A p \in Requests : p # q =>
              pc'[p] = pc[p] /\ kind'[p] = kind[p] /\ copy'[p] = copy[p]
      BY Frame
    <3>4. ASSUME \A p \in Busy' : ~OnSession(p)'
          PROVE  \A p \in Busy : ~OnSession(p)
      BY <2>11, <3>3, <3>4 DEF Busy
    <3> QED
      BY <2>6, <3>1, <3>2, <3>3, <3>4
  <2>12. CASE pc[q] # "start"
    <3>1. /\ kind' = kind /\ q \in Busy /\ pc'[q] # "start"
          /\ \A p \in Requests : p # q => pc'[p] = pc[p] /\ copy'[p] = copy[p]
      BY <2>12, Frame
    <3>2. CASE ~OnSession(q)
      <4>1. UNCHANGED <<session, granted>>
        BY <3>1, <3>2, Writes
           DEF Placed, Expire, WriteRegistered, PatchConfig, Rekey, WriteRevokedSession, Grant,
               Regrant, Is, Move, SessionKinds
      <4>2. \A p \in Busy : OnSession(p) => p \in Busy' /\ OnSession(p)'
        BY <3>1, <3>2 DEF Busy
      <4>3. ~AtSession(q)'
        BY <2>9, <3>1, <3>2
      <4> QED
        BY <2>6, <3>1, <4>1, <4>2, <4>3
    <3>3. CASE OnSession(q)
      <4>1. \A p \in Requests : p # q => ~AtSession(p) /\ ~AtSession(p)'
        BY <2>7, <2>9, <3>1, <3>3
      <4>2. SUFFICES
              /\ pc'[q] = "regrant" => copy'[q].config = session'.config
              /\ pc'[q] \notin {"grant", "patch"}
              /\ pc'[q] = "write" /\ kind'[q] = "register" => granted'[q] = session'.config
              /\ pc'[q] = "rekey" => granted'[q] = session'.config
              /\ session'.status = "ACTIVE" /\ pc'[q] \in {"done", "failed"} =>
                    granted'[session'.key] = session'.config
        BY <3>1, <3>3, <4>1 DEF Busy
      <4>3. CASE Expire(q) \/ WriteRevokedSession(q)
        <5>1. session'.status # "ACTIVE"
          BY <4>3 DEF Expire, WriteRevokedSession, TypeOK, Session
        <5>2. pc'[q] = "done"
          BY <4>3 DEF Expire, WriteRevokedSession, Move, TypeOK
        <5> QED
          BY <5>1, <5>2
      <4>4. CASE Grant(q, "grant", "write") \/ Regrant(q)
        <5>1. copy[q].config = session.config
          BY <2>6, <4>4 DEF Grant, Regrant, Move
        <5>2. granted'[q] = copy[q].config /\ session' = session /\ pc'[q] \in {"write", "rekey"}
          BY <4>4 DEF Grant, Regrant, Move, TypeOK, Keys
        <5> QED
          BY <5>1, <5>2
      <4>5. CASE WriteRegistered(q)
        <5>1. granted[q] = session.config
          BY <2>6, <4>5 DEF WriteRegistered, Is, Move
        <5>2. /\ granted' = granted /\ session'.key = q /\ session'.config = session.config
              /\ pc'[q] = "done"
          BY <4>5 DEF WriteRegistered, Move, TypeOK, Session
        <5> QED
          BY <5>1, <5>2
      <4>6. CASE PatchConfig(q)
        <5>1. ~copy[q].active => session.status # "ACTIVE"
          BY <2>6, <4>6 DEF PatchConfig, Move
        <5>2. /\ pc'[q] = IF copy[q].active THEN "regrant" ELSE "done"
              /\ copy' = copy /\ session'.config = copy[q].config
              /\ session'.status = session.status
          BY <4>6 DEF PatchConfig, Same, Move, TypeOK, Session
        <5> QED
          BY <5>1, <5>2
      <4>7. CASE Rekey(q)
        <5>1. granted[q] = session.config
          BY <2>6, <4>7 DEF Rekey, Move
        <5>2. /\ granted' = granted /\ session'.key = q /\ session'.config = session.config
              /\ pc'[q] = "done"
          BY <4>7 DEF Rekey, Move, TypeOK, Session
        <5> QED
          BY <5>1, <5>2
      <4>8. ~Fail(q)
        BY <2>4, <3>3 DEF Fail, TypeOK
      <4> QED
        BY <2>12, <3>3, <4>3, <4>4, <4>5, <4>6, <4>7, <4>8, LifecycleDomain
           DEF Step, BeginLifecycle, BeginProvision, BeginDelete, BeginRegister, BeginEdit,
               BeginRevokeSession, BeginActivatePermission, BeginRevokePermission, Begin, Move,
               WriteLifecycle, LoadKeystore, SaveKeystore, SaveMirror, BindWallet, RevokeFirst, Terminal,
               DestroyKeystore, ClearMirror, Drop, WritePermission, Placed, SessionKinds, LifecycleKinds
    <3> QED
      BY <3>2, <3>3
  <2> QED
    BY <2>11, <2>12
<1> QED
  BY <1>1, <1>2

-----------------------------------------------------------------------------
(* Theorems                                                                *)

LEMMA ApiInit == Init => ApiInv
<1> SUFFICES ASSUME Init PROVE ApiInv
  OBVIOUS
<1>1. TypeOK /\ Placed
  BY InitType
<1>2. (\A q \in Requests : pc[q] = "start") /\ Busy = {}
  BY DEF Init, Busy
<1>3. Noticed /\ SealedIsFinal
  BY <1>2 DEF Init, Noticed, Crowded, SealedIsFinal, RevokeHolds
<1>4. WalletIsTrue
  BY <1>2 DEF Init, WalletIsTrue, KeyIsTrue, DeleteIsTrue, GoneIsGone, NoMirror
<1>5. SessionIsTrue
  <2>1. session.status = "ACTIVE" => session.key = First /\ session.config = FirstConfig
    BY DEF Init
  <2>2. First \in Keys /\ granted = [k \in Keys |-> FirstConfig]
    BY DEF Init, Keys
  <2> QED
    BY <1>2, <2>1, <2>2 DEF SessionIsTrue, KeyMatchesConfig
<1> QED
  BY <1>1, <1>3, <1>4, <1>5 DEF ApiInv

LEMMA ApiStep == ApiInv /\ [Next]_vars => ApiInv'
<1> SUFFICES ASSUME ApiInv, [Next]_vars PROVE ApiInv'
  OBVIOUS
<1> QED
  BY TypeStep, NoticedStep, SealedStep, WalletStep, SessionStep DEF ApiInv

\* RevokeHolds: an agent, a session or a permission found revoked with no request
\* under way stays so, whatever requests come after.
THEOREM RevokeHoldsAlways == Spec => []RevokeHolds
<1>1. ApiInv => RevokeHolds
  BY DEF ApiInv, SealedIsFinal
<1> QED
  BY <1>1, ApiInit, ApiStep, PTL DEF Spec

\* KeyKept: the wallet bound to the agent is the one whose key the document
\* keeps, until a delete destroys it, when no two requests on the wallet have
\* overlapped and no provision has found neither the document's key nor a mirror's.
THEOREM KeyKeptAlways == Spec => []KeyKept
<1>1. ApiInv => KeyKept
  BY DEF ApiInv, WalletIsTrue, KeyIsTrue, KeyKept
<1> QED
  BY <1>1, ApiInit, ApiStep, PTL DEF Spec

\* KeyDestroyed: a delete that ran to its end has left no key in the document nor
\* on its own instance, when no request crossed it and no destruction failed.
THEOREM KeyDestroyedAlways == Spec => []KeyDestroyed
<1>1. ApiInv => KeyDestroyed
  BY DEF ApiInv, WalletIsTrue, DeleteIsTrue, KeyDestroyed, Is
<1> QED
  BY <1>1, ApiInit, ApiStep, PTL DEF Spec

\* KeyMatchesConfig: the key of an ACTIVE session was granted what its record
\* says, between requests that neither failed nor overlapped.
THEOREM KeyMatchesConfigAlways == Spec => []KeyMatchesConfig
<1>1. ApiInv => KeyMatchesConfig
  BY DEF ApiInv, SessionIsTrue
<1> QED
  BY <1>1, ApiInit, ApiStep, PTL DEF Spec
=============================================================================
