------------------------------ MODULE OwnerApi ------------------------------
(***************************************************************************)
(* The owner's requests on one agent, one session and one permission:      *)
(*   lifecycle, bindWallet, delete   apps/web/lib/agent-registry.ts        *)
(*   provisionAgentWallet            apps/web/lib/altana-signer.ts         *)
(*   the keystore                    apps/web/lib/altana/keystore.ts       *)
(*   sessions                        apps/web/lib/session-manager.ts       *)
(*   permissions                     apps/web/lib/permissions/...          *)
(* and the routes that call them.  A request is a process and an action    *)
(* what it does between two awaits: each reads a document, decides, and    *)
(* updates it blindly later.  A request that is refused leaves no trace    *)
(* and is not a step.                                                      *)
(***************************************************************************)
EXTENDS Naturals, FiniteSets

CONSTANTS
    Requests,   \* requests; one that makes a key gives it its own id
    First,      \* the key an agent or a session may start with
    None,       \* no key
    Instances,  \* the serverless instances that answer them
    Configs,    \* what a session allows (contracts, functions, caps, expiry)
    Together    \* bound: sets of kinds; requests of one behaviour are of one set

Keys == Requests \cup {First}

ASSUME ApiAssumption ==
    /\ First \notin Requests /\ None \notin Keys
    /\ Configs # {} /\ Instances # {}
    /\ IsFiniteSet(Requests)

VARIABLES
    agent,      \* agents/{id}: [status, wallet]
    keystore,   \* agent_keystores/{id}: the wallet whose key it holds
    mirror,     \* {store}/{id}/key.json on each instance, a copy of such a key
    session,    \* agent_sessions/{id}: [status, key, config]
    granted,    \* the chain: the configuration each session key was granted
    permission, \* agent_permissions/{id}.status
    pc, kind,   \* where a request is and what it asks
    copy,       \* what it has read or made
    sealed,     \* history: what was found revoked with no request under way
    overlapped, \* history: what two requests were working on at once
    destroyed,  \* history: the keys a delete destroyed
    failed      \* history: what a request threw or died on, half done

docs == <<agent, keystore, mirror, session, granted, permission>>
vars == <<docs, pc, kind, copy, sealed, overlapped, destroyed, failed>>

-----------------------------------------------------------------------------
Agent   == [status : {"DRAFT", "ACTIVE", "PAUSED", "EXPIRED", "ERROR", "REVOKED", "GONE"},
            wallet : Keys \cup {None}]
Session == [status : {"PENDING", "ACTIVE", "EXPIRED", "REVOKED"},
            key : Keys \cup {None}, config : Configs]
Permission == {"PENDING", "ACTIVE", "REVOKED"}

\* *Mutant*: a revoked agent may be activated.
LifecycleReopens == [activate |-> {"DRAFT", "PAUSED", "EXPIRED", "REVOKED"},
                     pause    |-> {"ACTIVE"},
                     revoke   |-> {"DRAFT", "ACTIVE", "PAUSED", "EXPIRED", "ERROR"}]

\* *Mutant*: a status the agent's schema does not have.
LifecycleToRaw == [activate |-> "ACTIVE", pause |-> "PAUSE", revoke |-> "REVOKED"]

\* TRANSITIONS: the statuses a lifecycle action starts from, and its end.
Lifecycle == [activate |-> {"DRAFT", "PAUSED", "EXPIRED"},
              pause    |-> {"ACTIVE"},
              revoke   |-> {"DRAFT", "ACTIVE", "PAUSED", "EXPIRED", "ERROR"}]
LifecycleTo == [activate |-> "ACTIVE", pause |-> "PAUSED", revoke |-> "REVOKED"]

Kinds == DOMAIN Lifecycle \cup
         {"provision", "delete", "register", "edit", "revokeSession",
          "activatePermission", "revokePermission"}

\* What a request works on.
Matter(k) == CASE k \in DOMAIN Lifecycle -> "agent"
               [] k \in {"provision", "delete"} -> "wallet"
               [] k \in {"register", "edit", "revokeSession"} -> "session"
               [] OTHER -> "permission"

Phase == {"start", "write", "expire", "grant", "patch", "regrant", "rekey",
          "load", "save", "mirror", "bind",
          "lifecycle", "terminal", "destroy", "clear", "drop", "done", "failed"}
\* Configurations are only compared: which one a session starts with is no matter.
FirstConfig == CHOOSE c \in Configs : TRUE

Copy == [key : Keys \cup {None}, config : Configs, active : BOOLEAN, on : Instances]
NoCopy == [key |-> None, config |-> FirstConfig, active |-> FALSE,
           on |-> CHOOSE i \in Instances : TRUE]
NoMirror == [i \in Instances |-> None]

Init ==
    /\ \/ /\ agent = [status |-> "DRAFT", wallet |-> None]
          /\ keystore = None /\ mirror = NoMirror
       \/ /\ agent \in [status : {"ACTIVE", "PAUSED"}, wallet : {First}]
          /\ keystore = First
          /\ mirror \in {NoMirror} \cup {[NoMirror EXCEPT ![i] = First] : i \in Instances}
    /\ session \in [status : {"PENDING"}, key : {None}, config : {FirstConfig}]
              \cup [status : {"ACTIVE"}, key : {First}, config : {FirstConfig}]
    /\ granted = [k \in Keys |-> FirstConfig]
    /\ permission = "PENDING"
    /\ pc = [q \in Requests |-> "start"]
    /\ kind = [q \in Requests |-> "revoke"]
    /\ copy = [q \in Requests |-> NoCopy]
    /\ sealed = {} /\ overlapped = {} /\ destroyed = {} /\ failed = {}

-----------------------------------------------------------------------------
Busy == {q \in Requests : pc[q] \notin {"start", "done", "failed"}}

Move(q, from, to) == pc[q] = from /\ pc' = [pc EXCEPT ![q] = to]
Is(q, k) == kind[q] = k

\* The requests so far and one of kind k are of one set.
Meets(k) == \E kinds \in Together :
                {k} \cup {kind[q] : q \in {p \in Requests : pc[p] # "start"}} \subseteq kinds

\* A request of kind k comes in, passes its checks, and goes to a phase.
Begin(q, k, phase, held) ==
    /\ Meets(k)
    /\ Move(q, "start", phase)
    /\ kind' = [kind EXCEPT ![q] = k]
    /\ copy' = [copy EXCEPT ![q] = held]
    /\ UNCHANGED <<docs, destroyed, failed>>

Same == UNCHANGED <<kind, copy, destroyed, failed>>

\* An instance answers it.
On(i) == [NoCopy EXCEPT !.on = i]

-----------------------------------------------------------------------------
(* The agent: lifecycle                                                    *)

BeginLifecycle(q) ==
    \E k \in DOMAIN Lifecycle :
        /\ agent.status \in Lifecycle[k]
        /\ k = "activate" => agent.wallet # None
        /\ Begin(q, k, "write", NoCopy)

WriteLifecycle(q) ==
    /\ kind[q] \in DOMAIN Lifecycle
    /\ agent.status # "GONE"
    /\ Move(q, "write", "done")
    /\ agent' = [agent EXCEPT !.status = LifecycleTo[kind[q]]]
    /\ Same /\ UNCHANGED <<keystore, mirror, session, granted, permission>>

-----------------------------------------------------------------------------
(* The wallet: POST deploy and POST wallet                                 *)

\* POST wallet stops at an agent that has both a key and a wallet; POST deploy
\* asks for a wallet every time, of an agent that is owned already too.
BeginProvision(q) ==
    /\ agent.status # "GONE"
    /\ \E i \in Instances : Begin(q, "provision", "load", On(i))

\* What loadAgentKeystore may answer on an instance: the document's key; when the
\* document is missing, is not read or does not decrypt, the mirror's; none when
\* there is no mirror or it is not read either.
Loads(i) == ({keystore} \ {None}) \cup {mirror[i], None}

\* provisionAgentWallet: the key it is given is used again; given none, it makes
\* a new one, though the document may hold one that was not read.
LoadKeystore(q) ==
    \E key \in Loads(copy[q].on) :
        /\ Move(q, "load", IF key = None THEN "save" ELSE "bind")
        /\ copy' = [copy EXCEPT ![q].key = IF key = None THEN q ELSE key]
        /\ failed' = failed \cup IF key = None /\ keystore # None THEN {"read"} ELSE {}
        /\ UNCHANGED <<docs, kind, destroyed>>

\* *Mutant*: an error of the document's write is swallowed, as the mirror's is.
SaveSwallows(q) ==
    /\ Move(q, "save", "mirror")
    /\ keystore' \in {keystore, copy[q].key}
    /\ Same /\ UNCHANGED <<agent, mirror, session, granted, permission>>

\* saveAgentKeystore: the document over whatever it held (its error is Fail),
\* then this instance's mirror, whose error is swallowed.
SaveKeystore(q) ==
    /\ Move(q, "save", "mirror")
    /\ keystore' = copy[q].key
    /\ Same /\ UNCHANGED <<agent, mirror, session, granted, permission>>

SaveMirror(q) ==
    /\ Move(q, "mirror", "bind")
    /\ mirror' \in {mirror, [mirror EXCEPT ![copy[q].on] = copy[q].key]}
    /\ Same /\ UNCHANGED <<agent, keystore, session, granted, permission>>

BindWallet(q) ==
    /\ agent.status # "GONE"
    /\ Move(q, "bind", "done")
    /\ agent' = [agent EXCEPT !.wallet = copy[q].key]
    /\ Same /\ UNCHANGED <<keystore, mirror, session, granted, permission>>

-----------------------------------------------------------------------------
(* The agent: POST delete                                                  *)

\* *Mutant*: an agent that is revoked already is dropped at once.
DeleteDropsRevoked(q) ==
    /\ agent.status # "GONE"
    /\ \E i \in Instances :
          Begin(q, "delete", IF agent.status = "REVOKED" THEN "drop" ELSE "lifecycle", On(i))

BeginDelete(q) ==
    /\ agent.status # "GONE"
    /\ \E i \in Instances :
          Begin(q, "delete", IF agent.status = "REVOKED" THEN "destroy" ELSE "lifecycle", On(i))

\* lifecycle 'revoke', read and then written; an error of it is swallowed.
RevokeFirst(q) ==
    /\ Move(q, "lifecycle",
            IF agent.status \in Lifecycle["revoke"] THEN "terminal" ELSE "destroy")
    /\ Same /\ UNCHANGED docs

Terminal(q) ==
    /\ Move(q, "terminal", "destroy")
    /\ agent' \in {agent} \cup IF agent.status = "GONE" THEN {}
                               ELSE {[agent EXCEPT !.status = "REVOKED"]}
    /\ Same /\ UNCHANGED <<keystore, mirror, session, granted, permission>>

\* deleteAgentKeystore: the document, whose error ends it and is swallowed by the
\* route, then this instance's mirror, whose error it swallows itself.  It does
\* not know the other instances' mirrors.
DestroyKeystore(q) ==
    /\ \/ /\ Move(q, "destroy", "clear")
          /\ keystore' = None
          /\ destroyed' = destroyed \cup ({keystore} \ {None})
          /\ UNCHANGED failed
       \/ /\ Move(q, "destroy", "drop")
          /\ failed' = failed \cup {"keystore"}
          /\ UNCHANGED <<keystore, destroyed>>
    /\ UNCHANGED <<kind, copy, agent, mirror, session, granted, permission>>

ClearMirror(q) ==
    /\ Move(q, "clear", "drop")
    /\ \/ mirror' = [mirror EXCEPT ![copy[q].on] = None] /\ UNCHANGED failed
       \/ failed' = failed \cup {"keystore"} /\ UNCHANGED mirror
    /\ UNCHANGED <<kind, copy, destroyed, agent, keystore, session, granted, permission>>

Drop(q) ==
    /\ agent.status # "GONE"
    /\ Move(q, "drop", "done")
    /\ agent' = [status |-> "GONE", wallet |-> None]
    /\ Same /\ UNCHANGED <<keystore, mirror, session, granted, permission>>

-----------------------------------------------------------------------------
(* The session                                                             *)

Held(config, active) ==
    [NoCopy EXCEPT !.key = session.key, !.config = config, !.active = active]

BeginRegister(q) ==
    /\ session.status = "PENDING"
    /\ \E phase \in {"grant", "expire"} :
          Begin(q, "register", phase, Held(session.config, FALSE))

\* A session that has expired before its registration.
Expire(q) ==
    /\ Move(q, "expire", "done")
    /\ session' = [session EXCEPT !.status = "EXPIRED"]
    /\ Same /\ UNCHANGED <<agent, keystore, mirror, granted, permission>>

\* adapter.grantSession: a new key with the configuration the request holds.
Grant(q, from, to) ==
    /\ Move(q, from, to)
    /\ granted' = [granted EXCEPT ![q] = copy[q].config]
    /\ Same /\ UNCHANGED <<agent, keystore, mirror, session, permission>>

WriteRegistered(q) ==
    /\ Is(q, "register")
    /\ Move(q, "write", "done")
    /\ session' = [session EXCEPT !.status = "ACTIVE", !.key = q]
    /\ Same /\ UNCHANGED <<agent, keystore, mirror, granted, permission>>

\* updateSessionConfig asks for no status.
BeginEdit(q) ==
    \E c \in Configs : Begin(q, "edit", "patch", Held(c, session.status = "ACTIVE"))

\* *Mutant*: the edit of an ACTIVE session stops at its document.
PatchOnly(q) ==
    /\ Move(q, "patch", "done")
    /\ session' = [session EXCEPT !.config = copy[q].config]
    /\ Same /\ UNCHANGED <<agent, keystore, mirror, granted, permission>>

PatchConfig(q) ==
    /\ Move(q, "patch", IF copy[q].active THEN "regrant" ELSE "done")
    /\ session' = [session EXCEPT !.config = copy[q].config]
    /\ Same /\ UNCHANGED <<agent, keystore, mirror, granted, permission>>

\* The old key's revocation comes first; the real adapter's does nothing.
Regrant(q) == Grant(q, "regrant", "rekey")

Rekey(q) ==
    /\ Move(q, "rekey", "done")
    /\ session' = [session EXCEPT !.key = q]
    /\ Same /\ UNCHANGED <<agent, keystore, mirror, granted, permission>>

BeginRevokeSession(q) ==
    /\ session.status \in {"PENDING", "ACTIVE"}
    /\ Begin(q, "revokeSession", "write", NoCopy)

WriteRevokedSession(q) ==
    /\ Is(q, "revokeSession")
    /\ Move(q, "write", "done")
    /\ session' = [session EXCEPT !.status = "REVOKED"]
    /\ Same /\ UNCHANGED <<agent, keystore, mirror, granted, permission>>

-----------------------------------------------------------------------------
(* The permission                                                          *)

\* activatePermission reads the status once more after the route's checks.
BeginActivatePermission(q) ==
    /\ permission = "PENDING"
    /\ Begin(q, "activatePermission", "write", NoCopy)

BeginRevokePermission(q) ==
    /\ permission # "REVOKED"
    /\ Begin(q, "revokePermission", "write", NoCopy)

WritePermission(q) ==
    /\ kind[q] \in {"activatePermission", "revokePermission"}
    /\ Move(q, "write", "done")
    /\ permission' = IF Is(q, "activatePermission") THEN "ACTIVE" ELSE "REVOKED"
    /\ Same /\ UNCHANGED <<agent, keystore, mirror, session, granted>>

-----------------------------------------------------------------------------
\* An await throws (an update of a deleted record too), or the process dies, and
\* what the request held goes with it.
Fail(q) ==
    /\ q \in Busy
    /\ pc' = [pc EXCEPT ![q] = "failed"]
    /\ copy' = [copy EXCEPT ![q] = NoCopy]
    /\ failed' = failed \cup {Matter(kind[q])}
    /\ UNCHANGED <<docs, kind, destroyed>>

Step(q) ==
    \/ BeginLifecycle(q) \/ WriteLifecycle(q)
    \/ BeginProvision(q) \/ LoadKeystore(q) \/ SaveKeystore(q) \/ SaveMirror(q) \/ BindWallet(q)
    \/ BeginDelete(q) \/ RevokeFirst(q) \/ Terminal(q)
    \/ DestroyKeystore(q) \/ ClearMirror(q) \/ Drop(q)
    \/ BeginRegister(q) \/ Expire(q) \/ Grant(q, "grant", "write") \/ WriteRegistered(q)
    \/ BeginEdit(q) \/ PatchConfig(q) \/ Regrant(q) \/ Rekey(q)
    \/ BeginRevokeSession(q) \/ WriteRevokedSession(q)
    \/ BeginActivatePermission(q) \/ BeginRevokePermission(q) \/ WritePermission(q)
    \/ Fail(q)

Revoked == {m \in {"agent", "session", "permission"} :
               \/ m = "agent" /\ agent.status = "REVOKED"
               \/ m = "session" /\ session.status = "REVOKED"
               \/ m = "permission" /\ permission = "REVOKED"}

Crowded == {Matter(kind[q]) : q \in {p \in Busy : \E o \in Busy \ {p} :
                                        Matter(kind[o]) = Matter(kind[p])}}

\* A step, and what the histories record of the state it leads to.
Next ==
    /\ \E q \in Requests : Step(q)
    /\ sealed' = sealed \cup (IF Busy' = {} THEN Revoked' ELSE {})
    /\ overlapped' = overlapped \cup Crowded'

Spec == Init /\ [][Next]_vars

-----------------------------------------------------------------------------
(* Properties                                                              *)

\* The state has its types.
TypeOK ==
    /\ agent \in Agent
    /\ keystore \in Keys \cup {None} /\ mirror \in [Instances -> Keys \cup {None}]
    /\ session \in Session
    /\ granted \in [Keys -> Configs]
    /\ permission \in Permission
    /\ pc \in [Requests -> Phase] /\ kind \in [Requests -> Kinds]
    /\ copy \in [Requests -> Copy]
    /\ sealed \subseteq {"agent", "session", "permission"}
    /\ overlapped \subseteq {Matter(k) : k \in Kinds}
    /\ destroyed \subseteq Keys
    /\ failed \subseteq {"keystore", "read"} \cup {Matter(k) : k \in Kinds}

\* "REVOKED is terminal", for the agent, the session and the permission: a
\* revoke that stands once the requests it crossed have ended stands for good.
\* (One that crosses an activate, a pause or a registration may be undone by
\* it: each writes what it decided from an older read.)
RevokeHolds ==
    /\ "agent" \in sealed => agent.status \in {"REVOKED", "GONE"}
    /\ "session" \in sealed => session.status = "REVOKED"
    /\ "permission" \in sealed => permission = "REVOKED"

\* "One agent, one dedicated wallet": the wallet bound to the agent, where its
\* owner sends money, is the one whose key the document keeps, through provisions
\* that die half way, are repeated, and read a mirror for the document, until a
\* delete destroys that key.  It leaves out two requests on the wallet that
\* overlap (the later key overwrites the earlier), and a provision that reads
\* neither the document's key nor a mirror's (it makes and saves another).
KeyKept ==
    agent.wallet # None /\ "wallet" \notin overlapped /\ "read" \notin failed
        => keystore = agent.wallet \/ agent.wallet \in destroyed

\* A delete that runs to its end, no part of any destruction having failed and no
\* provision crossing it, leaves no key in the document nor on its instance.  It
\* says nothing of the other instances: their mirrors survive.
KeyDestroyed ==
    \A q \in Requests :
        /\ Is(q, "delete") /\ pc[q] = "done"
        /\ "wallet" \notin overlapped /\ "keystore" \notin failed
        => keystore = None /\ mirror[copy[q].on] = None

\* "Generates + persists the agent's private-key signer if none exists yet": no
\* provision replaces a key that is kept, unless two overlap.
KeyNotReplaced ==
    [][keystore # None /\ "wallet" \notin overlapped'
         => keystore' \in {keystore, None}]_vars

\* The key an ACTIVE session names was granted what its record says, so that
\* the policy's caps and the chain's agree, through edits and registrations
\* that follow each other without failing or overlapping.
KeyMatchesConfig ==
    /\ session.status = "ACTIVE"
    /\ "session" \notin overlapped \cup failed
    /\ ~\E q \in Busy : Matter(kind[q]) = "session"
    => granted[session.key] = session.config
=============================================================================
