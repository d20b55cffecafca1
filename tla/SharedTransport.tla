-------------------------- MODULE SharedTransport --------------------------
(***************************************************************************)
(* The sharing of one SSH target's transport among the consumers of one    *)
(* process (shared_transport.py, with SshTransport's connect and close and *)
(* registry.select_backend around it).                                     *)
(*                                                                         *)
(* A consumer is its SharedTransportHandle: acquired, connected, used and  *)
(* closed once.  An entry of the registry, and an agent on the target, is  *)
(* named by the handle that created it.  The registry lock and each        *)
(* entry's connect lock make the module's own sections atomic; connects,   *)
(* sends and teardowns of several handles interleave between them.  An     *)
(* agent runs while its ssh subprocess does.                               *)
(***************************************************************************)
EXTENDS Naturals, FiniteSets

CONSTANTS
    Handles,    \* the handles consumers acquire for the target
    Refusals,   \* a connect may raise something else than SshConnectError
    None        \* no handle

ASSUME HandlesAssumption == IsFiniteSet(Handles) /\ None \notin Handles
ASSUME RefusalsAssumption == Refusals \in BOOLEAN

VARIABLES
    registry,   \* _registry[key]
    entry,      \* each handle's _SharedEntry
    refs,       \* _SharedEntry.refcount
    broken,     \* entries marked broken
    closed,     \* entries whose _closed is set
    ready,      \* entries with a cached handshake
    locked,     \* who is in an entry's connect lock
    proc,       \* SshTransport._proc of each entry
    alive,      \* agents running on the target
    pc,         \* where each consumer's own thread stands
    closing     \* how far the close of each handle is

entries == <<registry, entry, refs, broken, closed>>
links == <<ready, locked, proc, alive>>
vars == <<entries, links, pc, closing>>

Places == {"new", "lock", "deploy", "handshake", "mark", "teardown", "failed",
           "connected", "sending"}
-----------------------------------------------------------------------------
Init ==
    /\ registry = None
    /\ entry = [h \in Handles |-> None]
    /\ refs = [e \in Handles |-> 0]
    /\ broken = {}
    /\ closed = {}
    /\ ready = {}
    /\ locked = [e \in Handles |-> None]
    /\ proc = [e \in Handles |-> None]
    /\ alive = {}
    /\ pc = [h \in Handles |-> "new"]
    /\ closing = [h \in Handles |-> "open"]

Goto(h, place) == pc' = [pc EXCEPT ![h] = place]

UnlockForgets(e) == UNCHANGED locked

Unlock(e) == locked' = [locked EXCEPT ![e] = None]

(* The registry drops e, whichever way e is retired.                       *)
Evict(e) == registry' = IF registry = e THEN None ELSE registry

(* SshTransport.close ends the agent of e that _proc still refers to.      *)
CloseTransport(e) ==
    /\ alive' = alive \ {proc[e]}
    /\ proc' = [proc EXCEPT ![e] = None]
-----------------------------------------------------------------------------
(* acquire_shared_transport, for the mount or retarget of a consumer.      *)
Shared(h) == IF registry = None \/ registry \in broken THEN h ELSE registry

CountFirst(h) == [refs EXCEPT ![Shared(h)] = IF Shared(h) = h THEN 1 ELSE @]

Count(h) == [refs EXCEPT ![Shared(h)] = @ + 1]

Acquire(h) ==
    /\ pc[h] = "new"
    /\ registry' = Shared(h)
    /\ entry' = [entry EXCEPT ![h] = Shared(h)]
    /\ refs' = Count(h)
    /\ Goto(h, "lock")
    /\ UNCHANGED <<broken, closed, links, closing>>

(* connect: a broken entry is refused before or after the wait for the     *)
(* lock, a cached handshake is reused if it satisfies this consumer too,   *)
(* and the first one deploys inside the lock.                              *)
ConnectRetired(h) ==
    /\ pc[h] = "lock"
    /\ entry[h] \in broken
    /\ Goto(h, "failed")
    /\ UNCHANGED <<entries, links, closing>>

NeverCached(e) == FALSE

Cached(e) == e \in ready

ConnectReuses(h) ==
    /\ pc[h] = "lock"
    /\ locked[entry[h]] = None
    /\ entry[h] \notin broken
    /\ Cached(entry[h])
    /\ \/ Goto(h, "connected")
       \/ Refusals /\ Goto(h, "failed")
    /\ UNCHANGED <<entries, links, closing>>

ConnectFirst(h) ==
    /\ pc[h] = "lock"
    /\ locked[entry[h]] = None
    /\ entry[h] \notin broken
    /\ ~Cached(entry[h])
    /\ locked' = [locked EXCEPT ![entry[h]] = h]
    /\ Goto(h, "deploy")
    /\ UNCHANGED <<entries, ready, proc, alive, closing>>

(* SshTransport.connect starts the subprocess and replaces _proc.          *)
Deploy(h) ==
    /\ pc[h] = "deploy"
    /\ proc' = [proc EXCEPT ![entry[h]] = h]
    /\ alive' = alive \cup {h}
    /\ Goto(h, "handshake")
    /\ UNCHANGED <<entries, ready, locked, closing>>

Handshake(h) ==
    /\ pc[h] = "handshake"
    /\ h \in alive
    /\ ready' = ready \cup {entry[h]}
    /\ Unlock(entry[h])
    /\ Goto(h, "connected")
    /\ UNCHANGED <<entries, proc, alive, closing>>

(* Any other exception (a ProtocolMismatchError, a missing ssh) leaves the *)
(* entry unmarked.                                                         *)
ConnectRaises(h) ==
    /\ Refusals
    /\ pc[h] \in {"deploy", "handshake"}
    /\ Unlock(entry[h])
    /\ Goto(h, "failed")
    /\ UNCHANGED <<entries, ready, proc, alive, closing>>

ConnectFails(h) ==
    /\ pc[h] \in {"deploy", "handshake"}
    /\ Goto(h, "mark")
    /\ UNCHANGED <<entries, links, closing>>
-----------------------------------------------------------------------------
(* send, by a backend that has not finished closing.                       *)
SendStart(h) ==
    /\ pc[h] = "connected"
    /\ closing[h] # "closed"
    /\ entry[h] \notin broken
    /\ Goto(h, "sending")
    /\ UNCHANGED <<entries, links, closing>>

SendDone(h) ==
    /\ pc[h] = "sending"
    /\ proc[entry[h]] \in alive
    /\ Goto(h, "connected")
    /\ UNCHANGED <<entries, links, closing>>

(* Connection lost, no answer in time, or not connected any more; a write  *)
(* to a pipe that a close has just closed raises past the retirement.      *)
SendFails(h) ==
    /\ pc[h] = "sending"
    /\ \/ Goto(h, "mark")
       \/ entry[h] \in closed /\ Goto(h, "connected")
    /\ UNCHANGED <<entries, links, closing>>

(* _mark_broken retires the entry under the registry lock ...              *)
Mark(h) ==
    /\ pc[h] = "mark"
    /\ broken' = broken \cup {entry[h]}
    /\ closed' = closed \cup {entry[h]}
    /\ Evict(entry[h])
    /\ Goto(h, "teardown")
    /\ UNCHANGED <<entry, refs, links, closing>>

(* ... and then tears its transport down; a failed connect still holds the *)
(* connect lock.                                                           *)
AfterTeardown(h) ==
    IF locked[entry[h]] = h
    THEN Unlock(entry[h]) /\ Goto(h, "failed")
    ELSE Goto(h, "connected") /\ UNCHANGED locked

TeardownLeaves(h) ==
    /\ pc[h] = "teardown"
    /\ AfterTeardown(h)
    /\ UNCHANGED <<entries, ready, proc, alive, closing>>

Teardown(h) ==
    /\ pc[h] = "teardown"
    /\ CloseTransport(entry[h])
    /\ AfterTeardown(h)
    /\ UNCHANGED <<entries, ready, closing>>
-----------------------------------------------------------------------------
(* close, by the mount or retarget that failed to connect, or by a         *)
(* retarget or cleanup while the consumer's worker may still be sending.   *)
Usable(h) ==
    \/ pc[h] \in {"failed", "connected", "sending"}
    \/ pc[h] \in {"mark", "teardown"} /\ locked[entry[h]] # h

(* The last handle retires the entry, and then closes its transport.       *)
ReleaseKeepsEntry(h) ==
    /\ refs' = [refs EXCEPT ![entry[h]] = @ - 1]
    /\ IF refs'[entry[h]] <= 0 /\ entry[h] \notin closed
       THEN /\ closed' = closed \cup {entry[h]}
            /\ closing' = [closing EXCEPT ![h] = "teardown"]
       ELSE /\ closing' = [closing EXCEPT ![h] = "closed"]
            /\ UNCHANGED closed
    /\ UNCHANGED registry

Release(h) ==
    /\ refs' = [refs EXCEPT ![entry[h]] = @ - 1]
    /\ IF refs'[entry[h]] <= 0 /\ entry[h] \notin closed
       THEN /\ closed' = closed \cup {entry[h]}
            /\ Evict(entry[h])
            /\ closing' = [closing EXCEPT ![h] = "teardown"]
       ELSE /\ closing' = [closing EXCEPT ![h] = "closed"]
            /\ UNCHANGED <<registry, closed>>

Close(h) ==
    /\ closing[h] = "open"
    /\ Usable(h)
    /\ Release(h)
    /\ UNCHANGED <<entry, broken, links, pc>>

CloseDone(h) ==
    /\ closing[h] = "teardown"
    /\ CloseTransport(entry[h])
    /\ closing' = [closing EXCEPT ![h] = "closed"]
    /\ UNCHANGED <<entries, ready, locked, pc>>

(* An agent crashes, its link is lost, or its Popen object, replaced and   *)
(* dropped, is collected and its stdin closed.                             *)
AgentEnds(a) ==
    /\ alive' = alive \ {a}
    /\ UNCHANGED <<entries, ready, locked, proc, pc, closing>>

Step(h) ==
    \/ ConnectRetired(h)
    \/ ConnectReuses(h)
    \/ ConnectFirst(h)
    \/ Deploy(h)
    \/ Handshake(h)
    \/ ConnectRaises(h)
    \/ ConnectFails(h)
    \/ SendDone(h)
    \/ SendFails(h)
    \/ Mark(h)
    \/ Teardown(h)
    \/ CloseDone(h)

Next ==
    \/ \E h \in Handles : Step(h) \/ Acquire(h) \/ SendStart(h) \/ Close(h)
    \/ \E a \in alive : AgentEnds(a)

Spec == Init /\ [][Next]_vars

(* Connects, sends and teardowns end: their reads and waits have timeouts, *)
(* and ssh is assumed to take the payload, whose write has none.           *)
Fairness == \A h \in Handles : WF_vars(Step(h))

FairSpec == Spec /\ Fairness
-----------------------------------------------------------------------------
(* The types; a count never goes below zero.                               *)
TypeOK ==
    /\ registry \in Handles \cup {None}
    /\ entry \in [Handles -> Handles \cup {None}]
    /\ refs \in [Handles -> Nat]
    /\ broken \subseteq Handles
    /\ closed \subseteq Handles
    /\ ready \subseteq Handles
    /\ locked \in [Handles -> Handles \cup {None}]
    /\ proc \in [Handles -> Handles \cup {None}]
    /\ alive \subseteq Handles
    /\ pc \in [Handles -> Places]
    /\ closing \in [Handles -> {"open", "teardown", "closed"}]

(* The handles that still use e.                                           *)
Users(e) == {h \in Handles : entry[h] = e /\ closing[h] = "open"}

(* e's transport is about to be closed.                                    *)
Ending(e) ==
    \E h \in Handles :
        /\ entry[h] = e
        /\ pc[h] \in {"mark", "teardown"} \/ closing[h] = "teardown"

(* A close never takes the transport from another handle: it is torn down  *)
(* only when it failed or its last user is gone.                           *)
NoEarlyTeardown == \A e \in closed : e \in broken \/ Users(e) = {}

(* A retired entry is never handed out.                                    *)
HandedOutHealthy ==
    [][\A h \in Handles :
        entry[h] = None /\ entry'[h] # None => entry'[h] \notin broken' \cup closed']_vars

(* A connected consumer's agent is never replaced by another one, whose    *)
(* held-input ledger would be empty.                                       *)
NoSilentReconnect ==
    [][\A h \in Handles :
        pc[h] \in {"connected", "sending"} /\ entry[h] # None
            => proc'[entry[h]] \in {proc[entry[h]], None}]_vars

(* Every agent is answered for: its transport still refers to it, and is   *)
(* either used by a handle or about to be closed.                          *)
AgentsAccounted ==
    \A a \in alive : \E e \in Handles :
        /\ proc[e] = a
        /\ Ending(e) \/ (e \notin closed /\ Users(e) # {})

(* Of several agents all but one are about to be ended.                    *)
OneLastingAgent ==
    \A a, b \in alive :
        ~Ending(entry[a]) /\ ~Ending(entry[b]) => a = b

(* At most one agent per target.                                           *)
AtMostOneAgent == Cardinality(alive) <= 1

(* A consumer that waits for the connect lock gets its turn.               *)
WaitersServed == \A h \in Handles : pc[h] = "lock" ~> pc[h] # "lock"
=============================================================================
