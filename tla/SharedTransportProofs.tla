----------------------- MODULE SharedTransportProofs -----------------------
(***************************************************************************)
(* SharedTransport for every finite set of handles: the reference count,   *)
(* the registry and the connect lock do what shared_transport.py promises  *)
(* of them, and, where a connect only fails with SshConnectError, every    *)
(* agent is accounted for.                                                 *)
(***************************************************************************)
EXTENDS MCTransport, FiniteSetTheorems, TLAPS

(* A handle has an entry from its acquire on; the one that created it      *)
(* gives it its name.                                                      *)
Named ==
    \A h \in Handles :
        /\ pc[h] = "new" <=> entry[h] = None
        /\ pc[h] \in {"new", "lock"} => closing[h] = "open"
        /\ entry[h] # None => entry[entry[h]] = entry[h]

Counted == \A e \in Handles : refs[e] = Cardinality(Users(e))

(* The entry in the registry is the only one that is not closed.           *)
Retired ==
    /\ broken \subseteq closed
    /\ \A e \in closed : entry[e] = e /\ (e \in broken \/ Users(e) = {})
    /\ registry # None =>
        entry[registry] = registry /\ registry \notin closed /\ Users(registry) # {}
    /\ \A h \in Handles : entry[h] # None => entry[h] \in closed \/ entry[h] = registry
    /\ \A h \in Handles : pc[h] = "teardown" => entry[h] \in broken

(* A connect that has not finished has its entry to itself.                *)
Locks ==
    /\ \A e \in Handles : locked[e] # None =>
        /\ entry[locked[e]] = e
        /\ pc[locked[e]] \in {"deploy", "handshake", "mark", "teardown"}
        /\ closing[locked[e]] = "open"
        /\ e \notin ready
    /\ \A h \in Handles : pc[h] \in {"deploy", "handshake"} => locked[entry[h]] = h
    /\ \A h \in Handles : pc[h] \in {"connected", "sending", "mark", "teardown"} =>
        locked[entry[h]] = h \/ entry[h] \in ready
    /\ \A h \in Handles : pc[h] \in {"deploy", "handshake"} => entry[h] \notin closed

Shape == Named /\ Counted /\ Retired /\ Locks

Agents ==
    ~Refusals =>
        /\ \A e \in Handles : locked[e] = None /\ e \notin ready /\ e \notin closed =>
            proc[e] = None
        /\ \A h \in Handles : pc[h] = "deploy" => proc[entry[h]] = None
        /\ \A a \in alive : entry[a] # None /\ proc[entry[a]] = a
        /\ \A a \in alive : Ending(entry[a]) \/ entry[a] \notin closed
-----------------------------------------------------------------------------
Inv == TypeOK /\ Shape

(* A handle that has been acquired has an entry, which counts it.          *)
LEMMA Entered ==
    ASSUME TypeOK, Named, NEW h \in Handles, pc[h] # "new"
    PROVE  entry[h] \in Handles /\ entry[entry[h]] = entry[h]
BY DEF TypeOK, Named

LEMMA SharedEntry ==
    ASSUME TypeOK, NEW h \in Handles
    PROVE  Shared(h) \in Handles
BY DEF TypeOK, Shared

(* The count of an entry's users.                                          *)
LEMMA UsersFinite ==
    ASSUME NEW e
    PROVE  IsFiniteSet(Users(e)) /\ Cardinality(Users(e)) \in Nat
<1>1. Users(e) \in SUBSET Handles
      BY DEF Users
<1>2. IsFiniteSet(Users(e))
      BY <1>1, HandlesAssumption, FS_Subset
<1> QED
    BY <1>2, FS_CardinalityType

(* Only an acquire and a close change an entry's users.                    *)
LEMMA SameUsers ==
    ASSUME UNCHANGED entry,
           \A h \in Handles : closing'[h] = "open" <=> closing[h] = "open"
    PROVE  \A e : Users(e)' = Users(e)
BY DEF Users

LEMMA AcquireUsers ==
    ASSUME Inv, NEW h \in Handles, Acquire(h), NEW e \in Handles
    PROVE  /\ h \notin Users(e)
           /\ Users(e)' = IF e = Shared(h) THEN Users(e) \cup {h} ELSE Users(e)
<1>1. entry[h] = None /\ closing[h] = "open" /\ entry[h] # e
      BY HandlesAssumption DEF Inv, Shape, Named, Acquire
<1>2. entry' = [entry EXCEPT ![h] = Shared(h)] /\ closing' = closing
      BY DEF Acquire
<1> QED
    BY <1>1, <1>2 DEF Inv, TypeOK, Users

LEMMA CloseUsers ==
    ASSUME Inv, NEW h \in Handles, Close(h), NEW e \in Handles
    PROVE  Users(e)' = IF e = entry[h] THEN Users(e) \ {h} ELSE Users(e)
<1>1. entry' = entry /\ closing[h] = "open"
      BY DEF Close
<1>2. closing' = [closing EXCEPT ![h] = "teardown"] \/ closing' = [closing EXCEPT ![h] = "closed"]
      BY DEF Close, Release
<1> QED
    BY <1>1, <1>2 DEF Inv, TypeOK, Users

(* A close counts its handle out, and is the last one when no user is left.*)
LEMMA CloseCount ==
    ASSUME Inv, NEW h \in Handles, Close(h)
    PROVE  /\ entry[h] \in Handles
           /\ refs' \in [Handles -> Nat]
           /\ Counted'
           /\ \A e \in Handles : refs'[e] <= 0 <=> Users(e)' = {}
<1>1. entry[h] \in Handles
  <2>1. pc[h] # "new"
        BY DEF Close, Usable
  <2> QED
      BY <2>1, Entered DEF Inv, Shape
<1>2. h \in Users(entry[h])
      BY <1>1 DEF Users, Close
<1>3. refs' = [refs EXCEPT ![entry[h]] = refs[entry[h]] - 1]
      BY DEF Close, Release
<1>4. \A e \in Handles : refs'[e] = Cardinality(Users(e)')
  <2> TAKE e \in Handles
  <2>1. CASE e = entry[h]
    <3>1. Users(e)' = Users(e) \ {h}
          BY <2>1, CloseUsers
    <3>2. Cardinality(Users(e) \ {h}) = Cardinality(Users(e)) - 1
          BY <1>2, <2>1, UsersFinite, FS_RemoveElement
    <3>3. refs'[e] = refs[e] - 1 /\ refs[e] = Cardinality(Users(e))
          BY <1>1, <1>3, <2>1 DEF Inv, TypeOK, Shape, Counted
    <3> QED
        BY <3>1, <3>2, <3>3
  <2>2. CASE e # entry[h]
    <3>1. Users(e)' = Users(e)
          BY <2>2, CloseUsers
    <3> QED
        BY <1>3, <2>2, <3>1 DEF Inv, TypeOK, Shape, Counted
  <2> QED
      BY <2>1, <2>2
<1>5. \A e \in Handles : IsFiniteSet(Users(e)') /\ Cardinality(Users(e)') \in Nat
  <2> TAKE e \in Handles
  <2>1. Users(e)' \in SUBSET Handles
        BY DEF Users
  <2>2. IsFiniteSet(Users(e)')
        BY <2>1, HandlesAssumption, FS_Subset
  <2> QED
      BY <2>2, FS_CardinalityType
<1>6. Counted'
      BY <1>4 DEF Counted
<1>7. refs' \in [Handles -> Nat]
  <2>1. refs' \in [Handles -> Int]
        BY <1>1, <1>3 DEF Inv, TypeOK
  <2>2. \A e \in Handles : refs'[e] \in Nat
        BY <1>4, <1>5
  <2> QED
      BY <2>1, <2>2
<1>8. \A e \in Handles : refs'[e] <= 0 <=> Users(e)' = {}
  <2> TAKE e \in Handles
  <2>1. Cardinality(Users(e)') = 0 <=> Users(e)' = {}
        BY <1>5, FS_EmptySet
  <2> QED
      BY <1>4, <1>7, <2>1
<1> QED
    BY <1>1, <1>6, <1>7, <1>8

LEMMA AcquireCount ==
    ASSUME Inv, NEW h \in Handles, Acquire(h)
    PROVE  refs' \in [Handles -> Nat] /\ Counted'
<1>1. Shared(h) \in Handles
      BY SharedEntry DEF Inv
<1>2. refs' = [refs EXCEPT ![Shared(h)] = refs[Shared(h)] + 1]
      BY DEF Acquire, Count
<1>3. \A e \in Handles : refs'[e] = Cardinality(Users(e)')
  <2> TAKE e \in Handles
  <2>1. CASE e = Shared(h)
    <3>1. Users(e)' = Users(e) \cup {h} /\ h \notin Users(e)
          BY <2>1, AcquireUsers
    <3>2. Cardinality(Users(e) \cup {h}) = Cardinality(Users(e)) + 1
          BY <3>1, UsersFinite, FS_AddElement
    <3>3. refs'[e] = refs[e] + 1 /\ refs[e] = Cardinality(Users(e))
          BY <1>1, <1>2, <2>1 DEF Inv, TypeOK, Shape, Counted
    <3> QED
        BY <3>1, <3>2, <3>3
  <2>2. CASE e # Shared(h)
    <3>1. Users(e)' = Users(e)
          BY <2>2, AcquireUsers
    <3> QED
        BY <1>2, <2>2, <3>1 DEF Inv, TypeOK, Shape, Counted
  <2> QED
      BY <2>1, <2>2
<1> QED
    BY <1>1, <1>2, <1>3 DEF Inv, TypeOK, Counted
-----------------------------------------------------------------------------
(* Type correctness.                                                       *)
LEMMA InitTypeOK == Init => TypeOK
BY DEF Init, TypeOK, Places

LEMMA GotoType ==
    ASSUME TypeOK, NEW h \in Handles, NEW at \in Places, Goto(h, at)
    PROVE  pc' \in [Handles -> Places]
BY DEF TypeOK, Goto

LEMMA NextTypeOK == Inv /\ [Next]_vars => TypeOK'
<1> SUFFICES ASSUME Inv, [Next]_vars PROVE TypeOK'
    OBVIOUS
<1> USE HandlesAssumption DEF Inv, Shape, entries, links
<1>1. ASSUME NEW h \in Handles, ConnectRetired(h) PROVE TypeOK'
      BY <1>1, Entered, GotoType DEF TypeOK, Places, Goto, ConnectRetired
<1>2. ASSUME NEW h \in Handles, ConnectReuses(h) PROVE TypeOK'
      BY <1>2, Entered, GotoType DEF TypeOK, Places, Goto, ConnectReuses
<1>3. ASSUME NEW h \in Handles, ConnectFirst(h) PROVE TypeOK'
      BY <1>3, Entered, GotoType DEF TypeOK, Places, Goto, ConnectFirst
<1>4. ASSUME NEW h \in Handles, Deploy(h) PROVE TypeOK'
      BY <1>4, Entered, GotoType DEF TypeOK, Places, Goto, Deploy
<1>5. ASSUME NEW h \in Handles, Handshake(h) PROVE TypeOK'
  <2>1. entry[h] \in Handles
        BY <1>5, Entered DEF Handshake
  <2> QED
      BY <1>5, <2>1 DEF TypeOK, Places, Goto, Unlock, Handshake
<1>6. ASSUME NEW h \in Handles, ConnectRaises(h) PROVE TypeOK'
      BY <1>6, Entered, GotoType DEF TypeOK, Places, Goto, Unlock, ConnectRaises
<1>7. ASSUME NEW h \in Handles, ConnectFails(h) PROVE TypeOK'
      BY <1>7, GotoType DEF TypeOK, Places, Goto, ConnectFails
<1>8. ASSUME NEW h \in Handles, SendDone(h) PROVE TypeOK'
      BY <1>8, Entered, GotoType DEF TypeOK, Places, Goto, SendDone
<1>9. ASSUME NEW h \in Handles, SendFails(h) PROVE TypeOK'
      BY <1>9, Entered, GotoType DEF TypeOK, Places, Goto, SendFails
<1>10. ASSUME NEW h \in Handles, Mark(h) PROVE TypeOK'
  <2>1. entry[h] \in Handles
        BY <1>10, Entered DEF Mark
  <2> QED
      BY <1>10, <2>1 DEF TypeOK, Places, Goto, Evict, Mark
<1>11. ASSUME NEW h \in Handles, Teardown(h) PROVE TypeOK'
      BY <1>11, Entered, GotoType DEF TypeOK, Places, Goto, Unlock, CloseTransport,
         AfterTeardown, Teardown
<1>12. ASSUME NEW h \in Handles, CloseDone(h) PROVE TypeOK'
      BY <1>12, Entered, GotoType DEF TypeOK, Places, Goto, CloseTransport, CloseDone
<1>13. ASSUME NEW h \in Handles, Acquire(h) PROVE TypeOK'
      BY <1>13, SharedEntry, AcquireCount, GotoType DEF TypeOK, Places, Acquire, Goto
<1>14. ASSUME NEW h \in Handles, SendStart(h) PROVE TypeOK'
      BY <1>14, Entered, GotoType DEF TypeOK, Places, Goto, SendStart
<1>15. ASSUME NEW h \in Handles, Close(h) PROVE TypeOK'
  <2>1. entry[h] \in Handles /\ refs' \in [Handles -> Nat]
        BY <1>15, CloseCount
  <2>2. registry' \in Handles \cup {None} /\ closed' \subseteq Handles
        BY <1>15, <2>1 DEF TypeOK, Close, Release, Evict
  <2>3. closing' \in [Handles -> {"open", "teardown", "closed"}]
        BY <1>15 DEF TypeOK, Close, Release
  <2> QED
      BY <1>15, <2>1, <2>2, <2>3 DEF TypeOK, Close
<1>16. ASSUME NEW a \in alive, AgentEnds(a) PROVE TypeOK'
      BY <1>16 DEF TypeOK, AgentEnds
<1>17. ASSUME UNCHANGED vars PROVE TypeOK'
      BY <1>17 DEF TypeOK, vars
<1> QED
    BY <1>1, <1>2, <1>3, <1>4, <1>5, <1>6, <1>7, <1>8, <1>9, <1>10, <1>11, <1>12, <1>13,
       <1>14, <1>15, <1>16, <1>17 DEF Next, Step
-----------------------------------------------------------------------------
(* Named, Counted.                                                         *)
LEMMA NextNamed == Inv /\ [Next]_vars => Named'
<1> SUFFICES ASSUME Inv, [Next]_vars PROVE Named'
    OBVIOUS
<1> USE HandlesAssumption DEF Inv, Shape, TypeOK, Named, entries, links, Goto
<1>1. ASSUME NEW h \in Handles, ConnectRetired(h) PROVE Named'
      BY <1>1 DEF ConnectRetired
<1>2. ASSUME NEW h \in Handles, ConnectReuses(h) PROVE Named'
      BY <1>2 DEF ConnectReuses
<1>3. ASSUME NEW h \in Handles, ConnectFirst(h) PROVE Named'
      BY <1>3 DEF ConnectFirst
<1>4. ASSUME NEW h \in Handles, Deploy(h) PROVE Named'
      BY <1>4 DEF Deploy
<1>5. ASSUME NEW h \in Handles, Handshake(h) PROVE Named'
      BY <1>5 DEF Handshake
<1>6. ASSUME NEW h \in Handles, ConnectRaises(h) PROVE Named'
      BY <1>6 DEF ConnectRaises
<1>7. ASSUME NEW h \in Handles, ConnectFails(h) PROVE Named'
      BY <1>7 DEF ConnectFails
<1>8. ASSUME NEW h \in Handles, SendDone(h) PROVE Named'
      BY <1>8 DEF SendDone
<1>9. ASSUME NEW h \in Handles, SendFails(h) PROVE Named'
      BY <1>9 DEF SendFails
<1>10. ASSUME NEW h \in Handles, Mark(h) PROVE Named'
      BY <1>10 DEF Mark
<1>11. ASSUME NEW h \in Handles, Teardown(h) PROVE Named'
      BY <1>11 DEF AfterTeardown, Teardown
<1>12. ASSUME NEW h \in Handles, CloseDone(h) PROVE Named'
      BY <1>12 DEF CloseDone
<1>13. ASSUME NEW h \in Handles, Acquire(h) PROVE Named'
  <2>1. Shared(h) \in Handles /\ (Shared(h) = h \/ entry[Shared(h)] = Shared(h))
        BY SharedEntry DEF Shared, Retired
  <2> QED
      BY <1>13, <2>1 DEF Acquire
<1>14. ASSUME NEW h \in Handles, SendStart(h) PROVE Named'
      BY <1>14 DEF SendStart
<1>15. ASSUME NEW h \in Handles, Close(h) PROVE Named'
      BY <1>15 DEF Close, Release, Usable
<1>16. ASSUME NEW a \in alive, AgentEnds(a) PROVE Named'
      BY <1>16 DEF AgentEnds
<1>17. ASSUME UNCHANGED vars PROVE Named'
      BY <1>17 DEF vars
<1> QED
    BY <1>1, <1>2, <1>3, <1>4, <1>5, <1>6, <1>7, <1>8, <1>9, <1>10, <1>11, <1>12, <1>13,
       <1>14, <1>15, <1>16, <1>17 DEF Next, Step

(* The other steps acquire and close nothing.                              *)
LEMMA Bystanders ==
    ASSUME Inv, [Next]_vars, \A h \in Handles : ~Acquire(h) /\ ~Close(h)
    PROVE  /\ UNCHANGED <<entry, refs>>
           /\ \A h \in Handles : closing'[h] = "open" <=> closing[h] = "open"
<1>1. ASSUME NEW h \in Handles, CloseDone(h)
      PROVE  /\ UNCHANGED <<entry, refs>>
             /\ \A g \in Handles : closing'[g] = "open" <=> closing[g] = "open"
      BY <1>1 DEF Inv, TypeOK, CloseDone, entries
<1>2. ASSUME NEW h \in Handles, Step(h) \/ SendStart(h), ~CloseDone(h)
      PROVE  UNCHANGED <<entry, refs, closing>>
      BY <1>2 DEF Step, ConnectRetired, ConnectReuses, ConnectFirst, Deploy, Handshake,
         ConnectRaises, ConnectFails, SendStart, SendDone, SendFails, Mark, Teardown, entries
<1>3. ASSUME NEW a \in alive, AgentEnds(a)
      PROVE  UNCHANGED <<entry, refs, closing>>
      BY <1>3 DEF AgentEnds, entries
<1>4. ASSUME UNCHANGED vars
      PROVE  UNCHANGED <<entry, refs, closing>>
      BY <1>4 DEF vars, entries
<1> QED
    BY <1>1, <1>2, <1>3, <1>4 DEF Next

LEMMA NextCounted == Inv /\ [Next]_vars => Counted'
<1> SUFFICES ASSUME Inv, [Next]_vars PROVE Counted'
    OBVIOUS
<1>1. ASSUME NEW h \in Handles, Acquire(h) PROVE Counted'
      BY <1>1, AcquireCount
<1>2. ASSUME NEW h \in Handles, Close(h) PROVE Counted'
      BY <1>2, CloseCount
<1>3. ASSUME \A h \in Handles : ~Acquire(h) /\ ~Close(h) PROVE Counted'
      BY <1>3, Bystanders, SameUsers DEF Inv, Shape, Counted
<1> QED
    BY <1>1, <1>2, <1>3
-----------------------------------------------------------------------------
(* Retired: only an acquire, a mark and a close change the registry.       *)
LEMMA NextRetired == Inv /\ [Next]_vars => Retired'
<1> SUFFICES ASSUME Inv, [Next]_vars PROVE Retired'
    OBVIOUS
<1> USE HandlesAssumption DEF Inv, Shape
<1>1. ASSUME NEW h \in Handles, Acquire(h) PROVE Retired'
  <2>1. /\ Shared(h) \in Handles
        /\ Shared(h) = h \/ (Shared(h) = registry /\ registry \notin closed)
        /\ Shared(h) = h \/ entry[Shared(h)] = Shared(h)
        /\ registry \in {None, Shared(h)} \/ registry \in closed
        BY SharedEntry DEF Shared, Retired
  <2>2. entry[h] = None /\ h \notin closed
        BY <1>1 DEF Acquire, Named, Retired
  <2>3. /\ registry' = Shared(h)
        /\ entry' = [entry EXCEPT ![h] = Shared(h)]
        /\ pc' = [pc EXCEPT ![h] = "lock"]
        /\ UNCHANGED <<broken, closed>>
        BY <1>1 DEF Acquire, Goto
  <2>4. \A e \in Handles :
            /\ h \notin Users(e)
            /\ Users(e)' = IF e = Shared(h) THEN Users(e) \cup {h} ELSE Users(e)
        BY <1>1, AcquireUsers
  <2>5. Shared(h) \notin closed
        BY <2>1, <2>2
  <2>6. \A e \in closed' : entry'[e] = e /\ (e \in broken' \/ Users(e)' = {})
        BY <2>2, <2>3, <2>4, <2>5 DEF Retired, TypeOK
  <2>7. entry'[registry'] = registry' /\ registry' \notin closed' /\ Users(registry)' # {}
    <3>1. h \in Users(registry)'
          BY <1>1, <2>1, <2>3 DEF Acquire, Named, TypeOK, Users
    <3> QED
      BY <2>1, <2>2, <2>3, <2>5, <3>1 DEF TypeOK
  <2>8. \A g \in Handles : entry'[g] # None => entry'[g] \in closed' \/ entry'[g] = registry'
        BY <2>1, <2>3 DEF Retired, TypeOK
  <2>9. \A g \in Handles : pc'[g] = "teardown" => entry'[g] \in broken'
        BY <1>1, <2>3 DEF Retired, TypeOK, Acquire
  <2> QED
      BY <2>3, <2>6, <2>7, <2>8, <2>9 DEF Retired
<1>2. ASSUME NEW h \in Handles, Mark(h) PROVE Retired'
  <2>1. entry[h] \in Handles /\ entry[entry[h]] = entry[h]
        BY <1>2, Entered DEF Mark
  <2>2. \A e : Users(e)' = Users(e)
        BY <1>2, SameUsers DEF Mark
  <2> QED
      BY <1>2, <2>1, <2>2 DEF Retired, TypeOK, Mark, Evict, Goto
<1>3. ASSUME NEW h \in Handles, Close(h) PROVE Retired'
  <2>1. entry[h] \in Handles /\ entry[entry[h]] = entry[h]
        BY <1>3, CloseCount, Entered DEF Named
  <2>2. \A e \in Handles : Users(e)' = IF e = entry[h] THEN Users(e) \ {h} ELSE Users(e)
        BY <1>3, CloseUsers
  <2>3. \A e \in Handles : refs'[e] <= 0 <=> Users(e)' = {}
        BY <1>3, CloseCount
  <2>4. UNCHANGED <<entry, broken, pc>>
        BY <1>3 DEF Close
  <2>5. CASE refs'[entry[h]] <= 0 /\ entry[h] \notin closed
    <3>1. closed' = closed \cup {entry[h]} /\ Evict(entry[h])
          BY <1>3, <2>5 DEF Close, Release
    <3> QED
        BY <2>1, <2>2, <2>3, <2>4, <2>5, <3>1 DEF Retired, TypeOK, Evict
  <2>6. CASE ~(refs'[entry[h]] <= 0 /\ entry[h] \notin closed)
    <3>1. UNCHANGED <<registry, closed>>
          BY <1>3, <2>6 DEF Close, Release
    <3> QED
        BY <2>1, <2>2, <2>3, <2>4, <2>6, <3>1 DEF Retired, TypeOK
  <2> QED
      BY <2>5, <2>6
<1>4. ASSUME \A h \in Handles : ~Acquire(h) /\ ~Mark(h) /\ ~Close(h) PROVE Retired'
  <2>1. \A e : Users(e)' = Users(e)
        BY <1>4, Bystanders, SameUsers
  <2>2. ASSUME NEW h \in Handles, Step(h) \/ SendStart(h)
        PROVE  /\ UNCHANGED <<registry, entry, broken, closed>>
               /\ \A g \in Handles : pc'[g] = "teardown" => pc[g] = "teardown"
    <3>1. UNCHANGED entries
          BY <1>4, <2>2 DEF Step, ConnectRetired, ConnectReuses, ConnectFirst, Deploy, Handshake,
             ConnectRaises, ConnectFails, SendStart, SendDone, SendFails, Teardown, CloseDone
    <3>2. \A g \in Handles : pc'[g] = "teardown" => pc[g] = "teardown"
          BY <1>4, <2>2 DEF TypeOK, Step, ConnectRetired, ConnectReuses, ConnectFirst, Deploy,
             Handshake, ConnectRaises, ConnectFails, SendStart, SendDone, SendFails, Teardown,
             AfterTeardown, CloseDone, Goto
    <3> QED
        BY <3>1, <3>2 DEF entries
  <2>3. ASSUME NEW a \in alive, AgentEnds(a) PROVE UNCHANGED <<entries, pc>>
        BY <2>3 DEF AgentEnds
  <2>4. ASSUME UNCHANGED vars PROVE UNCHANGED <<entries, pc>>
        BY <2>4 DEF vars
  <2>5. /\ UNCHANGED <<registry, entry, broken, closed>>
        /\ \A g \in Handles : pc'[g] = "teardown" => pc[g] = "teardown"
        BY <1>4, <2>2, <2>3, <2>4 DEF Next, entries
  <2> QED
      BY <2>1, <2>5 DEF Retired
<1> QED
    BY <1>1, <1>2, <1>3, <1>4
-----------------------------------------------------------------------------
(* Locks: a connect that has not finished keeps its entry in the registry. *)
LEMMA NextLocks == Inv /\ [Next]_vars => Locks'
<1> SUFFICES ASSUME Inv, [Next]_vars PROVE Locks'
    OBVIOUS
<1> USE HandlesAssumption DEF Inv, Shape, TypeOK, entries, links, Goto
<1>e. \A h \in Handles : pc[h] # "new" => entry[h] \in Handles
      BY Entered
<1>1. ASSUME NEW h \in Handles, ConnectRetired(h) PROVE Locks'
      BY <1>1, <1>e DEF Locks, ConnectRetired
<1>2. ASSUME NEW h \in Handles, ConnectReuses(h) PROVE Locks'
      BY <1>2, <1>e DEF Locks, Cached, ConnectReuses
<1>3. ASSUME NEW h \in Handles, ConnectFirst(h) PROVE Locks'
  <2>1. entry[h] \in Handles /\ h \in Users(entry[h])
        BY <1>3, <1>e DEF ConnectFirst, Named, Users
  <2>2. entry[h] \notin closed /\ entry[h] \notin ready /\ closing[h] = "open"
        BY <1>3, <2>1 DEF ConnectFirst, Retired, Named, Cached
  <2> QED
      BY <1>3, <2>1, <2>2 DEF Locks, ConnectFirst
<1>4. ASSUME NEW h \in Handles, Deploy(h) PROVE Locks'
      BY <1>4, <1>e DEF Locks, Deploy
<1>5. ASSUME NEW h \in Handles, Handshake(h) PROVE Locks'
      BY <1>5, <1>e DEF Locks, Unlock, Handshake
<1>6. ASSUME NEW h \in Handles, ConnectRaises(h) PROVE Locks'
      BY <1>6, <1>e DEF Locks, Unlock, ConnectRaises
<1>7. ASSUME NEW h \in Handles, ConnectFails(h) PROVE Locks'
      BY <1>7, <1>e DEF Locks, ConnectFails
<1>8. ASSUME NEW h \in Handles, SendDone(h) PROVE Locks'
      BY <1>8, <1>e DEF Locks, SendDone
<1>9. ASSUME NEW h \in Handles, SendFails(h) PROVE Locks'
      BY <1>9, <1>e DEF Locks, SendFails
<1>10. ASSUME NEW h \in Handles, Mark(h) PROVE Locks'
      BY <1>10, <1>e DEF Locks, Mark
<1>11. ASSUME NEW h \in Handles, Teardown(h) PROVE Locks'
      BY <1>11, <1>e DEF Locks, Unlock, AfterTeardown, CloseTransport, Teardown
<1>12. ASSUME NEW h \in Handles, CloseDone(h) PROVE Locks'
      BY <1>12, <1>e DEF Locks, CloseDone
<1>13. ASSUME NEW h \in Handles, Acquire(h) PROVE Locks'
      BY <1>13 DEF Locks, Named, Acquire
<1>14. ASSUME NEW h \in Handles, SendStart(h) PROVE Locks'
      BY <1>14, <1>e DEF Locks, SendStart
<1>15. ASSUME NEW h \in Handles, Close(h) PROVE Locks'
  <2>1. \A e \in Handles : Users(e)' = IF e = entry[h] THEN Users(e) \ {h} ELSE Users(e)
        BY <1>15, CloseUsers
  <2>2. entry[h] \in Handles /\ \A e \in Handles : refs'[e] <= 0 <=> Users(e)' = {}
        BY <1>15, CloseCount
  <2>3. \A g \in Handles : pc[g] \in {"deploy", "handshake"} =>
            g # h /\ (entry[g] = entry[h] => g \in Users(entry[h])')
        BY <1>15, <2>1, <2>2 DEF Locks, Close, Usable, Users
  <2>4. \A e \in Handles : locked[e] # h
        BY <1>15 DEF Locks, Close, Usable
  <2>5. /\ UNCHANGED <<entry, ready, locked, pc>>
        /\ \A g \in Handles : g # h => closing'[g] = closing[g]
        BY <1>15 DEF Close, Release
  <2>6. \A g \in Handles : pc[g] \in {"deploy", "handshake"} => entry[g] \notin closed'
        BY <1>15, <2>2, <2>3 DEF Locks, Close, Release
  <2> QED
      BY <2>4, <2>5, <2>6 DEF Locks
<1>16. ASSUME NEW a \in alive, AgentEnds(a) PROVE Locks'
      BY <1>16 DEF Locks, AgentEnds
<1>17. ASSUME UNCHANGED vars PROVE Locks'
      BY <1>17 DEF Locks, vars
<1> QED
    BY <1>1, <1>2, <1>3, <1>4, <1>5, <1>6, <1>7, <1>8, <1>9, <1>10, <1>11, <1>12, <1>13,
       <1>14, <1>15, <1>16, <1>17 DEF Next, Step
-----------------------------------------------------------------------------
(* The invariant.                                                          *)
LEMMA InitInv == Init => Inv
<1> SUFFICES ASSUME Init PROVE Inv
    OBVIOUS
<1>1. Named /\ Retired /\ Locks
      BY HandlesAssumption DEF Init, Named, Retired, Locks
<1>2. Counted
  <2>1. \A e \in Handles : Users(e) = {} /\ refs[e] = 0
        BY HandlesAssumption DEF Init, Users
  <2> QED
      BY <2>1, FS_EmptySet DEF Counted
<1> QED
    BY <1>1, <1>2, InitTypeOK DEF Inv, Shape

LEMMA NextInv == Inv /\ [Next]_vars => Inv'
BY NextTypeOK, NextNamed, NextCounted, NextRetired, NextLocks DEF Inv, Shape

LEMMA Always == Spec => []Inv
BY InitInv, NextInv, PTL DEF Spec

(* Every variable keeps its type, for any number of handles: in particular *)
(* no reference count goes below zero, however often handles are closed.   *)
THEOREM TypeCorrect == Spec => []TypeOK
<1>1. Inv => TypeOK
      BY DEF Inv
<1> QED
    BY <1>1, Always, PTL

(* The last close tears the transport down, never an earlier one: the      *)
(* reference count always is the number of handles in use.                 *)
THEOREM NoEarly == Spec => []NoEarlyTeardown
<1>1. Inv => NoEarlyTeardown
      BY DEF Inv, Shape, Retired, NoEarlyTeardown
<1> QED
    BY <1>1, Always, PTL

(* acquire_shared_transport never hands out a retired entry.               *)
THEOREM HealthyHandouts == Spec => HandedOutHealthy
<1>1. ASSUME Inv, [Next]_vars, NEW h \in Handles, entry[h] = None, entry'[h] # None
      PROVE  entry'[h] \notin broken' \cup closed'
  <2>1. Acquire(h)
    <3>1. pc[h] = "new" /\ entry' # entry
          BY <1>1 DEF Inv, Shape, Named
    <3>2. PICK g \in Handles : Acquire(g)
      <4>1. CASE \A g \in Handles : ~Acquire(g)
        <5>1. \A g \in Handles : Close(g) => UNCHANGED entry
              BY DEF Close
        <5> QED
            BY <1>1, <3>1, <4>1, <5>1, Bystanders
      <4> QED
          BY <4>1
    <3> QED
        BY <1>1, <3>2 DEF Acquire, Inv, TypeOK
  <2>2. entry'[h] = Shared(h) /\ broken' = broken /\ closed' = closed
        BY <1>1, <2>1 DEF Acquire, Inv, TypeOK
  <2>3. h \notin closed /\ broken \subseteq closed
        BY <1>1, HandlesAssumption DEF Inv, Shape, Retired
  <2>4. Shared(h) = h \/ (registry # None /\ registry \notin closed /\ Shared(h) = registry)
        BY <1>1 DEF Inv, Shape, Retired, Shared
  <2> QED
      BY <2>2, <2>3, <2>4
<1>2. Inv /\ [Next]_vars =>
        \A h \in Handles :
            entry[h] = None /\ entry'[h] # None => entry'[h] \notin broken' \cup closed'
      BY <1>1
<1> QED
    BY <1>2, Always, PTL DEF Spec, HandedOutHealthy

(* A connected consumer's agent is never silently replaced: only the first *)
(* connect of an entry deploys, and a retired entry never connects again.  *)
THEOREM NoReconnect == Spec => NoSilentReconnect
<1>1. ASSUME Inv, [Next]_vars, NEW h \in Handles, pc[h] \in {"connected", "sending"},
             entry[h] # None
      PROVE  proc'[entry[h]] \in {proc[entry[h]], None}
  <2> USE <1>1 DEF Inv, Shape, TypeOK
  <2>1. entry[h] \in Handles /\ locked[entry[h]] = None
    <3>1. entry[h] \in Handles
          BY HandlesAssumption
    <3>2. locked[entry[h]] # h
          BY <3>1, HandlesAssumption DEF Locks
    <3> QED
        BY <3>1, <3>2, HandlesAssumption DEF Locks
  <2>2. ASSUME NEW g \in Handles, Deploy(g) PROVE proc'[entry[h]] = proc[entry[h]]
    <3>1. entry[g] # entry[h]
          BY <2>1, <2>2, HandlesAssumption DEF Deploy, Locks
    <3> QED
        BY <2>1, <2>2, <3>1 DEF Deploy
  <2>3. ASSUME NEW g \in Handles, CloseTransport(entry[g])
        PROVE proc'[entry[h]] \in {proc[entry[h]], None}
        BY <2>1, <2>3 DEF CloseTransport
  <2>4. ASSUME NEW g \in Handles, Step(g) \/ Acquire(g) \/ SendStart(g) \/ Close(g)
        PROVE  Deploy(g) \/ CloseTransport(entry[g]) \/ UNCHANGED proc
        BY <2>4 DEF Step, ConnectRetired, ConnectReuses, ConnectFirst, Handshake, ConnectRaises,
           ConnectFails, SendStart, SendDone, SendFails, Mark, Teardown, CloseDone, Acquire,
           Close, links
  <2>5. ASSUME NEW a \in alive, AgentEnds(a) PROVE UNCHANGED proc
        BY <2>5 DEF AgentEnds
  <2>6. UNCHANGED vars => UNCHANGED proc
        BY DEF vars, links
  <2> QED
      BY <2>2, <2>3, <2>4, <2>5, <2>6 DEF Next
<1>2. Inv /\ [Next]_vars =>
        \A h \in Handles :
            pc[h] \in {"connected", "sending"} /\ entry[h] # None
                => proc'[entry[h]] \in {proc[entry[h]], None}
      BY <1>1
<1> QED
    BY <1>2, Always, PTL DEF Spec, NoSilentReconnect
-----------------------------------------------------------------------------
(* Where connects fail only with SshConnectError, every agent is answered  *)
(* for.                                                                    *)
LEMMA InitAgents == Init => Agents
BY HandlesAssumption DEF Init, Agents

(* A transport that is closed takes its agent with it.                     *)
LEMMA CloseTransportAgents ==
    ASSUME Inv, ~Refusals, Agents, NEW e \in Handles, CloseTransport(e),
           UNCHANGED <<entry, closed, ready>>,
           \A f \in Handles : locked'[f] = locked[f] \/ f \in closed,
           \A g \in Handles : pc'[g] = "deploy" => pc[g] = "deploy",
           \A g \in Handles : entry[g] # e => pc'[g] = pc[g] /\ closing'[g] = closing[g]
    PROVE  Agents'
<1> USE HandlesAssumption DEF Inv, TypeOK, Agents
<1>1. proc' = [proc EXCEPT ![e] = None] /\ alive' = alive \ {proc[e]}
      BY DEF CloseTransport
<1>2. \A a \in alive' : a \in alive /\ entry[a] # e /\ entry[a] \in Handles
      BY <1>1
<1>3. \A a \in alive' : entry'[a] # None /\ proc'[entry'[a]] = a
      BY <1>1, <1>2
<1>4. \A a \in alive' : Ending(entry[a]) => Ending(entry[a])'
      BY <1>2 DEF Ending
<1>5. \A a \in alive' : Ending(entry[a])' \/ entry'[a] \notin closed'
      BY <1>2, <1>4
<1>6. \A f \in Handles :
        locked'[f] = None /\ f \notin ready' /\ f \notin closed' => proc'[f] = None
      BY <1>1
<1>7. \A g \in Handles : pc'[g] = "deploy" => proc'[entry'[g]] = None
  <2> TAKE g \in Handles
  <2> HAVE pc'[g] = "deploy"
  <2>1. entry[g] \in Handles
        BY Entered DEF Shape
  <2> QED
      BY <1>1, <2>1
<1> QED
    BY <1>3, <1>5, <1>6, <1>7

(* Nothing happens to the agents, and nobody gives a teardown up.          *)
LEMMA AgentsStay ==
    ASSUME Agents, ~Refusals, UNCHANGED <<entry, closed, proc>>, alive' \subseteq alive,
           ready \subseteq ready',
           \A e \in Handles : locked'[e] = None => locked[e] = None \/ e \in ready',
           \A h \in Handles : pc'[h] = "deploy" => pc[h] = "deploy",
           \A h \in Handles : pc[h] \in {"mark", "teardown"} => pc'[h] = pc[h],
           UNCHANGED closing
    PROVE  Agents'
<1> USE DEF Agents
<1>1. \A e : Ending(e) => Ending(e)'
      BY DEF Ending
<1>2. \A a \in alive' : Ending(entry[a])' \/ entry'[a] \notin closed'
      BY <1>1
<1> QED
    BY <1>2

LEMMA NextAgents == Inv /\ Agents /\ [Next]_vars => Agents'
<1> SUFFICES ASSUME Inv, Agents, [Next]_vars, ~Refusals PROVE Agents'
    BY DEF Agents
<1> USE HandlesAssumption DEF Inv, Shape, TypeOK, entries, links, Goto
<1>e. \A h \in Handles : pc[h] # "new" => entry[h] \in Handles
      BY Entered
<1>1. ASSUME NEW h \in Handles, ConnectRetired(h) PROVE Agents'
      BY <1>1, <1>e, AgentsStay DEF ConnectRetired
<1>2. ASSUME NEW h \in Handles, ConnectReuses(h) PROVE Agents'
      BY <1>2, <1>e, AgentsStay DEF ConnectReuses
<1>3. ASSUME NEW h \in Handles, ConnectFirst(h) PROVE Agents'
  <2>1. entry[h] \in Handles /\ h \in Users(entry[h])
        BY <1>3, <1>e DEF ConnectFirst, Named, Users
  <2>2. proc[entry[h]] = None
        BY <1>3, <2>1 DEF ConnectFirst, Retired, Agents, Cached
  <2>3. \A e : Ending(e) => Ending(e)'
        BY <1>3 DEF ConnectFirst, Ending
  <2>4. \A a \in alive' : Ending(entry[a])' \/ entry'[a] \notin closed'
        BY <1>3, <2>3 DEF ConnectFirst, Agents
  <2> QED
      BY <1>3, <2>1, <2>2, <2>4 DEF ConnectFirst, Agents
<1>4. ASSUME NEW h \in Handles, Deploy(h) PROVE Agents'
  <2>1. entry[h] \in Handles /\ proc[entry[h]] = None /\ entry[h] \notin closed
        BY <1>4, <1>e DEF Deploy, Agents, Locks
  <2>2. \A a \in alive : entry[a] \in Handles \ {entry[h]}
        BY <2>1 DEF Agents
  <2>3. \A e : Ending(e) => Ending(e)'
        BY <1>4 DEF Deploy, Ending
  <2>4. \A a \in alive' : Ending(entry[a])' \/ entry'[a] \notin closed'
        BY <1>4, <2>1, <2>3 DEF Deploy, Agents
  <2>5. \A a \in alive' : entry'[a] # None /\ proc'[entry'[a]] = a
        BY <1>4, <2>1, <2>2 DEF Deploy, Agents
  <2>6. \A g \in Handles : pc'[g] = "deploy" => proc'[entry'[g]] = None
        BY <1>4, <1>e, <2>1 DEF Deploy, Agents, Locks
  <2>7. \A e \in Handles :
            locked'[e] = None /\ e \notin ready' /\ e \notin closed' => proc'[e] = None
        BY <1>4, <2>1 DEF Deploy, Agents, Locks
  <2> QED
      BY <2>4, <2>5, <2>6, <2>7 DEF Agents
<1>5. ASSUME NEW h \in Handles, Handshake(h) PROVE Agents'
      BY <1>5, <1>e, AgentsStay DEF Unlock, Handshake
<1>6. ASSUME NEW h \in Handles, ConnectRaises(h) PROVE Agents'
      BY <1>6 DEF ConnectRaises
<1>7. ASSUME NEW h \in Handles, ConnectFails(h) PROVE Agents'
      BY <1>7, <1>e, AgentsStay DEF ConnectFails
<1>8. ASSUME NEW h \in Handles, SendDone(h) PROVE Agents'
      BY <1>8, <1>e, AgentsStay DEF SendDone
<1>9. ASSUME NEW h \in Handles, SendFails(h) PROVE Agents'
      BY <1>9, <1>e, AgentsStay DEF SendFails
<1>10. ASSUME NEW h \in Handles, Mark(h) PROVE Agents'
  <2>1. entry[h] \in Handles
        BY <1>10, <1>e DEF Mark
  <2>2. \A e : Ending(e) => Ending(e)'
        BY <1>10 DEF Mark, Ending
  <2>3. Ending(entry[h])'
        BY <1>10, <2>1 DEF Mark, Ending
  <2>4. \A a \in alive' : Ending(entry[a])' \/ entry'[a] \notin closed'
    <3> TAKE a \in alive'
    <3>1. CASE entry[a] = entry[h]
      <4>1. entry' = entry /\ pc'[h] = "teardown" /\ h \in Handles
            BY <1>10 DEF Mark
      <4>2. Ending(entry[a])'
            BY <3>1, <4>1 DEF Ending
      <4> QED
          BY <4>2
    <3>2. CASE entry[a] # entry[h]
          BY <1>10, <2>2, <3>2 DEF Mark, Agents
    <3> QED
        BY <3>1, <3>2
  <2> QED
      BY <1>10, <2>4 DEF Mark, Agents
<1>11. ASSUME NEW h \in Handles, Teardown(h) PROVE Agents'
  <2>1. entry[h] \in Handles /\ entry[h] \in closed
        BY <1>11, <1>e DEF Teardown, Retired
  <2> QED
      BY <1>11, <2>1, CloseTransportAgents DEF Teardown, AfterTeardown, Unlock
<1>12. ASSUME NEW h \in Handles, CloseDone(h) PROVE Agents'
  <2>1. entry[h] \in Handles
        BY <1>12, <1>e DEF CloseDone, Named
  <2> QED
      BY <1>12, <2>1, CloseTransportAgents DEF CloseDone
<1>13. ASSUME NEW h \in Handles, Acquire(h) PROVE Agents'
  <2>1. entry[h] = None
        BY <1>13 DEF Acquire, Named
  <2>2. \A a \in alive : a # h /\ entry[a] \in Handles
        BY <2>1 DEF Agents
  <2>3. \A e \in Handles : Ending(e) => Ending(e)'
        BY <1>13, <2>1 DEF Acquire, Ending
  <2>4. \A a \in alive' : entry'[a] = entry[a] /\ a \in alive
        BY <1>13, <2>2 DEF Acquire
  <2>5. \A a \in alive' : Ending(entry[a])' \/ entry'[a] \notin closed'
    <3> TAKE a \in alive'
    <3>1. PICK e \in Handles : e = entry[a] /\ e = entry'[a]
          BY <2>2, <2>4
    <3>2. Ending(e) \/ e \notin closed
          BY <2>4, <3>1 DEF Agents
    <3>3. Ending(e)' \/ e \notin closed'
          BY <1>13, <2>3, <3>2 DEF Acquire
    <3>4. Ending(e)' => Ending(entry[a])'
          BY <3>1 DEF Ending
    <3> QED
        BY <3>1, <3>3, <3>4
  <2> QED
      BY <1>13, <2>1, <2>4, <2>5 DEF Acquire, Agents
<1>14. ASSUME NEW h \in Handles, SendStart(h) PROVE Agents'
      BY <1>14, <1>e, AgentsStay DEF SendStart
<1>15. ASSUME NEW h \in Handles, Close(h) PROVE Agents'
  <2>1. entry[h] \in Handles
        BY <1>15, CloseCount
  <2>2. \A e : Ending(e) => Ending(e)'
        BY <1>15 DEF Close, Release, Ending
  <2>3. \A a \in alive' : Ending(entry[a])' \/ entry'[a] \notin closed'
    <3> TAKE a \in alive'
    <3>1. UNCHANGED <<entry, alive>> /\ (Ending(entry[a]) \/ entry[a] \notin closed)
          BY <1>15 DEF Close, Agents
    <3>2. CASE Ending(entry[a])
          BY <2>2, <3>1, <3>2
    <3>3. CASE entry[a] \notin closed /\ entry[a] \in closed'
      <4>1. entry[a] = entry[h] /\ closing'[h] = "teardown"
            BY <1>15, <3>3 DEF Close, Release
      <4>2. Ending(entry[a])'
            BY <3>1, <4>1 DEF Ending
      <4> QED
          BY <4>2
    <3> QED
        BY <3>1, <3>2, <3>3
  <2>4. \A e \in Handles : e \notin closed' => e \notin closed
        BY <1>15 DEF Close, Release
  <2> QED
      BY <1>15, <2>3, <2>4 DEF Close, Agents
<1>16. ASSUME NEW a \in alive, AgentEnds(a) PROVE Agents'
      BY <1>16, AgentsStay DEF AgentEnds
<1>17. ASSUME UNCHANGED vars PROVE Agents'
      BY <1>17, AgentsStay DEF vars
<1> QED
    BY <1>1, <1>2, <1>3, <1>4, <1>5, <1>6, <1>7, <1>8, <1>9, <1>10, <1>11, <1>12, <1>13,
       <1>14, <1>15, <1>16, <1>17 DEF Next, Step

LEMMA AlwaysAgents == Spec => [](Inv /\ Agents)
BY InitInv, NextInv, InitAgents, NextAgents, PTL DEF Spec

(* Every agent on the target is used by a handle or about to be ended,     *)
(* where a connect raises nothing but SshConnectError.                     *)
THEOREM Accounted == Spec => [](~Refusals => AgentsAccounted)
<1>1. ASSUME Inv, Agents, ~Refusals PROVE AgentsAccounted
  <2> SUFFICES ASSUME NEW a \in alive
               PROVE  \E e \in Handles :
                        /\ proc[e] = a
                        /\ Ending(e) \/ (e \notin closed /\ Users(e) # {})
      BY DEF AgentsAccounted
  <2>1. entry[a] \in Handles /\ proc[entry[a]] = a
        BY <1>1 DEF Agents, Inv, TypeOK
  <2>2. Ending(entry[a]) \/ entry[a] \notin closed
        BY <1>1 DEF Agents
  <2>3. entry[a] \notin closed => Users(entry[a]) # {}
    <3>1. entry[a] \notin closed => entry[a] = registry
          BY <1>1, <2>1, HandlesAssumption DEF Inv, TypeOK, Shape, Retired
    <3> QED
        BY <1>1, <2>1, <3>1, HandlesAssumption DEF Inv, Shape, Retired
  <2> QED
      BY <2>1, <2>2, <2>3
<1>2. Inv /\ Agents => (~Refusals => AgentsAccounted)
      BY <1>1
<1> QED
    BY <1>2, AlwaysAgents, PTL

(* Of several agents on the target all but one are about to be ended.      *)
THEOREM OneLasting == Spec => [](~Refusals => OneLastingAgent)
<1>1. ASSUME Inv, Agents, ~Refusals PROVE OneLastingAgent
  <2> SUFFICES ASSUME NEW a \in alive, NEW b \in alive,
                      ~Ending(entry[a]), ~Ending(entry[b])
               PROVE  a = b
      BY DEF OneLastingAgent
  <2>1. entry[a] \notin closed /\ entry[b] \notin closed
        BY <1>1 DEF Agents
  <2>2. entry[a] = registry /\ entry[b] = registry
        BY <1>1, <2>1 DEF Inv, TypeOK, Shape, Retired, Agents
  <2> QED
      BY <1>1, <2>2 DEF Agents
<1>2. Inv /\ Agents => (~Refusals => OneLastingAgent)
      BY <1>1
<1> QED
    BY <1>2, AlwaysAgents, PTL
-----------------------------------------------------------------------------
(* The calls over the connection, as the runs of MCTransport have them.    *)

WP == INSTANCE WireCallsProofs WITH pc <- place, lock <- user, broken <- marked

(* Both instances make the same assumptions...                             *)
LEMMA SameAssumption == Wire!WireAssumption => WP!WireAssumption
<1>1. \A S : Wire!IsFiniteSet(S) => WP!IsFiniteSet(S)
      BY DEF Wire!IsFiniteSet, WP!IsFiniteSet
<1> QED
    BY <1>1 DEF Wire!WireAssumption, WP!WireAssumption, Wire!Lines, WP!Lines, Wire!Calls,
       WP!Calls, Wire!Closing, WP!Closing

(* ... and name the same specification.                                  *)
LEMMA SameCalls == Wire!Spec => WP!Spec
<1>1. Wire!Init => WP!Init
      BY DEF Wire!Init, WP!Init, Wire!Calls, WP!Calls
<1>2. Wire!Next => WP!Next
  <2>0. Wire!Calls = WP!Calls
        BY DEF Wire!Calls, WP!Calls
  <2>1. Wire!Connect => WP!Connect
    <3>1. Wire!Handshakes = WP!Handshakes /\ Wire!pipes = WP!pipes
          BY DEF Wire!Handshakes, WP!Handshakes, Wire!pipes, WP!pipes
    <3>2. \A h : Wire!Valid(h) <=> WP!Valid(h)
          BY DEF Wire!Valid, WP!Valid
    <3> QED
        BY <3>1, <3>2, Zenon DEF Wire!Connect, WP!Connect, Wire!pipes, WP!pipes
  <2>2. Wire!Dispatch => WP!Dispatch
        BY SMT DEF Wire!Dispatch, WP!Dispatch, Wire!Runs, WP!Runs, Wire!Calls, WP!Calls
  <2>3. Wire!AgentEnds => WP!AgentEnds
        BY SMT DEF Wire!AgentEnds, WP!AgentEnds, Wire!Calls, WP!Calls
  <2>4. Wire!Read => WP!Read
        BY SMT DEF Wire!Read, WP!Read, Wire!Delivered, WP!Delivered, Wire!Calls, WP!Calls
  <2>5. ASSUME NEW c \in Wire!Calls, Wire!Call(c) PROVE WP!Call(c)
    <3>1. Wire!Start(c) => WP!Start(c)
          BY SMT DEF Wire!Start, WP!Start, Wire!Goto, WP!Goto, Wire!Calls, WP!Calls, Wire!pipes,
                 WP!pipes
    <3>2. Wire!Check(c) => WP!Check(c)
          BY SMT DEF Wire!Check, WP!Check, Wire!Goto, WP!Goto, Wire!pipes, WP!pipes
    <3>3. Wire!Enter(c) => WP!Enter(c)
          BY SMT DEF Wire!Enter, WP!Enter, Wire!Goto, WP!Goto, Wire!pipes, WP!pipes
    <3>4. Wire!Write(c) => WP!Write(c)
          BY SMT DEF Wire!Write, WP!Write, Wire!Goto, WP!Goto, Wire!Written, WP!Written,
                 Wire!Line, WP!Line, Wire!pipes, WP!pipes
    <3>5. Wire!Return(c) => WP!Return(c)
          BY SMT DEF Wire!Return, WP!Return, Wire!Goto, WP!Goto, Wire!Runs, WP!Runs, Wire!IdOf,
                 WP!IdOf, Wire!pipes, WP!pipes
    <3>6. Wire!TimeOut(c) => WP!TimeOut(c)
          BY SMT DEF Wire!TimeOut, WP!TimeOut, Wire!Goto, WP!Goto, Wire!pipes, WP!pipes
    <3>7. Wire!MarkBroken(c) => WP!MarkBroken(c)
          BY SMT DEF Wire!MarkBroken, WP!MarkBroken, Wire!Goto, WP!Goto, Wire!pipes, WP!pipes
    <3>8. Wire!CloseAsk(c) => WP!CloseAsk(c)
          BY SMT DEF Wire!CloseAsk, WP!CloseAsk, Wire!Goto, WP!Goto, Wire!Closing, WP!Closing,
                 Wire!Written, WP!Written, Wire!Line, WP!Line, Wire!pipes, WP!pipes
    <3>9. Wire!CloseGoesOn(c) => WP!CloseGoesOn(c)
          BY SMT DEF Wire!CloseGoesOn, WP!CloseGoesOn, Wire!Goto, WP!Goto, Wire!Closing,
                 WP!Closing, Wire!Line, WP!Line, Wire!pipes, WP!pipes
    <3>10. Wire!Shut(c) => WP!Shut(c)
          BY SMT DEF Wire!Shut, WP!Shut, Wire!Goto, WP!Goto, Wire!pipes, WP!pipes
    <3> QED
        BY <2>5, <3>1, <3>2, <3>3, <3>4, <3>5, <3>6, <3>7, <3>8, <3>9, <3>10 DEF Wire!Call, WP!Call
  <2> QED
      BY <2>0, <2>1, <2>2, <2>3, <2>4, <2>5 DEF Wire!Next, WP!Next
<1>3. UNCHANGED Wire!vars => UNCHANGED WP!vars
      BY DEF Wire!vars, WP!vars, Wire!pipes, WP!pipes
<1> QED
    BY <1>1, <1>2, <1>3, PTL DEF Wire!Spec, WP!Spec

(* With one backend over the transport, every answer a call returns is its *)
(* own, and whoever finds the lock free and no mark finds empty pipes.     *)
THEOREM WirePaired ==
    ASSUME Wire!WireAssumption, \A a, b \in Backends : a = b
    PROVE  Wire!Spec => []Paired
<1>0. WP!WireAssumption /\ WP!OneBackend
      BY SameAssumption DEF WP!OneBackend
<1>1. WP!Spec => []WP!Paired
      BY <1>0, WP!AnswersPaired
<1>2. WP!Paired => Paired
      BY DEF Paired, Wire!Paired, WP!Paired, Wire!TypeOK, WP!TypeOK, Wire!OwnAnswer, WP!OwnAnswer,
             Wire!InSync, WP!InSync, Wire!Calls, WP!Calls, Wire!Closing, WP!Closing,
             Wire!Lines, WP!Lines, Wire!Line, WP!Line, Wire!Places, WP!Places
<1> QED
    BY <1>1, <1>2, SameCalls, PTL

(* Such calls keep the promise of RemoteCall.                              *)
THEOREM WireAtMostOnce ==
    ASSUME Wire!WireAssumption, \A a, b \in Backends : a = b
    PROVE  Wire!Spec => AtMostOnce
<1>0. WP!WireAssumption /\ WP!OneBackend
      BY SameAssumption DEF WP!OneBackend
<1>1. WP!Spec => WP!AtMostOnce
      BY <1>0, WP!RefinesRemoteCall
<1>2. WP!Promise!Init => Wire!Promise!Init
      BY DEF Wire!Promise!Init, WP!Promise!Init, Wire!Calls, WP!Calls, Wire!Status,
             WP!Status
<1>3. WP!Promise!Next => Wire!Promise!Next
      BY DEF Wire!Promise!Next, WP!Promise!Next, Wire!Promise!Open, WP!Promise!Open,
             Wire!Promise!Run, WP!Promise!Run, Wire!Promise!Succeed, WP!Promise!Succeed,
             Wire!Promise!Fail, WP!Promise!Fail, Wire!Calls, WP!Calls, Wire!Status,
             WP!Status
<1>4. UNCHANGED WP!Promise!vars => UNCHANGED Wire!Promise!vars
      BY DEF Wire!Promise!vars, WP!Promise!vars, Wire!Calls, WP!Calls, Wire!Status,
             WP!Status
<1> QED
    BY <1>1, <1>2, <1>3, <1>4, SameCalls, PTL
    DEF AtMostOnce, Wire!AtMostOnce, WP!AtMostOnce, Wire!Promise!Spec, WP!Promise!Spec
=============================================================================
