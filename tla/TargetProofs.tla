------------------------------- MODULE TargetProofs -------------------------------
(***************************************************************************)
(* The four parts of MCTarget for any agents, sessions, displays and calls.*)
(* Scratch leases: no sweep removes the directory of a running agent or one*)
(* it did not lock.  The band: an overlay covers every session that drives,*)
(* and is lowered after the last.  Captures: no guard's refusal is passed  *)
(* over.  Observed control: an act lands on what it was selected from.     *)
(* Each part has an inductive invariant of its own.                        *)
(***************************************************************************)
EXTENDS MCTarget, Sequences, FiniteSetTheorems, TLAPS

-----------------------------------------------------------------------------
(***************************************************************************)
(* Scratch leases.                                                         *)
(***************************************************************************)

(* The marker of an agent follows its start; a valid one is locked by its  *)
(* agent for as long as that runs.                                         *)
Marked ==
    \A a \in Agents :
        /\ marker[a] # "none" => run[a] \notin {"no", "made"}
        /\ run[a] \in {"marked", "locked"} => marker[a] = "partial"
        /\ run[a] = "locked" => lock[a] = a
        /\ lock[a] = a => run[a] \in {"locked", "started"}
        /\ marker[a] = "valid" /\ run[a] # "gone" => run[a] = "started" /\ lock[a] = a

(* What a sweep has opened was complete then: its agent still runs with the*)
(* lock, or is gone.                                                       *)
Opened ==
    \A s \in Agents : step[s] # "idle" =>
        /\ run[s] = "started" /\ name[s] \in Names /\ dir[s] \in Agents
        /\ run[dir[s]] = "gone" \/ (run[dir[s]] = "started" /\ lock[dir[s]] = dir[s])

(* What a sweep has locked belonged to an agent that is gone, and what it  *)
(* removes is still what it locked.                                        *)
Locked ==
    \A s \in Agents :
        /\ step[s] \in {"locked", "removing"} => lock[dir[s]] = s /\ dir[s] # s
        /\ step[s] = "removing" =>
            run[dir[s]] = "gone" /\ bound[name[s]] = dir[s] /\ marker[dir[s]] = "valid"

Inv == TypeOK /\ LiveKept /\ Marked /\ Opened /\ Locked

-----------------------------------------------------------------------------
(* A sweep that holds a lock holds that of an agent that is gone.          *)
LEMMA LockedIsGone ==
    ASSUME Inv, NEW s \in Agents, step[s] \in {"locked", "removing"}
    PROVE  /\ dir[s] \in Agents /\ name[s] \in Names
           /\ run[dir[s]] = "gone" /\ dir[s] # s /\ lock[dir[s]] = s
<1>1. dir[s] \in Agents /\ name[s] \in Names /\ run[s] = "started"
      BY DEF Inv, Opened
<1>2. lock[dir[s]] = s
      BY DEF Inv, Locked
<1>3. run[dir[s]] = "gone"
      BY <1>2 DEF Inv, Opened, Locked
<1> QED
    BY <1>1, <1>2, <1>3

(* Two sweeps never hold the same lock, and so never remove one entry.     *)
LEMMA Apart ==
    ASSUME Inv, NEW s \in Agents, NEW t \in Agents, s # t,
           step[s] \in {"locked", "removing"}, step[t] \in {"locked", "removing"}
    PROVE  dir[s] # dir[t]
BY LockedIsGone

LEMMA ApartByName ==
    ASSUME Inv, NEW s \in Agents, NEW t \in Agents, s # t,
           step[s] = "removing", step[t] = "removing"
    PROVE  name[s] # name[t]
BY Apart DEF Inv, Locked

-----------------------------------------------------------------------------
LEMMA InitInv == Init => Inv
BY LeaseAssumption DEF Init, Inv, TypeOK, LiveKept, Alive, Marked, Opened, Locked

(* The steps of an agent's start touch its own marker and lock only.       *)
LEMMA StartInv ==
    ASSUME Inv, NEW a \in Agents, Make(a) \/ Mark(a) \/ Lock(a) \/ Write(a) \/ Age(a)
    PROVE  Inv'
<1>1. CASE Make(a)
      BY <1>1, LeaseAssumption
      DEF Make, Becomes, sweep, Inv, TypeOK, LiveKept, Alive, Marked, Opened, Locked
<1>2. CASE Mark(a)
      BY <1>2, LeaseAssumption
      DEF Mark, Becomes, sweep, Inv, TypeOK, LiveKept, Alive, Marked, Opened, Locked
<1>3. CASE Lock(a)
      BY <1>3, LeaseAssumption
      DEF Lock, Becomes, sweep, Inv, TypeOK, LiveKept, Alive, Marked, Opened, Locked
<1>4. CASE Write(a)
      BY <1>4, LeaseAssumption
      DEF Write, Becomes, sweep, Inv, TypeOK, LiveKept, Alive, Marked, Opened, Locked
<1>5. CASE Age(a)
      BY <1>5, LeaseAssumption
      DEF Age, sweep, Inv, TypeOK, LiveKept, Alive, Marked, Opened, Locked
<1> QED
    BY <1>1, <1>2, <1>3, <1>4, <1>5

(* The end of an agent frees its locks and its sweep.                      *)
LEMMA EndInv ==
    ASSUME Inv, NEW a \in Agents, Exit(a) \/ Kill(a)
    PROVE  Inv'
<1>1. CASE Exit(a)
      BY <1>1, LeaseAssumption
      DEF Exit, Ends, Becomes, Inv, TypeOK, LiveKept, Alive, Marked, Opened, Locked
<1>2. CASE Kill(a)
      BY <1>2, LeaseAssumption
      DEF Kill, Ends, Becomes, Inv, TypeOK, LiveKept, Alive, Marked, Opened, Locked
<1> QED
    BY <1>1, <1>2

(* The steps of a sweep.                                                   *)
LEMMA SweepInv ==
    ASSUME Inv, NEW s \in Agents, Open(s) \/ Grab(s) \/ Check(s) \/ Remove(s)
    PROVE  Inv'
<1>1. CASE Open(s)
      BY <1>1, LeaseAssumption
      DEF Open, Valid, Inv, TypeOK, LiveKept, Alive, Marked, Opened, Locked
<1>2. CASE Grab(s)
      BY <1>2, LeaseAssumption
      DEF Grab, Idle, Inv, TypeOK, LiveKept, Alive, Marked, Opened, Locked
<1>3. CASE Check(s)
      BY <1>3, LeaseAssumption, LockedIsGone
      DEF Check, Idle, Valid, Inv, TypeOK, LiveKept, Alive, Marked, Opened, Locked
<1>4. CASE Remove(s)
      BY <1>4, LeaseAssumption, LockedIsGone, Apart
      DEF Remove, Idle, Inv, TypeOK, LiveKept, Alive, Marked, Opened, Locked
<1> QED
    BY <1>1, <1>2, <1>3, <1>4

LEMMA NextInv == Inv /\ [Next]_vars => Inv'
<1> SUFFICES ASSUME Inv, [Next]_vars PROVE Inv'
    OBVIOUS
<1>1. CASE Next
      BY <1>1, StartInv, EndInv, SweepInv DEF Next
<1>2. CASE UNCHANGED vars
      BY <1>2 DEF vars, sweep, Inv, TypeOK, LiveKept, Alive, Marked, Opened, Locked
<1> QED
    BY <1>1, <1>2

THEOREM LeaseInvariant == Spec => []Inv
<1>1. Inv /\ [Next]_vars => Inv'
      BY NextInv
<1> QED
    BY InitInv, <1>1, PTL DEF Spec

-----------------------------------------------------------------------------
(* A running agent keeps its directory, whoever sweeps                     *)
(* (sweep_stale_agent_dirs) and however old its marker is.                 *)
THEOREM LiveDirectoriesKept == Spec => []LiveKept
<1>1. Inv => LiveKept
      BY DEF Inv
<1> QED
    BY LeaseInvariant, <1>1, PTL

(* _remove_if_unlocked_stale removes nothing but the directory it locked,  *)
(* and no two sweeps remove the same entry.                                *)
THEOREM OneRemoverOfItsOwn == Spec => [](OneRemover /\ RemovesWhatItLocked)
<1>1. Inv => OneRemover
      BY ApartByName DEF OneRemover
<1>2. Inv => RemovesWhatItLocked
      BY LockedIsGone DEF Inv, Locked, RemovesWhatItLocked
<1> QED
    BY LeaseInvariant, <1>1, <1>2, PTL

(* No step unbinds the directory of a dead agent without a valid marker.   *)
LEMMA UnleasedStep ==
    ASSUME Inv, [Next]_vars, NEW n \in Names, bound[n] # None, bound'[n] # bound[n]
    PROVE  run[bound[n]] # "gone" \/ marker[bound[n]] = "valid"
<1>1. PICK a \in Agents : Make(a) \/ Exit(a) \/ Remove(a)
      BY DEF Next, vars, Mark, Lock, Write, Kill, Age, Open, Grab, Check
<1>2. CASE Make(a)
      BY <1>2 DEF Make, Inv, TypeOK
<1>3. CASE Exit(a)
      BY <1>3 DEF Exit, Alive, Inv, TypeOK
<1>4. CASE Remove(a)
      BY <1>4, LockedIsGone DEF Remove, Inv, TypeOK, Locked
<1> QED
    BY <1>1, <1>2, <1>3, <1>4

(* The sweep is safe: the types, the three invariants above, and that only *)
(* a directory with a completed lease is ever swept.                       *)
THEOREM SweepIsSafe == Spec => SweepSafe
<1>1. Inv => TypeOK /\ LiveKept /\ OneRemover /\ RemovesWhatItLocked
      BY ApartByName, LockedIsGone
      DEF Inv, Locked, OneRemover, RemovesWhatItLocked
<1>2. Inv /\ [Next]_vars =>
        [\A n \in Names : bound[n] # None /\ bound'[n] # bound[n] =>
            run[bound[n]] # "gone" \/ marker[bound[n]] = "valid"]_vars
      BY UnleasedStep
<1>3. Spec => [](TypeOK /\ LiveKept /\ OneRemover /\ RemovesWhatItLocked)
      BY LeaseInvariant, <1>1, PTL
<1>4. Spec => UnleasedKept
      BY LeaseInvariant, <1>2, PTL DEF Spec, UnleasedKept
<1> QED
    BY <1>3, <1>4, PTL DEF SweepSafe

-----------------------------------------------------------------------------
(***************************************************************************)
(* The band.                                                               *)
(***************************************************************************)

Labels == {"unmounted", "unavailable", "idle", "asking", "enter", "in", "ledger", "lower"}

(* The tracked calls in flight.                                            *)
Drivers == {s \in Sessions : at[s] = "in" /\ Bands!Tracked(s)}

(* What a session has been told follows from where it stands; a session    *)
(* that asks was among those that asked when the decision was stored, and  *)
(* after a no only such a session can still have got a yes.                *)
Told ==
    \A s \in Sessions :
        /\ at[s] \in {"enter", "in", "ledger", "lower"} => said[s] = "yes"
        /\ at[s] = "asking" =>
            said[s] = "no" /\ s \notin closed \cup Declining /\ (decision # None => s \in overlap)
        /\ said[s] = "no" => handle[s] = None
        /\ s \notin Declining /\ said[s] # "no" => decision # None
        /\ s \notin Declining /\ said[s] = "yes" /\ decision = Refused => s \in overlap

(* Whoever lowers an overlay has one, and every overlay that is up is      *)
(* somebody's.                                                             *)
Carried ==
    /\ \A s \in Sessions :
        /\ at[s] \in {"ledger", "lower"} => Bands!Tracked(s)
        /\ at[s] \in {"asking", "enter"} => s \notin away
    /\ \A h \in shown : \E s \in Sessions : handle[s] = h

(* An overlay that is up has somebody on the way to lower it, or one of    *)
(* the known reasons to stay.                                              *)
TwoOverlays == \E r, s \in Sessions : Bands!Tracked(r) /\ Bands!Tracked(s) /\ handle[r] # handle[s]

Minds(s) ==
    Bands!Tracked(s) /\ (at[s] \in {"in", "ledger",
    "lower"} \/ (at[s] = "enter" /\ s \notin closed))

Minded == shown # {} /\ leftover = {} => TwoOverlays \/ \E s \in Sessions : Minds(s)

BandInv ==
    Bands!TypeOK /\ Bands!DepthCounts /\ Bands!CoversDriving /\ Told /\ Carried /\ Minded

-----------------------------------------------------------------------------
(* An instance has operators of its own for finite sets; they are the same.*)
LEMMA BandSets ==
    \A S : (Bands!IsFiniteSet(S) <=> IsFiniteSet(S)) /\ Bands!Cardinality(S) = Cardinality(S)
<1>1. \A S : Bands!IsFiniteSet(S) <=> IsFiniteSet(S)
      BY DEF Bands!IsFiniteSet, IsFiniteSet
<1>2. \A S : Bands!Cardinality(S) = Cardinality(S)
      BY DEF Bands!Cardinality, Cardinality
<1> QED
    BY <1>1, <1>2

LEMMA SessionsKnown ==
    /\ IsFiniteSet(Sessions) /\ Declining \subseteq Sessions
    /\ Cardinality({None, NoHandle, Refused} \cup Sessions) = Cardinality(Sessions) + 3
BY BandsAssumed, BandSets DEF Bands!SessionsAssumption

(* The sessions and the three answers are all different.                   *)
LEMMA AnswersDiffer ==
    /\ None \notin Sessions /\ NoHandle \notin Sessions /\ Refused \notin Sessions
    /\ None # NoHandle /\ None # Refused /\ NoHandle # Refused
<1> DEFINE A == Sessions \cup {None}
           B == A \cup {NoHandle}
           C == B \cup {Refused}
<1>1. IsFiniteSet(Sessions) /\ Cardinality(Sessions) \in Nat
      BY SessionsKnown, FS_CardinalityType
<1>2. IsFiniteSet(A) /\
      Cardinality(A) = IF None \in Sessions THEN Cardinality(Sessions) ELSE Cardinality(Sessions) + 1
      BY <1>1, FS_AddElement
<1>3. IsFiniteSet(B) /\
      Cardinality(B) = IF NoHandle \in A THEN Cardinality(A) ELSE Cardinality(A) + 1
      BY <1>2, FS_AddElement
<1>4. Cardinality(C) = IF Refused \in B THEN Cardinality(B) ELSE Cardinality(B) + 1
      BY <1>3, FS_AddElement
<1>5. C = {None, NoHandle, Refused} \cup Sessions
      OBVIOUS
<1>6. Cardinality(C) = Cardinality(Sessions) + 3
      BY <1>5, SessionsKnown
<1>7. None \notin Sessions /\ NoHandle \notin A /\ Refused \notin B
      BY <1>1, <1>2, <1>3, <1>4, <1>6
<1> QED
    BY <1>7

LEMMA DriversFinite == Bands!TypeOK => IsFiniteSet(Drivers) /\ Cardinality(Drivers) \in Nat
BY SessionsKnown, FS_Subset, FS_CardinalityType DEF Bands!TypeOK, Drivers

LEMMA Counts == Bands!DepthCounts <=> depth = Cardinality(Drivers)
BY BandSets DEF Bands!DepthCounts, Drivers

LEMMA CountsNext == Bands!DepthCounts' <=> depth' = Cardinality(Drivers')
BY BandSets DEF Bands!DepthCounts, Drivers

(* Nobody drives exactly when the depth is zero.                           *)
LEMMA DepthZero == ASSUME Bands!TypeOK, Bands!DepthCounts PROVE depth = 0 <=> Drivers = {}
BY Counts, DriversFinite, FS_EmptySet

(* A call of s enters or leaves; other calls stay where they are.          *)
LEMMA DriversStep ==
    ASSUME Bands!TypeOK, NEW s \in Sessions, NEW label \in Labels, Bands!Goto(s, label),
    UNCHANGED handle
    PROVE  Drivers' = IF label = "in" /\ Bands!Tracked(s) THEN Drivers \cup {s} ELSE Drivers \ {s}
BY DEF Bands!TypeOK, Labels, Bands!Goto, Drivers, Bands!Tracked

(* A step that tells s something, or moves it, while it does not drive.    *)
LEMMA DriversSame ==
    ASSUME Bands!TypeOK, NEW s \in Sessions, at[s] # "in", at'[s] # "in",
           \A t \in Sessions \ {s} : at'[t] = at[t] /\ handle'[t] = handle[t]
    PROVE  Drivers' = Drivers
BY DEF Drivers, Bands!Tracked

LEMMA DriversStill == ASSUME UNCHANGED <<at, handle>> PROVE Drivers' = Drivers
BY DEF Drivers, Bands!Tracked

-----------------------------------------------------------------------------
(* Types.                                                                  *)
LEMMA InitBandTypes == Bands!Init => Bands!TypeOK
<1> SUFFICES ASSUME Bands!Init PROVE Bands!TypeOK
    OBVIOUS
<1>1. said \in [Sessions -> {"no", "yes", "refused"}]
      BY DEF Bands!Init
<1>2. blind \in [Sessions -> BOOLEAN]
      BY Zenon DEF Bands!Init
<1>3. handle \in [Sessions -> Sessions \cup {None, NoHandle}]
      BY Zenon DEF Bands!Init
<1> QED
    BY <1>1, <1>2, <1>3 DEF Bands!Init, Bands!TypeOK

LEMMA AnswersKnown ==
    ASSUME Bands!TypeOK, NEW s \in Sessions, NEW a \in Bands!Answers(s)
    PROVE  a \in {s, NoHandle, Refused} /\ (channel = "overlay" \/ a # s \/ s \in {NoHandle,
    Refused})
BY DEF Bands!TypeOK, Bands!Answers, Bands!Channels, Bands!Judged, Bands!DialogEnds,
   Bands!RemoteAnswers, Bands!Failure

LEMMA NextBandTypes == ASSUME BandInv, [Bands!Next]_(Bands!vars) PROVE Bands!TypeOK'
<1> USE DEF BandInv, Bands!TypeOK, Bands!decisions, Bands!driving, Bands!Goto
<1>1. CASE Bands!People
      BY <1>1 DEF Bands!People
<1>2. CASE Bands!Deadman
      BY <1>2 DEF Bands!Deadman
<1>3. ASSUME NEW s \in Sessions, Bands!Mount(s) PROVE Bands!TypeOK'
      BY <1>3 DEF Bands!Mount
<1>4. ASSUME NEW s \in Sessions, Bands!Ask(s) PROVE Bands!TypeOK'
  <2>1. at' = at \/ at' = [at EXCEPT ![s] = "asking"] \/ at' = [at EXCEPT ![s] = "enter"]
        BY <1>4 DEF Bands!Ask
  <2>2. said' = said \/ said' = [said EXCEPT ![s] = "yes"] \/ said' = [said EXCEPT ![s] = "refused"]
        BY <1>4 DEF Bands!Ask
  <2>3. handle' = handle
            \/ (decision \in Sessions \cup {NoHandle} /\ handle' = [handle EXCEPT ![s] = decision])
        BY <1>4 DEF Bands!Ask
  <2>4. UNCHANGED <<channel, feared, decision, overlap, shown, Bands!driving, closed, away,
  leftover>>
        BY <1>4 DEF Bands!Ask
  <2> QED
      BY <2>1, <2>2, <2>3, <2>4
<1>5. ASSUME NEW s \in Sessions, Bands!Answer(s) PROVE Bands!TypeOK'
  <2>1. PICK a \in Bands!Answers(s) :
         /\ decision' = IF decision = None THEN a ELSE decision
         /\ said' = [said EXCEPT ![s] = IF a = Refused THEN "refused" ELSE "yes"]
         /\ handle' = [handle EXCEPT ![s] = IF a = Refused THEN None ELSE a]
         /\ shown' = IF a = s THEN shown \cup {s} ELSE shown
         /\ Bands!Goto(s, IF a = Refused THEN "idle" ELSE "enter")
        BY <1>5 DEF Bands!Answer
  <2>2. a \in {s, NoHandle, Refused}
        BY AnswersKnown
  <2>3. /\ overlap' = IF decision = None THEN {r \in Sessions : at[r] = "asking"} ELSE overlap
        /\ UNCHANGED <<channel, feared, Bands!driving, closed, away, leftover>>
        BY <1>5 DEF Bands!Answer
  <2>4. handle' \in [Sessions -> Sessions \cup {None, NoHandle}]
        BY <2>1, <2>2
  <2>5. decision' \in Sessions \cup {None, NoHandle, Refused}
        BY <2>1, <2>2
  <2>6. said' \in [Sessions -> {"no", "yes", "refused"}] /\ shown' \subseteq Sessions
        BY <2>1
  <2> QED
      BY <2>1, <2>3, <2>4, <2>5, <2>6
<1>6. ASSUME NEW s \in Sessions, Bands!Call(s) PROVE Bands!TypeOK'
      BY <1>6 DEF Bands!Call
<1>7. ASSUME NEW s \in Sessions, Bands!Abandon(s) PROVE Bands!TypeOK'
      BY <1>7 DEF Bands!Abandon, Bands!Left
<1>8. ASSUME NEW s \in Sessions, Bands!Enter(s) PROVE Bands!TypeOK'
  <2>1. depth' = depth \/ depth' = depth + 1
        BY <1>8 DEF Bands!Enter
  <2>2. shown' = shown \/ (shown' = shown \cup {handle[s]} /\ Bands!Tracked(s))
        BY <1>8 DEF Bands!Enter
  <2>3. blind' = blind \/ blind' = [blind EXCEPT ![s] = TRUE]
        BY <1>8 DEF Bands!Enter
  <2>4. at' = [at EXCEPT ![s] = "idle"] \/ at' = [at EXCEPT ![s] = "in"]
        BY <1>8 DEF Bands!Enter
  <2>5. UNCHANGED <<channel, feared, Bands!decisions, held, closed, away, leftover>>
        BY <1>8 DEF Bands!Enter
  <2>6. blind' \in [Sessions -> BOOLEAN]
        BY <2>3
  <2> QED
      BY <2>1, <2>2, <2>4, <2>5, <2>6 DEF Bands!Tracked
<1>9. ASSUME NEW s \in Sessions, Bands!Press(s) \/ Bands!Release(s) PROVE Bands!TypeOK'
      BY <1>9 DEF Bands!Press, Bands!Release
<1>10. ASSUME NEW s \in Sessions, Bands!ExitDepth(s) PROVE Bands!TypeOK'
  <2>1. Bands!Tracked(s) => depth # 0
    <3> SUFFICES ASSUME Bands!Tracked(s) PROVE s \in Drivers
        BY DepthZero
    <3> QED
        BY <1>10 DEF Bands!ExitDepth, Drivers
  <2>2. depth' \in Nat
        BY <1>10, <2>1 DEF Bands!ExitDepth
  <2>3. at' = [at EXCEPT ![s] = "idle"] \/ at' = [at EXCEPT ![s] = "ledger"]
        BY <1>10 DEF Bands!ExitDepth
  <2>4. blind' \in [Sessions -> BOOLEAN]
        BY <1>10 DEF Bands!ExitDepth
  <2> QED
      BY <1>10, <2>2, <2>3, <2>4 DEF Bands!ExitDepth
<1>11. ASSUME NEW s \in Sessions, Bands!ExitLedger(s) PROVE Bands!TypeOK'
      BY <1>11 DEF Bands!ExitLedger, Bands!Left
<1>12. ASSUME NEW s \in Sessions, Bands!ExitLower(s) PROVE Bands!TypeOK'
      BY <1>12 DEF Bands!ExitLower, Bands!Lowered
<1>13. ASSUME NEW s \in Sessions, Bands!Cleanup(s) PROVE Bands!TypeOK'
      BY <1>13 DEF Bands!Cleanup, Bands!Lowered, Bands!Left
<1>14. ASSUME NEW s \in Sessions, Bands!Leave(s) PROVE Bands!TypeOK'
      BY <1>14 DEF Bands!Leave
<1>15. CASE UNCHANGED Bands!vars
      BY <1>15 DEF Bands!vars
<1> QED
    BY <1>1, <1>2, <1>3, <1>4, <1>5, <1>6, <1>7, <1>8, <1>9, <1>10, <1>11, <1>12, <1>13,
       <1>14, <1>15 DEF Bands!Next, Bands!Session

-----------------------------------------------------------------------------
(* The depth.                                                              *)
LEMMA NextCounts == ASSUME BandInv, [Bands!Next]_(Bands!vars) PROVE Bands!DepthCounts'
<1> USE DEF BandInv, Bands!decisions, Bands!driving
<1>0. depth = Cardinality(Drivers) /\ IsFiniteSet(Drivers) /\ Cardinality(Drivers) \in Nat
      BY Counts, DriversFinite
<1>s. ASSUME Drivers' = Drivers, UNCHANGED depth PROVE Bands!DepthCounts'
      BY <1>0, <1>s, CountsNext
<1>1. CASE Bands!People \/ Bands!Deadman \/ UNCHANGED Bands!vars
      BY <1>1, <1>s, DriversStill DEF Bands!People, Bands!Deadman, Bands!vars
<1>2. ASSUME NEW s \in Sessions, Bands!Press(s) \/ Bands!Release(s) \/ Bands!Cleanup(s)
                                 \/ Bands!Leave(s)
      PROVE  Bands!DepthCounts'
      BY <1>2, <1>s, DriversStill DEF Bands!Press, Bands!Release, Bands!Cleanup, Bands!Leave
<1>3. ASSUME NEW s \in Sessions, Bands!Mount(s) \/ Bands!Call(s) \/ Bands!Abandon(s)
      PROVE  Bands!DepthCounts'
  <2>1. at[s] # "in" /\ at'[s] # "in" /\ UNCHANGED depth
        BY <1>3 DEF Bands!Mount, Bands!Call, Bands!Abandon, Bands!Goto, Bands!TypeOK
  <2>2. \A t \in Sessions \ {s} : at'[t] = at[t] /\ handle'[t] = handle[t]
        BY <1>3 DEF Bands!Mount, Bands!Call, Bands!Abandon, Bands!Goto, Bands!TypeOK
  <2> QED
      BY <1>s, <2>1, <2>2, DriversSame
<1>4. ASSUME NEW s \in Sessions, Bands!ExitLedger(s) \/ Bands!ExitLower(s)
      PROVE  Bands!DepthCounts'
  <2>1. at[s] # "in" /\ at'[s] # "in" /\ UNCHANGED depth
        BY <1>4 DEF Bands!ExitLedger, Bands!ExitLower, Bands!Goto, Bands!TypeOK
  <2>2. \A t \in Sessions \ {s} : at'[t] = at[t] /\ handle'[t] = handle[t]
        BY <1>4 DEF Bands!ExitLedger, Bands!ExitLower, Bands!Goto, Bands!TypeOK
  <2> QED
      BY <1>s, <2>1, <2>2, DriversSame
<1>5. ASSUME NEW s \in Sessions, Bands!Ask(s) \/ Bands!Answer(s) PROVE Bands!DepthCounts'
  <2>1. at[s] # "in" /\ at'[s] # "in" /\ UNCHANGED depth
        BY <1>5 DEF Bands!Ask, Bands!Answer, Bands!Goto, Bands!TypeOK
  <2>2. \A t \in Sessions \ {s} : at'[t] = at[t] /\ handle'[t] = handle[t]
        BY <1>5 DEF Bands!Ask, Bands!Answer, Bands!Goto, Bands!TypeOK
  <2> QED
      BY <1>s, <2>1, <2>2, DriversSame
<1>6. ASSUME NEW s \in Sessions, Bands!Enter(s) PROVE Bands!DepthCounts'
  <2>0. s \notin Drivers /\ UNCHANGED handle
        BY <1>6 DEF Bands!Enter, Drivers
  <2>1. CASE Bands!Goto(s, "idle") /\ UNCHANGED depth
        BY <1>s, <2>0, <2>1, DriversStep DEF Labels
  <2>2. CASE Bands!Goto(s, "in") /\ ~Bands!Tracked(s) /\ UNCHANGED depth
        BY <1>s, <2>0, <2>2, DriversStep DEF Labels
  <2>3. CASE Bands!Goto(s, "in") /\ Bands!Tracked(s) /\ depth' = depth + 1
    <3>1. Drivers' = Drivers \cup {s}
          BY <2>0, <2>3, DriversStep DEF Labels
    <3>2. Cardinality(Drivers') = Cardinality(Drivers) + 1
          BY <1>0, <2>0, <3>1, FS_AddElement
    <3> QED
        BY <1>0, <2>3, <3>2, CountsNext
  <2> QED
      BY <1>6, <2>1, <2>2, <2>3 DEF Bands!Enter
<1>7. ASSUME NEW s \in Sessions, Bands!ExitDepth(s) PROVE Bands!DepthCounts'
  <2>0. at[s] = "in" /\ UNCHANGED handle /\ (Bands!Goto(s, "ledger") \/ Bands!Goto(s, "idle"))
        BY <1>7 DEF Bands!ExitDepth
  <2>1. Drivers' = Drivers \ {s}
        BY <2>0, DriversStep DEF Labels
  <2>2. CASE Bands!Tracked(s)
    <3>1. s \in Drivers
          BY <2>0, <2>2 DEF Drivers
    <3>2. Cardinality(Drivers') = Cardinality(Drivers) - 1
          BY <1>0, <2>1, <3>1, FS_RemoveElement
    <3> QED
        BY <1>0, <1>7, <2>2, <3>2, CountsNext DEF Bands!ExitDepth
  <2>3. CASE ~Bands!Tracked(s)
    <3>1. s \notin Drivers /\ UNCHANGED depth
          BY <1>7, <2>3 DEF Bands!ExitDepth, Drivers
    <3> QED
        BY <1>s, <2>1, <3>1
  <2> QED
      BY <2>2, <2>3
<1> QED
    BY <1>1, <1>2, <1>3, <1>4, <1>5, <1>6, <1>7 DEF Bands!Next, Bands!Session

-----------------------------------------------------------------------------
(* The cover of a call in flight.                                          *)

(* Nothing is lowered while somebody drives.                               *)
LEMMA LoweredUnused ==
    ASSUME BandInv, [Bands!Next]_(Bands!vars), shown' # shown, ~(shown \subseteq shown')
    PROVE  Drivers = {} /\ UNCHANGED handle
<1>1. PICK s \in Sessions : Bands!ExitLower(s) \/ Bands!Cleanup(s)
      BY DEF Bands!Next, Bands!Session, Bands!vars, Bands!decisions, Bands!driving,
         Bands!People, Bands!Deadman, Bands!Mount, Bands!Ask, Bands!Answer, Bands!Call,
             Bands!Abandon, Bands!Enter, Bands!Press, Bands!Release, Bands!ExitDepth,
             Bands!ExitLedger, Bands!Leave
<1>2. depth = 0 /\ UNCHANGED handle
      BY <1>1 DEF Bands!ExitLower, Bands!Cleanup, Bands!decisions
<1> QED
    BY <1>2, DepthZero DEF BandInv

LEMMA NextCovers == ASSUME BandInv, [Bands!Next]_(Bands!vars) PROVE Bands!CoversDriving'
<1> USE DEF BandInv, Bands!decisions, Bands!driving
<1> SUFFICES ASSUME NEW r \in Sessions, at'[r] = "in", Bands!Tracked(r)', ~blind'[r]
             PROVE  handle'[r] \in shown'
    BY DEF Bands!CoversDriving
<1>1. CASE at[r] = "in" /\ handle'[r] = handle[r] /\ (blind[r] => blind'[r])
  <2>1. r \in Drivers /\ handle[r] \in shown
        BY <1>1 DEF Drivers, Bands!Tracked, Bands!CoversDriving
  <2> QED
      BY <1>1, <2>1, LoweredUnused
<1>2. ASSUME NEW s \in Sessions, Bands!Enter(s) PROVE handle'[r] \in shown'
  <2>1. CASE r = s
        BY <1>2, <2>1 DEF Bands!Enter, Bands!Goto, Bands!TypeOK, Bands!Tracked
  <2>2. CASE r # s
        BY <1>1, <1>2, <2>2 DEF Bands!Enter, Bands!Goto, Bands!TypeOK
  <2> QED
      BY <2>1, <2>2
<1>3. ASSUME NEW s \in Sessions, Bands!ExitDepth(s) PROVE handle'[r] \in shown'
      BY <1>1, <1>3 DEF Bands!ExitDepth, Bands!Goto, Bands!TypeOK
<1>4. ASSUME NEW s \in Sessions, Bands!Ask(s) \/ Bands!Answer(s) PROVE handle'[r] \in shown'
      BY <1>1, <1>4 DEF Bands!Ask, Bands!Answer, Bands!Goto, Bands!TypeOK
<1>5. ASSUME NEW s \in Sessions, Bands!Mount(s) \/ Bands!Call(s) \/ Bands!Abandon(s)
                                 \/ Bands!ExitLedger(s) \/ Bands!ExitLower(s)
      PROVE  handle'[r] \in shown'
      BY <1>1, <1>5 DEF Bands!Mount, Bands!Call, Bands!Abandon, Bands!ExitLedger,
         Bands!ExitLower, Bands!Goto, Bands!TypeOK
<1>6. ASSUME NEW s \in Sessions, Bands!Press(s) \/ Bands!Release(s) \/ Bands!Cleanup(s)
                                 \/ Bands!Leave(s)
      PROVE  handle'[r] \in shown'
      BY <1>1, <1>6 DEF Bands!Press, Bands!Release, Bands!Cleanup, Bands!Leave
<1>7. CASE Bands!People \/ Bands!Deadman \/ UNCHANGED Bands!vars
      BY <1>1, <1>7 DEF Bands!People, Bands!Deadman, Bands!vars
<1> QED
    BY <1>2, <1>3, <1>4, <1>5, <1>6, <1>7 DEF Bands!Next, Bands!Session

-----------------------------------------------------------------------------
(* What the sessions have been told.                                       *)
LEMMA NextTold == ASSUME BandInv, [Bands!Next]_(Bands!vars) PROVE Told'
<1> USE DEF BandInv, Bands!decisions, Bands!driving, Bands!Goto, Bands!TypeOK, Told
<1>1. ASSUME NEW s \in Sessions, Bands!Ask(s) PROVE Told'
  <2>0. UNCHANGED <<decision, overlap,
  closed>> /\ at[s] = "idle" /\ said[s] = "no" /\ s \notin closed
        BY <1>1 DEF Bands!Ask
  <2>1. CASE Bands!Declines(s) /\ said' = [said EXCEPT ![s] = "yes"] /\ at' = [at EXCEPT ![s] = "enter"]
                /\ UNCHANGED handle
        BY <2>0, <2>1 DEF Bands!Declines
  <2>2. CASE ~Bands!Declines(s) /\ decision = Refused /\ said' = [said EXCEPT ![s] = "refused"]
                /\ UNCHANGED <<at, handle>>
        BY <2>0, <2>2, AnswersDiffer DEF Bands!Declines
  <2>3. CASE ~Bands!Declines(s) /\ decision \in Sessions \cup {NoHandle}
                /\ said' = [said EXCEPT ![s] = "yes"] /\ handle' = [handle EXCEPT ![s] = decision]
                /\ at' = [at EXCEPT ![s] = "enter"]
        BY <2>0, <2>3, AnswersDiffer DEF Bands!Declines
  <2>4. CASE ~Bands!Declines(s) /\ decision = None /\ at' = [at EXCEPT ![s] = "asking"]
                /\ UNCHANGED <<said, handle>>
        BY <2>0, <2>4 DEF Bands!Declines
  <2> QED
      BY <1>1, <2>1, <2>2, <2>3, <2>4 DEF Bands!Ask
<1>2. ASSUME NEW s \in Sessions, Bands!Answer(s) PROVE Told'
  <2>1. PICK a \in Bands!Answers(s) :
         /\ decision' = IF decision = None THEN a ELSE decision
         /\ said' = [said EXCEPT ![s] = IF a = Refused THEN "refused" ELSE "yes"]
         /\ handle' = [handle EXCEPT ![s] = IF a = Refused THEN None ELSE a]
         /\ at' = [at EXCEPT ![s] = IF a = Refused THEN "idle" ELSE "enter"]
        BY <1>2 DEF Bands!Answer
  <2>2. a \in {s, NoHandle, Refused} /\ a # None
        BY AnswersKnown, AnswersDiffer
  <2>3. /\ overlap' = IF decision = None THEN {r \in Sessions : at[r] = "asking"} ELSE overlap
        /\ UNCHANGED closed /\ at[s] = "asking"
        BY <1>2 DEF Bands!Answer
  <2>4. decision' # None /\ s \in overlap'
        BY <2>1, <2>2, <2>3
  <2>5. SUFFICES ASSUME NEW r \in Sessions
        PROVE  /\ at'[r] \in {"enter", "in", "ledger", "lower"} => said'[r] = "yes"
               /\ at'[r] = "asking" =>
                    said'[r] = "no" /\ r \notin closed \cup Declining /\ r \in overlap'
               /\ said'[r] = "no" => handle'[r] = None
               /\ r \notin Declining /\ said'[r] = "yes" /\ decision' = Refused => r \in overlap'
      BY <2>3, <2>4
  <2>6. CASE r = s
        BY <2>1, <2>4, <2>6
  <2>7. CASE r # s
    <3>1. at'[r] = at[r] /\ said'[r] = said[r] /\ handle'[r] = handle[r]
          BY <2>1, <2>7
    <3>2. at[r] = "asking" => r \in overlap'
          BY <2>3, <3>1
    <3>3. r \notin Declining /\ said[r] = "yes" =>
            decision' = decision /\ overlap' = overlap
          BY <2>1, <2>3
    <3> QED
        BY <3>1, <3>2, <3>3
  <2> QED
      BY <2>6, <2>7
<1>3. ASSUME NEW s \in Sessions, Bands!Mount(s) \/ Bands!Call(s) \/ Bands!Abandon(s)
                                 \/ Bands!Enter(s)
      PROVE  Told'
      BY <1>3 DEF Bands!Mount, Bands!Call, Bands!Abandon, Bands!Enter
<1>4. ASSUME NEW s \in Sessions, Bands!ExitDepth(s) \/ Bands!ExitLedger(s) \/ Bands!ExitLower(s)
      PROVE  Told'
      BY <1>4 DEF Bands!ExitDepth, Bands!ExitLedger, Bands!ExitLower
<1>5. ASSUME NEW s \in Sessions, Bands!Press(s) \/ Bands!Release(s) \/ Bands!Leave(s) PROVE Told'
      BY <1>5 DEF Bands!Press, Bands!Release, Bands!Leave
<1>6. ASSUME NEW s \in Sessions, Bands!Cleanup(s) PROVE Told'
      BY <1>6 DEF Bands!Cleanup
<1>7. CASE Bands!People \/ Bands!Deadman \/ UNCHANGED Bands!vars
      BY <1>7 DEF Bands!People, Bands!Deadman, Bands!vars
<1> QED
    BY <1>1, <1>2, <1>3, <1>4, <1>5, <1>6, <1>7 DEF Bands!Next, Bands!Session

-----------------------------------------------------------------------------
(* The handles.                                                            *)
LEMMA NextCarried == ASSUME BandInv, [Bands!Next]_(Bands!vars) PROVE Carried'
<1> USE DEF BandInv, Bands!decisions, Bands!driving, Bands!Goto, Bands!TypeOK, Carried
<1>h. ASSUME UNCHANGED handle, shown' \subseteq shown \cup {handle[s] : s \in Sessions}
      PROVE  \A h \in shown' : \E s \in Sessions : handle'[s] = h
      BY <1>h
<1>1. ASSUME NEW s \in Sessions, Bands!Ask(s) \/ Bands!Answer(s) PROVE Carried'
  <2>1. /\ handle[s] = None /\ UNCHANGED away /\ s \notin away
        /\ \A t \in Sessions \ {s} : at'[t] = at[t] /\ handle'[t] = handle[t]
        /\ at'[s] \notin {"ledger", "lower"}
        BY <1>1 DEF Bands!Ask, Bands!Answer, Told
  <2>2. shown' \subseteq shown \cup {handle'[s]}
        BY <1>1, AnswersDiffer DEF Bands!Ask, Bands!Answer
  <2>3. ASSUME NEW h \in shown' PROVE \E t \in Sessions : handle'[t] = h
    <3>1. CASE h = handle'[s]
          BY <3>1
    <3>2. CASE h \in shown
      <4>1. PICK t \in Sessions : handle[t] = h
            BY <3>2
      <4>2. t # s
            BY <2>1, <3>2, <4>1, AnswersDiffer
      <4> QED
          BY <2>1, <4>1, <4>2
    <3> QED
        BY <2>2, <3>1, <3>2
  <2> QED
      BY <2>1, <2>3 DEF Bands!Tracked
<1>2. ASSUME NEW s \in Sessions, Bands!Mount(s) \/ Bands!Call(s) \/ Bands!Abandon(s)
      PROVE  Carried'
      BY <1>2, <1>h DEF Bands!Mount, Bands!Call, Bands!Abandon, Bands!Tracked
<1>3. ASSUME NEW s \in Sessions, Bands!Enter(s) PROVE Carried'
      BY <1>3, <1>h DEF Bands!Enter, Bands!Tracked
<1>4. ASSUME NEW s \in Sessions, Bands!ExitDepth(s) \/ Bands!ExitLedger(s) \/ Bands!ExitLower(s)
      PROVE  Carried'
      BY <1>4, <1>h DEF Bands!ExitDepth, Bands!ExitLedger, Bands!ExitLower, Bands!Tracked
<1>5. ASSUME NEW s \in Sessions, Bands!Press(s) \/ Bands!Release(s) \/ Bands!Leave(s)
      PROVE  Carried'
      BY <1>5, <1>h DEF Bands!Press, Bands!Release, Bands!Leave, Bands!Tracked
<1>6. ASSUME NEW s \in Sessions, Bands!Cleanup(s) PROVE Carried'
      BY <1>6, <1>h DEF Bands!Cleanup, Bands!Tracked
<1>7. CASE Bands!People \/ Bands!Deadman \/ UNCHANGED Bands!vars
      BY <1>7, <1>h DEF Bands!People, Bands!Deadman, Bands!vars, Bands!Tracked
<1> QED
    BY <1>1, <1>2, <1>3, <1>4, <1>5, <1>6, <1>7 DEF Bands!Next, Bands!Session

-----------------------------------------------------------------------------
(* What remains on the screen.                                             *)
LEMMA HandlesStay ==
    ASSUME BandInv, [Bands!Next]_(Bands!vars), NEW r \in Sessions, Bands!Tracked(r)
    PROVE  handle'[r] = handle[r]
<1> USE DEF BandInv, Bands!TypeOK
<1>1. CASE UNCHANGED handle
      BY <1>1
<1>2. ASSUME NEW s \in Sessions, Bands!Ask(s) \/ Bands!Answer(s) PROVE handle'[r] = handle[r]
      BY <1>2, AnswersDiffer DEF Bands!Ask, Bands!Answer, Told, Bands!Tracked
<1> QED
    BY <1>1, <1>2
    DEF Bands!Next, Bands!Session, Bands!vars, Bands!decisions, Bands!People, Bands!Deadman,
        Bands!Mount, Bands!Call, Bands!Abandon, Bands!Enter, Bands!Press,
        Bands!Release, Bands!ExitDepth, Bands!ExitLedger, Bands!ExitLower, Bands!Cleanup,
        Bands!Leave

(* An overlay that is up beside another session's handle makes two.        *)
LEMMA Beside ==
    ASSUME BandInv, NEW s \in Sessions, Bands!Tracked(s), NEW h \in shown, h # handle[s]
    PROVE  TwoOverlays
<1>1. PICK r \in Sessions : handle[r] = h
      BY DEF BandInv, Carried
<1>2. Bands!Tracked(r)
      BY <1>1 DEF Bands!Tracked, BandInv, Bands!TypeOK
<1> QED
    BY <1>1, <1>2 DEF TwoOverlays

LEMMA NextMinded ==
    ASSUME BandInv, [Bands!Next]_(Bands!vars), Bands!TypeOK', Bands!DepthCounts',
    Carried' PROVE Minded'
<1> SUFFICES ASSUME shown' # {}, leftover' = {}, ~TwoOverlays'
             PROVE  \E s \in Sessions : Minds(s)'
    BY DEF Minded
<1> USE DEF BandInv, Bands!decisions, Bands!driving, Bands!Goto, Bands!TypeOK
<1>1. ~TwoOverlays
      BY HandlesStay DEF TwoOverlays, Bands!Tracked
<1>2. ASSUME shown # {}, leftover = {} PROVE \E s \in Sessions : Minds(s)
      BY <1>1, <1>2 DEF Minded
<1>3. ASSUME depth' # 0 PROVE \E s \in Sessions : Minds(s)'
  <2>1. Drivers' # {}
        BY <1>3, FS_EmptySet, CountsNext
  <2> QED
      BY <2>1 DEF Drivers, Minds, Bands!Tracked
<1>4. ASSUME NEW s \in Sessions, NEW r \in Sessions, Minds(r), UNCHANGED <<handle, closed>>, at'[r] = at[r]
      PROVE  Minds(r)'
      BY <1>4 DEF Minds, Bands!Tracked
<1>5. ASSUME UNCHANGED <<handle, shown, leftover>>, \A r \in Sessions : Minds(r) => Minds(r)'
      PROVE  \E s \in Sessions : Minds(s)'
      BY <1>2, <1>5
<1>6. ASSUME NEW s \in Sessions, Bands!Mount(s) \/ Bands!Call(s)
      PROVE  \E r \in Sessions : Minds(r)'
  <2>1. \A r \in Sessions : Minds(r) => Minds(r)'
        BY <1>6 DEF Bands!Mount, Bands!Call, Minds, Bands!Tracked
  <2> QED
      BY <1>5, <1>6, <2>1 DEF Bands!Mount, Bands!Call
<1>7. ASSUME NEW s \in Sessions, Bands!Ask(s) PROVE \E r \in Sessions : Minds(r)'
  <2>1. at[s] = "idle" /\ UNCHANGED <<shown, leftover, closed>>
        BY <1>7 DEF Bands!Ask
  <2>2. PICK r \in Sessions : Minds(r)
        BY <1>2, <2>1
  <2>3. r # s
        BY <2>1, <2>2 DEF Minds
  <2>4. at'[r] = at[r] /\ handle'[r] = handle[r]
        BY <1>7, <2>3 DEF Bands!Ask
  <2> QED
      BY <2>1, <2>2, <2>4 DEF Minds, Bands!Tracked
<1>8. ASSUME NEW s \in Sessions, Bands!Answer(s) PROVE \E r \in Sessions : Minds(r)'
  <2>1. PICK a \in Bands!Answers(s) :
         /\ handle' = [handle EXCEPT ![s] = IF a = Refused THEN None ELSE a]
         /\ shown' = IF a = s THEN shown \cup {s} ELSE shown
         /\ at' = [at EXCEPT ![s] = IF a = Refused THEN "idle" ELSE "enter"]
        BY <1>8 DEF Bands!Answer
  <2>2. at[s] = "asking" /\ UNCHANGED <<leftover, closed>> /\ s \notin closed
        BY <1>8 DEF Bands!Answer, Told
  <2>3. CASE a = s
    <3>1. at'[s] = "enter" /\ handle'[s] = s
          BY <2>1, <2>3, AnswersDiffer
    <3> QED
        BY <2>2, <3>1 DEF Minds, Bands!Tracked
  <2>4. CASE a # s
    <3>1. PICK r \in Sessions : Minds(r)
          BY <1>2, <2>1, <2>2, <2>4
    <3>2. r # s
          BY <2>2, <3>1 DEF Minds
    <3>3. at'[r] = at[r] /\ handle'[r] = handle[r]
          BY <2>1, <3>2
    <3> QED
        BY <2>2, <3>1, <3>3 DEF Minds, Bands!Tracked
  <2> QED
      BY <2>3, <2>4
<1>9. ASSUME NEW s \in Sessions, Bands!Abandon(s) PROVE \E r \in Sessions : Minds(r)'
      BY <1>9 DEF Bands!Abandon, Bands!Left
<1>10. ASSUME NEW s \in Sessions, Bands!Enter(s) PROVE \E r \in Sessions : Minds(r)'
  <2>1. UNCHANGED <<handle, closed, leftover>>
        BY <1>10 DEF Bands!Enter
  <2>2. CASE at' = [at EXCEPT ![s] = "in"] /\ Bands!Tracked(s)
        BY <2>1, <2>2 DEF Minds, Bands!Tracked
  <2>3. CASE UNCHANGED shown /\ (s \in closed \/ ~Bands!Tracked(s))
    <3>1. PICK r \in Sessions : Minds(r)
          BY <1>2, <2>1, <2>3
    <3>2. r # s
          BY <1>10, <2>3, <3>1 DEF Bands!Enter, Minds
    <3>3. at'[r] = at[r]
          BY <1>10, <3>2 DEF Bands!Enter
    <3> QED
        BY <1>4, <2>1, <3>1, <3>3
  <2>4. CASE UNCHANGED shown /\ handle[s] \notin shown /\ Bands!Tracked(s)
        BY <1>1, <2>4, Beside
  <2> QED
      BY <1>10, <2>2, <2>3, <2>4 DEF Bands!Enter
<1>11. ASSUME NEW s \in Sessions, Bands!ExitDepth(s) PROVE \E r \in Sessions : Minds(r)'
  <2>1. at[s] = "in" /\ UNCHANGED <<handle, closed, leftover, shown>>
        BY <1>11 DEF Bands!ExitDepth
  <2>2. CASE Bands!Tracked(s) /\ depth' = 0
        BY <1>11, <2>1, <2>2 DEF Bands!ExitDepth, Minds, Bands!Tracked
  <2>3. CASE ~Bands!Tracked(s)
    <3>1. PICK r \in Sessions : Minds(r)
          BY <1>2, <2>1
    <3>2. r # s
          BY <2>3, <3>1 DEF Minds
    <3>3. at'[r] = at[r]
          BY <1>11, <3>2 DEF Bands!ExitDepth
    <3> QED
        BY <1>4, <2>1, <3>1, <3>3
  <2> QED
      BY <1>3, <2>2, <2>3
<1>12. ASSUME NEW s \in Sessions, Bands!ExitLedger(s) PROVE \E r \in Sessions : Minds(r)'
  <2>1. at[s] = "ledger" /\ UNCHANGED <<handle, closed, shown>>
        BY <1>12 DEF Bands!ExitLedger
  <2>2. at' = [at EXCEPT ![s] = "lower"] /\ UNCHANGED leftover
        BY <1>12, <2>1 DEF Bands!ExitLedger, Bands!Left
  <2>3. \A r \in Sessions : Minds(r) => Minds(r)'
        BY <2>1, <2>2 DEF Minds, Bands!Tracked
  <2> QED
      BY <1>5, <2>1, <2>2, <2>3
<1>13. ASSUME NEW s \in Sessions, Bands!ExitLower(s) PROVE \E r \in Sessions : Minds(r)'
  <2>1. CASE depth = 0
    <3>1. PICK h \in shown : h # handle[s]
          BY <1>13, <2>1 DEF Bands!ExitLower
    <3>2. Bands!Tracked(s)
          BY <1>13 DEF Bands!ExitLower, Carried
    <3> QED
        BY <1>1, <3>1, <3>2, Beside
  <2>2. CASE depth # 0
        BY <1>3, <1>13, <2>2 DEF Bands!ExitLower
  <2> QED
      BY <2>1, <2>2
<1>14. ASSUME NEW s \in Sessions, Bands!Cleanup(s) PROVE \E r \in Sessions : Minds(r)'
  <2>1. /\ held = {} /\ shown # {}
        /\ UNCHANGED <<handle, depth, at, away>> /\ closed' = closed \cup {s}
        BY <1>14 DEF Bands!Cleanup, Bands!Left
  <2>2. CASE depth # 0
        BY <1>3, <2>1, <2>2
  <2>3. CASE Bands!Tracked(s) /\ s \notin away /\ depth = 0
    <3>1. PICK h \in shown : h # handle[s]
          BY <1>14, <2>1, <2>3 DEF Bands!Cleanup
    <3> QED
        BY <1>1, <2>3, <3>1, Beside
  <2>4. CASE ~Bands!Tracked(s) \/ s \in away
    <3>1. UNCHANGED shown /\ leftover = {}
          BY <1>14, <2>1, <2>4 DEF Bands!Cleanup, Bands!Lowered
    <3>2. PICK r \in Sessions : Minds(r)
          BY <1>2, <3>1
    <3>3. ~(r = s /\ at[r] = "enter")
          BY <2>4, <3>2 DEF Minds, Carried
    <3>4. Minds(r)'
          BY <2>1, <3>2, <3>3 DEF Minds, Bands!Tracked
    <3> QED
        BY <3>4
  <2> QED
      BY <2>2, <2>3, <2>4
<1>15. ASSUME NEW s \in Sessions, Bands!Press(s) \/ Bands!Release(s) \/ Bands!Leave(s)
       PROVE  \E r \in Sessions : Minds(r)'
      BY <1>5, <1>15 DEF Bands!Press, Bands!Release, Bands!Leave, Minds, Bands!Tracked
<1>16. CASE Bands!People \/ Bands!Deadman \/ UNCHANGED Bands!vars
      BY <1>5, <1>16 DEF Bands!People, Bands!Deadman, Bands!vars, Minds, Bands!Tracked
<1> QED
    BY <1>6, <1>7, <1>8, <1>9, <1>10, <1>11, <1>12, <1>13, <1>14, <1>15, <1>16 DEF Bands!Next,
       Bands!Session

-----------------------------------------------------------------------------
(* Together.                                                               *)
LEMMA InitBandInv == Bands!Init => BandInv
<1> SUFFICES ASSUME Bands!Init PROVE BandInv
    OBVIOUS
<1>1. Bands!TypeOK
      BY InitBandTypes
<1>2. \A s \in Sessions : at[s] = "unmounted" /\ said[s] = "no" /\ handle[s] = None
      BY DEF Bands!Init
<1>3. Drivers = {}
      BY <1>2 DEF Drivers
<1>4. Bands!DepthCounts
      BY <1>3, Counts, FS_EmptySet DEF Bands!Init
<1>5. Bands!CoversDriving /\ Told /\ Carried /\ Minded
      BY <1>2 DEF Bands!Init, Bands!CoversDriving, Told, Carried, Minded
<1> QED
    BY <1>1, <1>4, <1>5 DEF BandInv

LEMMA NextBandInv == BandInv /\ [Bands!Next]_(Bands!vars) => BandInv'
<1> SUFFICES ASSUME BandInv, [Bands!Next]_(Bands!vars) PROVE BandInv'
    OBVIOUS
<1>1. Bands!TypeOK' /\ Bands!DepthCounts' /\ Bands!CoversDriving' /\ Told' /\ Carried'
      BY NextBandTypes, NextCounts, NextCovers, NextTold, NextCarried
<1> QED
    BY <1>1, NextMinded DEF BandInv

LEMMA BandDiscloses == BandInv => Bands!Disclosed
<1> SUFFICES ASSUME BandInv PROVE Bands!Disclosed
    OBVIOUS
<1>1. Bands!RefusalSpreads
      BY DEF BandInv, Told, Bands!RefusalSpreads
<1>2. Bands!BandLowered
      BY DEF BandInv, Minded, Minds, TwoOverlays, Bands!BandLowered
<1> QED
    BY <1>1, <1>2 DEF BandInv, Bands!Disclosed

(* No path drops the band while an action is in flight, a refusal holds for*)
(* the process, and the band goes down after the last call, but for the    *)
(* known exceptions (_band_enter, _band_exit, close_current_binding).      *)
THEOREM BandKept == Bands!Spec => []Disclosed
<1>1. Bands!Spec => []BandInv
      BY InitBandInv, NextBandInv, PTL DEF Bands!Spec
<1> QED
    BY <1>1, BandDiscloses, PTL DEF Disclosed

-----------------------------------------------------------------------------
(***************************************************************************)
(* Captures.                                                               *)
(***************************************************************************)

(* The way of a capture: what each place takes for granted.                *)
Route ==
    /\ pc # "idle" => result = "none" /\ ~left /\ ~refused
    /\ pc \in {"probe", "check", "again", "setup", "final"} => kind = "whole"
    /\ pc = "utility" => kind = "one"
    /\ temp <=> pc \in {"before", "child"} \/ (pc = "after" /\ shot # <<>>)
    /\ shot # <<>> => pc = "after"
    /\ next \in DOMAIN plan.ids
    /\ pc \in {"probe", "check", "native", "again", "setup", "utility"} =>
        pieces = <<>> /\ (kind = "whole" => next = 1)
    /\ pc = "final" => next = Len(plan.ids)

(* What the process knows of its native calls.                             *)
Learned ==
    /\ pathological <= 1 /\ (~degraded => pathological = 0)
    /\ pc \in {"probe", "check", "native"} => ~degraded

(* The orders of the displays that have been: one that is gone stays gone, *)
(* and so does an unlocked screen within a capture.                        *)
Known ==
    /\ layout.ids \in past /\ plan.ids \in past
    /\ shot # <<>> =>
        /\ layout.ids = plan.ids => shot[1].display = plan.ids[next]
        /\ ~locked => ~shot[1].locked

(* Number i of the pictures that a capture by way of children has accepted.*)
Ordinal(i) == IF kind = "whole" THEN i ELSE next

Accepting == pc \in {"storage", "before", "child", "after", "final"}
Since == IF pc = "final" \/ (pc = "after" /\ shot = <<>>) THEN 1 ELSE 0

Gathered ==
    Accepting =>
        /\ Len(pieces) = (IF kind = "whole" THEN next - 1 ELSE 0) + Since
        /\ \A i \in DOMAIN pieces :
            /\ ~pieces[i].locked /\ pieces[i].display = plan.ids[Ordinal(i)]
            /\ pieces[i].geo = plan.geo[pieces[i].display]

(* What a capture that has ended hands back.                               *)
Handed ==
    /\ result \in {"native", "utility"} => ~refused
    /\ result = "utility" =>
        /\ ~left /\ \A i \in DOMAIN pieces : ~pieces[i].locked
        /\ kind = "one" => pieces[1].display = plan.ids[next]

CaptureInv == Capture!TypeOK /\ Route /\ Learned /\ Known /\ Gathered /\ Handed

-----------------------------------------------------------------------------
(* The displays.                                                           *)
Orders == Capture!SetToSeqs(Displays) \cup {<<d>> : d \in Displays}
Geometry == [Displays -> 0 .. MaxChanges]

LEMMA CaptureSets ==
    \A S : (Capture!IsFiniteSet(S) <=> IsFiniteSet(S)) /\ Capture!Cardinality(S) = Cardinality(S)
<1>1. \A S : Capture!IsFiniteSet(S) <=> IsFiniteSet(S)
      BY DEF Capture!IsFiniteSet, IsFiniteSet
<1>2. \A S : Capture!Cardinality(S) = Cardinality(S)
      BY DEF Capture!Cardinality, Cardinality
<1> QED
    BY <1>1, <1>2

LEMMA DisplaysCounted ==
    IsFiniteSet(Displays) /\ Cardinality(Displays) \in Nat /\ Cardinality(Displays) >= 1
<1>1. IsFiniteSet(Displays) /\ Displays # {}
      BY CaptureAssumed, CaptureSets DEF Capture!CaptureAssumption
<1> QED
    BY <1>1, FS_CardinalityType, FS_EmptySet

LEMMA OrdersKnown ==
    ASSUME NEW o \in Orders
    PROVE  o \in Seq(Displays) /\ Len(o) \in 1 .. Cardinality(Displays)
<1>1. CASE o \in Capture!SetToSeqs(Displays)
      BY <1>1, DisplaysCounted, CaptureSets DEF Capture!SetToSeqs
<1>2. CASE o \in {<<d>> : d \in Displays}
  <2>1. PICK d \in Displays : o = <<d>>
        BY <1>2
  <2>2. o \in Seq(Displays) /\ Len(o) = 1
        BY <2>1
  <2> QED
      BY <2>2, DisplaysCounted
<1> QED
    BY <1>1, <1>2 DEF Orders

LEMMA LayoutsKnown ==
    ASSUME NEW l \in Capture!Layouts
    PROVE  /\ l.ids \in Orders /\ l.geo \in Geometry
           /\ \A g \in Geometry :
                /\ [l EXCEPT !.geo = g] \in Capture!Layouts
                /\ [l EXCEPT !.geo = g].ids = l.ids /\ [l EXCEPT !.geo = g].geo = g
BY DEF Capture!Layouts, Orders, Geometry

LEMMA MovedKnown ==
    ASSUME NEW l \in Capture!Layouts, NEW d \in Displays, l.geo[d] < MaxChanges
    PROVE  /\ [l EXCEPT !.geo[d] = @ + 1] \in Capture!Layouts
           /\ [l EXCEPT !.geo[d] = @ + 1].ids = l.ids
<1>1. MaxChanges \in Nat
      BY CaptureAssumed DEF Capture!CaptureAssumption
<1>2. [l.geo EXCEPT ![d] = @ + 1] \in Geometry
      BY <1>1, LayoutsKnown DEF Geometry
<1>3. [l EXCEPT !.geo[d] = @ + 1] = [l EXCEPT !.geo = [l.geo EXCEPT ![d] = @ + 1]]
      BY DEF Capture!Layouts
<1> QED
    BY <1>2, <1>3, LayoutsKnown

LEMMA PictureKnown ==
    ASSUME Capture!TypeOK, NEW d \in Displays
    PROVE  /\ Capture!Picture(d) \in Capture!Pictures /\ Capture!Picture(d).display = d
           /\ Capture!Picture(d).geo = layout.geo[d]
           /\ Capture!Picture(d).locked = locked
<1>1. layout.geo[d] \in 0 .. MaxChanges
      BY LayoutsKnown DEF Capture!TypeOK, Geometry
<1> QED
    BY <1>1 DEF Capture!TypeOK, Capture!Picture, Capture!Pictures

-----------------------------------------------------------------------------
(* Types.                                                                  *)
LEMMA InitCapture == Capture!Init => CaptureInv
<1> SUFFICES ASSUME Capture!Init PROVE CaptureInv
    OBVIOUS
<1>1. /\ layout \in Capture!Layouts /\ plan = layout /\ layout.ids \in Orders
      /\ Len(layout.ids) \in 1 .. Cardinality(Displays) /\ layout.ids \in Seq(Displays)
      BY LayoutsKnown, OrdersKnown DEF Capture!Init
<1>2. Capture!TypeOK
  <2>1. past \subseteq {l.ids : l \in Capture!Layouts}
        BY <1>1 DEF Capture!Init
  <2>2. next \in 1 .. Cardinality(Displays) /\ Cardinality(Displays) >= 0
        BY DisplaysCounted DEF Capture!Init
  <2>3. captures \in 0 .. MaxCaptures
        BY CaptureAssumed DEF Capture!Init, Capture!CaptureAssumption
  <2>4. shot \in Seq(Capture!Pictures) /\ Len(shot) <= 1
        BY DEF Capture!Init
  <2>5. pieces \in Seq(Capture!Pictures) /\ Len(pieces) <= Cardinality(Displays)
        BY DisplaysCounted DEF Capture!Init
  <2>6. locked \in BOOLEAN /\ degraded \in BOOLEAN /\ late \in BOOLEAN /\ temp \in BOOLEAN
        BY DEF Capture!Init
  <2> QED
      BY <1>1, <2>1, <2>2, <2>3, <2>4, <2>5, <2>6, CaptureSets DEF Capture!Init, Capture!TypeOK
<1>3. Route /\ Learned /\ Known /\ Gathered /\ Handed
      BY <1>1 DEF Capture!Init, Route, Learned, Known, Gathered, Accepting, Handed
<1> QED
    BY <1>2, <1>3 DEF CaptureInv

CaptureFacts ==
    /\ layout \in Capture!Layouts /\ plan \in Capture!Layouts /\ Cardinality(Displays) \in Nat
    /\ layout.ids \in Orders /\ plan.ids \in Orders
    /\ layout.ids \in Seq(Displays) /\ Len(layout.ids) \in 1 .. Cardinality(Displays)
    /\ plan.ids \in Seq(Displays) /\ Len(plan.ids) \in 1 .. Cardinality(Displays)
    /\ locked \in BOOLEAN /\ degraded \in BOOLEAN /\ late \in BOOLEAN /\ temp \in BOOLEAN
    /\ refused \in BOOLEAN /\ left \in BOOLEAN
    /\ next \in Nat /\ pathological \in Nat
    /\ shot \in Seq(Capture!Pictures) /\ Len(shot) <= 1
    /\ (shot # <<>> => Len(shot) = 1 /\ shot[1] \in Capture!Pictures)
    /\ pieces \in Seq(Capture!Pictures) /\ Len(pieces) \in 0 .. Cardinality(Displays)

LEMMA FactsHold == CaptureInv => CaptureFacts
<1> SUFFICES ASSUME CaptureInv PROVE CaptureFacts
    OBVIOUS
<1>1. /\ layout \in Capture!Layouts /\ plan \in Capture!Layouts
      /\ layout.ids \in Orders /\ plan.ids \in Orders
      BY LayoutsKnown DEF CaptureInv, Capture!TypeOK
<1>2. Cardinality(Displays) \in Nat
      BY DisplaysCounted
<1>3. /\ shot \in Seq(Capture!Pictures) /\ Len(shot) <= 1 /\ Len(shot) \in Nat
      /\ pieces \in Seq(Capture!Pictures) /\ Len(pieces) <= Cardinality(Displays)
      /\ Len(pieces) \in Nat
      BY CaptureSets DEF CaptureInv, Capture!TypeOK
<1>4. ASSUME shot # <<>> PROVE Len(shot) = 1 /\ shot[1] \in Capture!Pictures
  <2>1. \A S : \A q \in Seq(S) : q # <<>> => Len(q) > 0 /\ q[1] \in S
        OBVIOUS
  <2>2. Len(shot) > 0 /\ shot[1] \in Capture!Pictures
        BY <1>3, <1>4, <2>1
  <2> DEFINE n == Len(shot)
  <2>3. n \in Nat /\ n <= 1 /\ n > 0
        BY <1>3, <2>2
  <2> HIDE DEF n
  <2>4. n = 1
        BY <2>3
  <2> QED
      BY <2>2, <2>4 DEF n
<1>5. /\ locked \in BOOLEAN /\ degraded \in BOOLEAN /\ late \in BOOLEAN /\ temp \in BOOLEAN
      /\ refused \in BOOLEAN /\ left \in BOOLEAN /\ pathological \in Nat /\ next \in Nat
      BY <1>2, CaptureSets DEF CaptureInv, Capture!TypeOK
<1> QED
    BY <1>1, <1>2, <1>3, <1>4, <1>5, OrdersKnown DEF CaptureFacts

(* What the finally clause makes of a capture.                             *)
LEMMA CleanEnds ==
    ASSUME NEW ok \in BOOLEAN, left \in BOOLEAN, Capture!Clean(ok)
    PROVE  /\ temp' = FALSE /\ shot' = <<>> /\ left' \in BOOLEAN
           /\ \/ ok /\ left' = left /\ UNCHANGED <<pc, result>>
              \/ pc' = "idle" /\ result' = "error"
BY DEF Capture!Clean, Capture!Finish

LEMMA NextRoute == ASSUME CaptureInv, [Capture!Next]_(Capture!vars), Capture!TypeOK' PROVE Route'
<1> USE DEF CaptureInv, CaptureFacts, Capture!env, Capture!native, Capture!child,
        Capture!verdict, Capture!Finish, Route
<1>0. CaptureFacts
      BY FactsHold
<1>1. CASE Capture!Lock
      BY <1>0, <1>1 DEF Capture!Lock
<1>2. CASE Capture!Unlock
      BY <1>0, <1>2 DEF Capture!Unlock
<1>3. CASE Capture!Rearrange
      BY <1>0, <1>3 DEF Capture!Rearrange
<1>4. CASE Capture!Tick
      BY <1>0, <1>4 DEF Capture!Tick
<1>5. CASE Capture!Begin
      BY <1>0, <1>5 DEF Capture!Begin
<1>6. CASE Capture!Probe
      BY <1>0, <1>6 DEF Capture!Probe
<1>7. CASE Capture!Recheck
      BY <1>0, <1>7 DEF Capture!Recheck
<1>8. CASE Capture!Native
  <2>1. PICK outcome \in {"fast", "slow", "nothing"} :
         IF outcome = "nothing"
         THEN pc' = (IF kind = "whole" THEN "again" ELSE "utility") /\ UNCHANGED <<pieces,
         result>>
         ELSE pc' = "idle"
        BY <1>8 DEF Capture!Native
  <2>2. CASE pc' = "idle"
        BY <1>0, <1>8, <2>2 DEF Capture!Native
  <2>3. CASE kind = "whole" /\ pc' = "again" /\ UNCHANGED <<pieces, result>>
        BY <1>0, <1>8, <2>3 DEF Capture!Native
  <2>4. CASE kind # "whole" /\ pc' = "utility" /\ UNCHANGED <<pieces, result>>
        BY <1>0, <1>8, <2>4 DEF Capture!Native, Capture!TypeOK
  <2> QED
      BY <2>1, <2>2, <2>3, <2>4
<1>9. CASE Capture!NoUtility
      BY <1>0, <1>9 DEF Capture!NoUtility
<1>10. CASE Capture!Utility
      BY <1>0, <1>10 DEF Capture!Utility
<1>11. CASE Capture!Setup
      BY <1>0, <1>11 DEF Capture!Setup, Capture!Layouts
<1>12. CASE Capture!Storage
      BY <1>0, <1>12 DEF Capture!Storage
<1>13. CASE Capture!Before
      BY <1>0, <1>13, CleanEnds DEF Capture!Before
<1>14. CASE Capture!Child
  <2>1. CASE shot' = <<Capture!Picture(layout.ids[next])>> /\ pc' = "after" /\ UNCHANGED <<temp,
  left, result>>
    <3>1. shot' # <<>> /\ Len(shot') = 1 /\ shot'[1] = Capture!Picture(layout.ids[next]) /\ pc = "child"
          BY <1>14, <2>1 DEF Capture!Child
    <3>2. shot'[1].display = layout.ids[next] /\ shot'[1].locked = locked
          BY <3>1 DEF Capture!Picture
    <3> QED
        BY <1>0, <1>14, <2>1, <3>1, <3>2 DEF Capture!Child
  <2>2. CASE Capture!Clean(FALSE)
        BY <1>0, <1>14, <2>2, CleanEnds DEF Capture!Child
  <2> QED
      BY <1>14, <2>1, <2>2 DEF Capture!Child
<1>15. CASE Capture!After
      BY <1>0, <1>15, CleanEnds DEF Capture!After
<1>16. CASE Capture!Accepted
  <2>1. CASE pc' = "idle"
        BY <1>0, <1>16, <2>1 DEF Capture!Accepted
  <2>2. CASE kind = "whole" /\ next < Len(plan.ids) /\ pc' = "storage" /\ next' = next + 1
        BY <1>0, <1>16, <2>2 DEF Capture!Accepted
  <2>3. CASE kind = "whole" /\ next >= Len(plan.ids) /\ pc' = "final" /\ UNCHANGED next
        BY <1>0, <1>16, <2>3 DEF Capture!Accepted
  <2> QED
      BY <1>0, <1>16, <2>1, <2>2, <2>3 DEF Capture!Accepted, Capture!TypeOK
<1>17. CASE Capture!Final
      BY <1>0, <1>17 DEF Capture!Final
<1>18. CASE UNCHANGED Capture!vars
      BY <1>0, <1>18 DEF Capture!vars
<1> QED
    BY <1>1, <1>2, <1>3, <1>4, <1>5, <1>6, <1>7, <1>8, <1>9, <1>10, <1>11, <1>12, <1>13, <1>14,
       <1>15, <1>16, <1>17, <1>18 DEF Capture!Next

LEMMA NextLearned ==
    ASSUME CaptureInv, [Capture!Next]_(Capture!vars), Capture!TypeOK'
    PROVE  Learned'
<1> USE DEF CaptureInv, CaptureFacts, Capture!env, Capture!native, Capture!child,
        Capture!verdict, Capture!Finish, Route, Learned
<1>0. CaptureFacts
      BY FactsHold
<1>1. CASE Capture!Lock
      BY <1>0, <1>1 DEF Capture!Lock
<1>2. CASE Capture!Unlock
      BY <1>0, <1>2 DEF Capture!Unlock
<1>3. CASE Capture!Rearrange
      BY <1>0, <1>3 DEF Capture!Rearrange
<1>4. CASE Capture!Tick
      BY <1>0, <1>4 DEF Capture!Tick
<1>5. CASE Capture!Begin
      BY <1>0, <1>5 DEF Capture!Begin
<1>6. CASE Capture!Probe
  <2>1. PICK outcome \in {"fast", "slow", "nothing", "raised"} :
         /\ degraded' = (degraded \/ Capture!Learns(outcome))
         /\ pathological' = pathological + (IF outcome \in {"nothing", "slow"} THEN 1 ELSE 0)
        BY <1>6 DEF Capture!Probe, Capture!Called
  <2>2. pc' = IF degraded' THEN "again" ELSE "check"
        BY <1>6 DEF Capture!Probe
  <2>3. CASE Capture!Learns(outcome)
    <3>1. ~degraded /\ pathological = 0
          BY <1>6 DEF Capture!Probe
    <3>2. degraded' = TRUE
          BY <2>1, <2>3
    <3>3. pathological' <= 1
          BY <2>1, <3>1
    <3> QED
        BY <1>0, <2>2, <3>2, <3>3
  <2>4. CASE ~Capture!Learns(outcome)
        BY <1>0, <1>6, <2>1, <2>2, <2>4 DEF Capture!Probe, Capture!Learns
  <2> QED
      BY <2>3, <2>4
<1>7. CASE Capture!Recheck
      BY <1>0, <1>7 DEF Capture!Recheck
<1>8. CASE Capture!Native
  <2>1. PICK outcome \in {"fast", "slow", "nothing"} :
         /\ degraded' = (degraded \/ Capture!Learns(outcome))
         /\ pathological' = pathological + (IF outcome \in {"nothing", "slow"} THEN 1 ELSE 0)
        BY <1>8 DEF Capture!Native, Capture!Called
  <2>2. pc' \in {"idle", "again", "utility"}
        BY <1>8 DEF Capture!Native
  <2>3. CASE Capture!Learns(outcome)
    <3>1. ~degraded /\ pathological = 0
          BY <1>8 DEF Capture!Native
    <3>2. degraded' = TRUE
          BY <2>1, <2>3
    <3>3. pathological' <= 1
          BY <2>1, <3>1
    <3> QED
        BY <1>0, <2>2, <3>2, <3>3
  <2>4. CASE ~Capture!Learns(outcome)
        BY <1>0, <1>8, <2>1, <2>2, <2>4 DEF Capture!Native, Capture!Learns
  <2> QED
      BY <2>3, <2>4
<1>9. CASE Capture!NoUtility
      BY <1>0, <1>9 DEF Capture!NoUtility
<1>10. CASE Capture!Utility
      BY <1>0, <1>10 DEF Capture!Utility
<1>11. CASE Capture!Setup
      BY <1>0, <1>11 DEF Capture!Setup
<1>12. CASE Capture!Storage
      BY <1>0, <1>12 DEF Capture!Storage
<1>13. CASE Capture!Before
      BY <1>0, <1>13, CleanEnds DEF Capture!Before
<1>14. CASE Capture!Child
      BY <1>0, <1>14, CleanEnds DEF Capture!Child
<1>15. CASE Capture!After
      BY <1>0, <1>15, CleanEnds DEF Capture!After
<1>16. CASE Capture!Accepted
      BY <1>0, <1>16 DEF Capture!Accepted
<1>17. CASE Capture!Final
      BY <1>0, <1>17 DEF Capture!Final
<1>18. CASE UNCHANGED Capture!vars
      BY <1>0, <1>18 DEF Capture!vars
<1> QED
    BY <1>1, <1>2, <1>3, <1>4, <1>5, <1>6, <1>7, <1>8, <1>9, <1>10, <1>11, <1>12, <1>13, <1>14,
       <1>15, <1>16, <1>17, <1>18 DEF Capture!Next

LEMMA NextKnown == ASSUME CaptureInv, [Capture!Next]_(Capture!vars), Capture!TypeOK' PROVE Known'
<1> USE DEF CaptureInv, CaptureFacts, Capture!env, Capture!native, Capture!child,
        Capture!verdict, Capture!Finish, Route, Known
<1>0. CaptureFacts
      BY FactsHold
<1>1. CASE Capture!Lock
      BY <1>0, <1>1 DEF Capture!Lock
<1>2. CASE Capture!Unlock
      BY <1>0, <1>2 DEF Capture!Unlock
<1>3. CASE Capture!Rearrange
      BY <1>0, <1>3 DEF Capture!Rearrange, Capture!Layouts
<1>4. CASE Capture!Tick
      BY <1>0, <1>4 DEF Capture!Tick
<1>5. CASE Capture!Begin
      BY <1>0, <1>5 DEF Capture!Begin
<1>6. CASE Capture!Probe
      BY <1>0, <1>6 DEF Capture!Probe
<1>7. CASE Capture!Recheck
      BY <1>0, <1>7 DEF Capture!Recheck
<1>8. CASE Capture!Native
      BY <1>0, <1>8 DEF Capture!Native
<1>9. CASE Capture!NoUtility
      BY <1>0, <1>9 DEF Capture!NoUtility
<1>10. CASE Capture!Utility
      BY <1>0, <1>10 DEF Capture!Utility
<1>11. CASE Capture!Setup
      BY <1>0, <1>11 DEF Capture!Setup, Capture!Layouts
<1>12. CASE Capture!Storage
      BY <1>0, <1>12 DEF Capture!Storage
<1>13. CASE Capture!Before
      BY <1>0, <1>13, CleanEnds DEF Capture!Before
<1>14. CASE Capture!Child
  <2>1. CASE shot' = <<Capture!Picture(layout.ids[next])>> /\ pc' = "after" /\ UNCHANGED <<temp,
  left, result>>
    <3>1. shot' # <<>> /\ Len(shot') = 1 /\ shot'[1] = Capture!Picture(layout.ids[next]) /\ pc = "child"
          BY <1>14, <2>1 DEF Capture!Child
    <3>2. shot'[1].display = layout.ids[next] /\ shot'[1].locked = locked
          BY <3>1 DEF Capture!Picture
    <3> QED
        BY <1>0, <1>14, <2>1, <3>1, <3>2 DEF Capture!Child
  <2>2. CASE Capture!Clean(FALSE)
        BY <1>0, <1>14, <2>2, CleanEnds DEF Capture!Child
  <2> QED
      BY <1>14, <2>1, <2>2 DEF Capture!Child
<1>15. CASE Capture!After
      BY <1>0, <1>15, CleanEnds DEF Capture!After
<1>16. CASE Capture!Accepted
      BY <1>0, <1>16 DEF Capture!Accepted
<1>17. CASE Capture!Final
      BY <1>0, <1>17 DEF Capture!Final
<1>18. CASE UNCHANGED Capture!vars
      BY <1>0, <1>18 DEF Capture!vars
<1> QED
    BY <1>1, <1>2, <1>3, <1>4, <1>5, <1>6, <1>7, <1>8, <1>9, <1>10, <1>11, <1>12, <1>13, <1>14,
       <1>15, <1>16, <1>17, <1>18 DEF Capture!Next

LEMMA NextGathered ==
    ASSUME CaptureInv, [Capture!Next]_(Capture!vars), Capture!TypeOK'
    PROVE  Gathered'
<1> USE DEF CaptureInv, CaptureFacts, Capture!env, Capture!native, Capture!child,
        Capture!verdict, Capture!Finish, Route, Gathered, Known, Accepting, Since, Ordinal
<1>0. CaptureFacts
      BY FactsHold
<1>1. CASE Capture!Lock
      BY <1>0, <1>1 DEF Capture!Lock
<1>2. CASE Capture!Unlock
      BY <1>0, <1>2 DEF Capture!Unlock
<1>3. CASE Capture!Rearrange
      BY <1>0, <1>3 DEF Capture!Rearrange
<1>4. CASE Capture!Tick
      BY <1>0, <1>4 DEF Capture!Tick
<1>5. CASE Capture!Begin
      BY <1>0, <1>5 DEF Capture!Begin
<1>6. CASE Capture!Probe
      BY <1>0, <1>6 DEF Capture!Probe
<1>7. CASE Capture!Recheck
      BY <1>0, <1>7 DEF Capture!Recheck
<1>8. CASE Capture!Native
      BY <1>0, <1>8 DEF Capture!Native
<1>9. CASE Capture!NoUtility
      BY <1>0, <1>9 DEF Capture!NoUtility
<1>10. CASE Capture!Utility
      BY <1>0, <1>10 DEF Capture!Utility
<1>11. CASE Capture!Setup
  <2>1. pieces = <<>> /\ kind = "whole" /\ next = 1 /\ UNCHANGED <<pieces, kind, next, shot>>
        BY <1>11 DEF Capture!Setup
  <2>2. pc' \in {"storage", "idle"}
        BY <1>11 DEF Capture!Setup
  <2> QED
      BY <2>1, <2>2
<1>12. CASE Capture!Storage
      BY <1>0, <1>12 DEF Capture!Storage
<1>13. CASE Capture!Before
      BY <1>0, <1>13, CleanEnds DEF Capture!Before
<1>14. CASE Capture!Child
  <2>1. CASE shot' = <<Capture!Picture(layout.ids[next])>> /\ pc' = "after" /\ UNCHANGED <<temp,
  left, result>>
    <3>1. shot' # <<>> /\ Len(shot') = 1 /\ shot'[1] = Capture!Picture(layout.ids[next]) /\ pc = "child"
          BY <1>14, <2>1 DEF Capture!Child
    <3>2. shot'[1].display = layout.ids[next] /\ shot'[1].locked = locked
          BY <3>1 DEF Capture!Picture
    <3> QED
        BY <1>0, <1>14, <2>1, <3>1, <3>2 DEF Capture!Child
  <2>2. CASE Capture!Clean(FALSE)
        BY <1>0, <1>14, <2>2, CleanEnds DEF Capture!Child
  <2> QED
      BY <1>14, <2>1, <2>2 DEF Capture!Child
<1>15. CASE Capture!After
  <2>1. CASE Capture!Clean(TRUE) /\ pieces' = Append(pieces, shot[1])
                /\ Capture!UnlockedAfter /\ Capture!TargetUnchanged
                /\ shot[1].geo = plan.geo[plan.ids[next]]
    <3>1. /\ pc = "after" /\ shot # <<>> /\ UNCHANGED <<Capture!env, kind, plan, next>>
          /\ shot' = <<>>
          BY <1>0, <1>15, <2>1, CleanEnds DEF Capture!After
    <3>2. /\ ~shot[1].locked /\ shot[1].display = plan.ids[next]
          /\ shot[1].geo = plan.geo[shot[1].display] /\ shot[1] \in Capture!Pictures
          BY <1>0, <2>1, <3>1 DEF Capture!UnlockedAfter, Capture!TargetUnchanged
    <3>3. /\ Len(pieces') = Len(pieces) + 1 /\ pieces'[Len(pieces) + 1] = shot[1]
          /\ \A i \in 1 .. Len(pieces) : pieces'[i] = pieces[i]
          BY <1>0, <2>1, <3>2
    <3>4. /\ Len(pieces) = IF kind = "whole" THEN next - 1 ELSE 0
          /\ \A i \in 1 .. Len(pieces) :
              /\ ~pieces[i].locked /\ pieces[i].display = plan.ids[Ordinal(i)]
              /\ pieces[i].geo = plan.geo[pieces[i].display]
          BY <1>0, <3>1
    <3>5. plan.ids[Ordinal(Len(pieces) + 1)] = plan.ids[next]
          BY <1>0, <3>4
    <3>6. CASE pc' = "after"
      <4>1. Len(pieces') = (IF kind' = "whole" THEN next' - 1 ELSE 0) + Since'
            BY <1>0, <3>1, <3>3, <3>4, <3>6
      <4>2. ASSUME NEW i \in DOMAIN pieces'
            PROVE  /\ ~pieces'[i].locked /\ pieces'[i].display = plan'.ids[Ordinal(i)']
                   /\ pieces'[i].geo = plan'.geo[pieces'[i].display]
        <5>1. i \in 1 .. Len(pieces) \/ i = Len(pieces) + 1
              BY <1>0, <2>1, <3>2, <3>3
        <5> QED
            BY <3>1, <3>2, <3>3, <3>4, <3>5, <5>1
      <4> QED
          BY <4>1, <4>2
    <3>7. CASE pc' = "idle"
          BY <3>7
    <3> QED
        BY <1>0, <2>1, <3>1, <3>6, <3>7, CleanEnds
  <2>2. CASE Capture!Clean(FALSE)
        BY <1>0, <2>2, CleanEnds
  <2> QED
      BY <1>15, <2>1, <2>2 DEF Capture!After
<1>16. CASE Capture!Accepted
  <2>1. CASE pc' = "idle"
        BY <1>0, <1>16, <2>1 DEF Capture!Accepted
  <2>2. CASE kind = "whole" /\ next < Len(plan.ids) /\ pc' = "storage" /\ next' = next + 1
        BY <1>0, <1>16, <2>2 DEF Capture!Accepted
  <2>3. CASE kind = "whole" /\ next >= Len(plan.ids) /\ pc' = "final" /\ UNCHANGED next
        BY <1>0, <1>16, <2>3 DEF Capture!Accepted
  <2> QED
      BY <1>0, <1>16, <2>1, <2>2, <2>3 DEF Capture!Accepted, Capture!TypeOK
<1>17. CASE Capture!Final
      BY <1>0, <1>17 DEF Capture!Final
<1>18. CASE UNCHANGED Capture!vars
      BY <1>0, <1>18 DEF Capture!vars
<1> QED
    BY <1>1, <1>2, <1>3, <1>4, <1>5, <1>6, <1>7, <1>8, <1>9, <1>10, <1>11, <1>12, <1>13, <1>14,
       <1>15, <1>16, <1>17, <1>18 DEF Capture!Next

LEMMA NextHanded ==
    ASSUME CaptureInv, [Capture!Next]_(Capture!vars), Capture!TypeOK'
    PROVE  Handed'
<1> USE DEF CaptureInv, CaptureFacts, Capture!env, Capture!native, Capture!child,
        Capture!verdict, Capture!Finish, Route, Gathered, Handed, Accepting, Since, Ordinal
<1>0. CaptureFacts
      BY FactsHold
<1>1. CASE Capture!Lock
      BY <1>0, <1>1 DEF Capture!Lock
<1>2. CASE Capture!Unlock
      BY <1>0, <1>2 DEF Capture!Unlock
<1>3. CASE Capture!Rearrange
      BY <1>0, <1>3 DEF Capture!Rearrange
<1>4. CASE Capture!Tick
      BY <1>0, <1>4 DEF Capture!Tick
<1>5. CASE Capture!Begin
      BY <1>0, <1>5 DEF Capture!Begin
<1>6. CASE Capture!Probe
      BY <1>0, <1>6 DEF Capture!Probe
<1>7. CASE Capture!Recheck
      BY <1>0, <1>7 DEF Capture!Recheck
<1>8. CASE Capture!Native
      BY <1>0, <1>8 DEF Capture!Native
<1>9. CASE Capture!NoUtility
      BY <1>0, <1>9 DEF Capture!NoUtility
<1>10. CASE Capture!Utility
      BY <1>0, <1>10 DEF Capture!Utility
<1>11. CASE Capture!Setup
      BY <1>0, <1>11 DEF Capture!Setup
<1>12. CASE Capture!Storage
      BY <1>0, <1>12 DEF Capture!Storage
<1>13. CASE Capture!Before
      BY <1>0, <1>13, CleanEnds DEF Capture!Before
<1>14. CASE Capture!Child
      BY <1>0, <1>14, CleanEnds DEF Capture!Child
<1>15. CASE Capture!After
      BY <1>0, <1>15, CleanEnds DEF Capture!After
<1>16. CASE Capture!Accepted
      BY <1>0, <1>16 DEF Capture!Accepted
<1>17. CASE Capture!Final
      BY <1>0, <1>17 DEF Capture!Final
<1>18. CASE UNCHANGED Capture!vars
      BY <1>0, <1>18 DEF Capture!vars
<1> QED
    BY <1>1, <1>2, <1>3, <1>4, <1>5, <1>6, <1>7, <1>8, <1>9, <1>10, <1>11, <1>12, <1>13, <1>14,
       <1>15, <1>16, <1>17, <1>18 DEF Capture!Next

LEMMA NextCaptureTypes == ASSUME CaptureInv, [Capture!Next]_(Capture!vars) PROVE Capture!TypeOK'
<1> USE DEF Capture!env, Capture!native, Capture!child, Capture!verdict, Capture!Finish
<1> DEFINE Places == {"idle", "probe", "check", "native", "again", "setup", "utility",
                      "storage", "before", "child", "after", "final"}
           N == Cardinality(Displays)
           Typed ==
             /\ layout' \in Capture!Layouts /\ past' \subseteq {l.ids : l \in Capture!Layouts}
             /\ plan' \in Capture!Layouts
             /\ pathological' \in Nat /\ pc' \in Places /\ kind' \in {"whole", "one"}
             /\ next' \in 1 .. N
             /\ shot' \in Seq(Capture!Pictures) /\ Len(shot') <= 1
             /\ pieces' \in Seq(Capture!Pictures) /\ Len(pieces') <= N
             /\ result' \in {"none", "native", "utility", "error"}
             /\ captures' \in 0 .. MaxCaptures
           Switched ==
             /\ locked' \in BOOLEAN /\ degraded' \in BOOLEAN /\ late' \in BOOLEAN
             /\ temp' \in BOOLEAN /\ refused' \in BOOLEAN /\ left' \in BOOLEAN
<1>t. ASSUME Typed, Switched PROVE Capture!TypeOK'
      BY <1>t, CaptureSets DEF Capture!TypeOK
<1>0. /\ CaptureFacts /\ Route
      /\ past \subseteq {l.ids : l \in Capture!Layouts} /\ pc \in Places
      /\ kind \in {"whole", "one"}
      /\ next \in 1 .. N /\ result \in {"none", "native", "utility", "error"}
      /\ captures \in 0 .. MaxCaptures /\ MaxCaptures \in Nat
      BY FactsHold, CaptureAssumed, CaptureSets DEF CaptureInv, Capture!TypeOK,
         Capture!CaptureAssumption
<1>b. /\ locked \in BOOLEAN /\ degraded \in BOOLEAN /\ late \in BOOLEAN /\ temp \in BOOLEAN
      /\ refused \in BOOLEAN /\ left \in BOOLEAN
      BY <1>0 DEF CaptureFacts
<1>n. <<>> \in Seq(Capture!Pictures) /\ Len(<<>>) = 0
      OBVIOUS

<1>1. ASSUME Capture!Lock PROVE Typed /\ Switched
  <2>1. Typed
        BY <1>0, <1>n, <1>1 DEF Capture!Lock, CaptureFacts
  <2>2. Switched
        BY <1>b, <1>1, Zenon DEF Capture!Lock
  <2> QED
      BY <2>1, <2>2
<1>2. ASSUME Capture!Unlock PROVE Typed /\ Switched
  <2>1. Typed
        BY <1>0, <1>n, <1>2 DEF Capture!Unlock, CaptureFacts
  <2>2. Switched
        BY <1>b, <1>2, Zenon DEF Capture!Unlock
  <2> QED
      BY <2>1, <2>2
<1>3. ASSUME Capture!Rearrange PROVE Typed /\ Switched
  <2>1. Typed
    <3>1. layout' \in Capture!Layouts
      <4>1. CASE layout' \in {l \in Capture!Layouts : l.geo = layout.geo /\ l.ids \notin past}
            BY <4>1
      <4>2. CASE \E d \in Displays : layout.geo[d] < MaxChanges /\ layout' = [layout EXCEPT !.geo[d] = @ + 1]
            BY <1>0, <4>2, MovedKnown DEF CaptureFacts
      <4> QED
          BY <1>3, <4>1, <4>2 DEF Capture!Rearrange
    <3>2. past' = past \cup {layout'.ids}
          BY <1>3 DEF Capture!Rearrange
    <3> QED
        BY <1>0, <1>3, <3>1, <3>2 DEF Capture!Rearrange, CaptureFacts
  <2>2. Switched
        BY <1>b, <1>3, Zenon DEF Capture!Rearrange
  <2> QED
      BY <2>1, <2>2
<1>4. ASSUME Capture!Tick PROVE Typed /\ Switched
  <2>1. Typed
        BY <1>0, <1>n, <1>4 DEF Capture!Tick, CaptureFacts
  <2>2. Switched
        BY <1>b, <1>4, Zenon DEF Capture!Tick
  <2> QED
      BY <2>1, <2>2
<1>5. ASSUME Capture!Begin PROVE Typed /\ Switched
  <2>1. Typed
    <3>1. next' \in 1 .. N /\ kind' \in {"whole", "one"}
          BY <1>0, <1>5 DEF Capture!Begin, CaptureFacts
    <3>2. pc' \in Places /\ result' \in {"none", "error"}
          BY <1>5 DEF Capture!Begin
    <3>3. captures' \in 0 .. MaxCaptures /\ plan' = layout /\ pieces' = <<>>
          BY <1>0, <1>5 DEF Capture!Begin
    <3> QED
        BY <1>0, <1>n, <1>5, <3>1, <3>2, <3>3 DEF Capture!Begin, CaptureFacts
  <2>2. Switched
        BY <1>b, <1>5, Zenon DEF Capture!Begin
  <2> QED
      BY <2>1, <2>2
<1>6. ASSUME Capture!Probe PROVE Typed /\ Switched
  <2>1. Typed
        BY <1>0, <1>n, <1>6 DEF Capture!Probe, Capture!Called, CaptureFacts
  <2>2. Switched
        BY <1>b, <1>6, Zenon DEF Capture!Probe, Capture!Called
  <2> QED
      BY <2>1, <2>2
<1>7. ASSUME Capture!Recheck PROVE Typed /\ Switched
  <2>1. Typed
        BY <1>0, <1>n, <1>7 DEF Capture!Recheck, CaptureFacts
  <2>2. Switched
        BY <1>b, <1>7, Zenon DEF Capture!Recheck
  <2> QED
      BY <2>1, <2>2
<1>8. ASSUME Capture!Native PROVE Typed /\ Switched
  <2>1. Typed
    <3>1. pathological' \in Nat
          BY <1>0, <1>8 DEF Capture!Native, Capture!Called, CaptureFacts
    <3>2. pc' \in Places /\ result' \in {"none", "native", "utility", "error"}
          BY <1>0, <1>8 DEF Capture!Native
    <3>3. pieces' \in Seq(Capture!Pictures) /\ Len(pieces') <= N
      <4>0. Capture!TypeOK /\ N \in Nat
            BY <1>0 DEF CaptureInv, CaptureFacts
      <4>1. CASE pieces' = <<Capture!Picture(plan.ids[next])>>
        <5>1. plan.ids[next] \in Displays
              BY <1>0 DEF CaptureFacts, Route
        <5>2. Capture!Picture(plan.ids[next]) \in Capture!Pictures
              BY <4>0, <5>1, PictureKnown
        <5> QED
            BY <4>0, <4>1, <5>2, DisplaysCounted
      <4>2. CASE pieces' = [i \in DOMAIN layout.ids |-> Capture!Picture(layout.ids[i])]
        <5>1. \A i \in 1 .. Len(layout.ids) : Capture!Picture(layout.ids[i]) \in Capture!Pictures
          <6>1. \A i \in 1 .. Len(layout.ids) : layout.ids[i] \in Displays
                BY <1>0 DEF CaptureFacts
          <6> QED
              BY <4>0, <6>1, PictureKnown
        <5>2. /\ DOMAIN layout.ids = 1 .. Len(layout.ids) /\ Len(layout.ids) \in Nat
              /\ Len(layout.ids) <= N
              BY <1>0 DEF CaptureFacts
        <5>3. pieces' \in [1 .. Len(layout.ids) -> Capture!Pictures]
              BY <4>2, <5>1, <5>2
        <5> QED
            BY <5>2, <5>3
      <4> QED
          BY <1>0, <1>8, <4>1, <4>2 DEF Capture!Native, CaptureFacts
    <3> QED
        BY <1>0, <1>8, <3>1, <3>2, <3>3 DEF Capture!Native, CaptureFacts
  <2>2. Switched
        BY <1>b, <1>8, Zenon DEF Capture!Native, Capture!Called
  <2> QED
      BY <2>1, <2>2
<1>9. ASSUME Capture!NoUtility PROVE Typed /\ Switched
  <2>1. Typed
        BY <1>0, <1>n, <1>9 DEF Capture!NoUtility, CaptureFacts
  <2>2. Switched
        BY <1>b, <1>9, Zenon DEF Capture!NoUtility
  <2> QED
      BY <2>1, <2>2
<1>10. ASSUME Capture!Utility PROVE Typed /\ Switched
  <2>1. Typed
        BY <1>0, <1>n, <1>10 DEF Capture!Utility, CaptureFacts
  <2>2. Switched
        BY <1>b, <1>10, Zenon DEF Capture!Utility
  <2> QED
      BY <2>1, <2>2
<1>11. ASSUME Capture!Setup PROVE Typed /\ Switched
  <2>1. Typed
    <3>1. plan' \in Capture!Layouts
          BY <1>0, <1>11, LayoutsKnown DEF Capture!Setup, CaptureFacts
    <3>2. pc' \in Places /\ result' \in {"none", "native", "utility", "error"}
          BY <1>0, <1>11 DEF Capture!Setup
    <3> QED
        BY <1>0, <1>11, <3>1, <3>2 DEF Capture!Setup, CaptureFacts
  <2>2. Switched
        BY <1>b, <1>11, Zenon DEF Capture!Setup
  <2> QED
      BY <2>1, <2>2
<1>12. ASSUME Capture!Storage PROVE Typed /\ Switched
  <2>1. Typed
        BY <1>0, <1>n, <1>12 DEF Capture!Storage, CaptureFacts
  <2>2. Switched
        BY <1>b, <1>12, Zenon DEF Capture!Storage
  <2> QED
      BY <2>1, <2>2
<1>13. ASSUME Capture!Before PROVE Typed /\ Switched
  <2>1. Typed
    <3>1. CASE pc' = "child" /\ UNCHANGED <<temp, shot, left, refused, result>>
          BY <1>0, <1>n, <1>13, <3>1 DEF Capture!Before, CaptureFacts
    <3>2. CASE Capture!Clean(FALSE)
      <4>1. shot' = <<>> /\ pc' = "idle" /\ result' = "error"
            BY <1>b, <3>2, CleanEnds
      <4> QED
          BY <1>0, <1>n, <1>13, <4>1 DEF Capture!Before, CaptureFacts
    <3> QED
        BY <1>13, <3>1, <3>2 DEF Capture!Before
  <2>2. Switched
        BY <1>b, <1>13, CleanEnds, Zenon DEF Capture!Before
  <2> QED
      BY <2>1, <2>2
<1>14. ASSUME Capture!Child PROVE Typed /\ Switched
  <2>1. Typed
    <3>1. CASE next \in DOMAIN layout.ids /\ shot' = <<Capture!Picture(layout.ids[next])>> /\ pc' = "after"
                  /\ UNCHANGED <<temp, left, result>>
      <4>1. layout.ids[next] \in Displays
            BY <1>0, <3>1 DEF CaptureFacts
      <4>2. Capture!Picture(layout.ids[next]) \in Capture!Pictures
            BY <4>1, PictureKnown DEF CaptureInv
      <4>3. shot' \in Seq(Capture!Pictures) /\ Len(shot') <= 1
            BY <3>1, <4>2
      <4> QED
          BY <1>0, <1>14, <3>1, <4>3 DEF Capture!Child, CaptureFacts
    <3>2. CASE Capture!Clean(FALSE)
      <4>1. shot' = <<>> /\ pc' = "idle" /\ result' = "error"
            BY <1>b, <3>2, CleanEnds
      <4> QED
          BY <1>0, <1>n, <1>14, <4>1 DEF Capture!Child, CaptureFacts
    <3> QED
        BY <1>14, <3>1, <3>2 DEF Capture!Child
  <2>2. Switched
        BY <1>b, <1>14, CleanEnds, Zenon DEF Capture!Child
  <2> QED
      BY <2>1, <2>2
<1>15. ASSUME Capture!After PROVE Typed /\ Switched
  <2>1. Typed
    <3>1. \E ok \in BOOLEAN : Capture!Clean(ok)
          BY <1>15 DEF Capture!After
    <3>2. shot' = <<>> /\ pc' \in Places /\ result' \in {"none", "native", "utility", "error"}
          BY <1>0, <1>b, <3>1, CleanEnds
    <3>3. pieces' \in Seq(Capture!Pictures) /\ Len(pieces') <= N
      <4>1. CASE UNCHANGED pieces
            BY <1>0, <4>1 DEF CaptureFacts
      <4>2. CASE pieces' = Append(pieces, shot[1])
        <5>1. Len(pieces) < N
          <6>1. Len(pieces) = IF kind = "whole" THEN next - 1 ELSE 0
                BY <1>0, <1>15 DEF Capture!After, CaptureInv, CaptureFacts, Gathered, Accepting,
                   Since
          <6> QED
              BY <1>0, <6>1, DisplaysCounted
        <5> QED
            BY <1>0, <1>15, <4>2, <5>1 DEF CaptureFacts, Capture!After
      <4> QED
          BY <1>15, <4>1, <4>2 DEF Capture!After
    <3> QED
        BY <1>0, <1>n, <1>15, <3>2, <3>3 DEF Capture!After, CaptureFacts
  <2>2. Switched
        BY <1>b, <1>15, CleanEnds, Zenon DEF Capture!After
  <2> QED
      BY <2>1, <2>2
<1>16. ASSUME Capture!Accepted PROVE Typed /\ Switched
  <2>1. Typed
        BY <1>0, <1>n, <1>16 DEF Capture!Accepted, CaptureFacts
  <2>2. Switched
        BY <1>b, <1>16, Zenon DEF Capture!Accepted
  <2> QED
      BY <2>1, <2>2
<1>17. ASSUME Capture!Final PROVE Typed /\ Switched
  <2>1. Typed
        BY <1>0, <1>n, <1>17 DEF Capture!Final, CaptureFacts
  <2>2. Switched
        BY <1>b, <1>17, Zenon DEF Capture!Final
  <2> QED
      BY <2>1, <2>2
<1>18. ASSUME UNCHANGED Capture!vars PROVE Typed /\ Switched
  <2>1. Typed
        BY <1>0, <1>n, <1>18 DEF Capture!vars, CaptureFacts
  <2>2. Switched
        BY <1>b, <1>18, Zenon DEF Capture!vars
  <2> QED
      BY <2>1, <2>2
<1> QED
    BY <1>t, <1>1, <1>2, <1>3, <1>4, <1>5, <1>6, <1>7, <1>8, <1>9, <1>10, <1>11, <1>12, <1>13,
       <1>14, <1>15, <1>16, <1>17, <1>18 DEF Capture!Next

LEMMA NextCapture == CaptureInv /\ [Capture!Next]_(Capture!vars) => CaptureInv'
<1> SUFFICES ASSUME CaptureInv, [Capture!Next]_(Capture!vars) PROVE CaptureInv'
    OBVIOUS
<1>1. Capture!TypeOK'
      BY NextCaptureTypes
<1> QED
    BY <1>1, NextRoute, NextLearned, NextKnown, NextGathered, NextHanded DEF CaptureInv

LEMMA CaptureInvGuards ==
    CaptureInv => /\ Capture!TypeOK /\ Capture!RefusalFinal /\ Capture!NoneLeft
                  /\ Capture!DisplayTrue /\ Capture!NoLockedPiece /\ Capture!PaysOnce
BY DEF CaptureInv, Route, Learned, Handed, Capture!RefusalFinal, Capture!NoneLeft,
   Capture!DisplayTrue, Capture!NoLockedPiece, Capture!PaysOnce

(* A composite is accepted in its last look only.                          *)
LEMMA CompositeLooked ==
    ASSUME CaptureInv, [Capture!Next]_(Capture!vars), pc = "final", result' = "utility"
    PROVE  /\ [i \in DOMAIN pieces |-> pieces[i].display] = layout.ids
           /\ \A i \in DOMAIN pieces : pieces[i].geo = layout.geo[pieces[i].display]
<1>0. CaptureFacts /\ result = "none" /\ kind = "whole" /\ next = Len(plan.ids)
      BY FactsHold DEF CaptureInv, Route
<1>1. Capture!Final
      BY <1>0 DEF Capture!Next, Capture!vars, Capture!verdict, Capture!Lock, Capture!Unlock,
         Capture!Rearrange, Capture!Tick, Capture!Begin, Capture!Probe, Capture!Recheck,
         Capture!Native,
                  Capture!NoUtility, Capture!Utility, Capture!Setup, Capture!Storage,
                  Capture!Before, Capture!Child, Capture!After, Capture!Accepted
<1>2. layout.ids = plan.ids /\ \A d \in Capture!ToSet(plan.ids) : layout.geo[d] = plan.geo[d]
      BY <1>0, <1>1 DEF Capture!Final, Capture!Finish
<1>3. /\ Len(pieces) = Len(plan.ids)
      /\ \A i \in 1 .. Len(pieces) :
            pieces[i].display = plan.ids[i] /\ pieces[i].geo = plan.geo[pieces[i].display]
      BY <1>0 DEF CaptureFacts, CaptureInv, Gathered, Accepting, Since, Ordinal
<1>4. /\ DOMAIN pieces = 1 .. Len(pieces) /\ DOMAIN plan.ids = 1 .. Len(plan.ids)
      /\ plan.ids = [i \in 1 .. Len(plan.ids) |-> plan.ids[i]]
      BY <1>0 DEF CaptureFacts
<1>5. [i \in DOMAIN pieces |-> pieces[i].display] = [i \in 1 .. Len(plan.ids) |-> plan.ids[i]]
      BY <1>3, <1>4
<1>6. \A i \in 1 .. Len(pieces) : pieces[i].display \in Capture!ToSet(plan.ids)
      BY <1>3, <1>4 DEF Capture!ToSet
<1> QED
    BY <1>2, <1>3, <1>4, <1>5, <1>6

(* Every way through MacOSBackend.capture keeps its guards: what a child   *)
(* hands back was asked for, was not locked and is current, a refusal is   *)
(* final, no private file stays, and only one native call ever crawls.     *)
THEOREM CapturesGuarded == Capture!Spec => CaptureGuarded
<1>1. Capture!Spec => []CaptureInv
      BY InitCapture, NextCapture, PTL DEF Capture!Spec
<1>2. Capture!Spec => [](/\ Capture!TypeOK /\ Capture!RefusalFinal /\ Capture!NoneLeft
                        /\ Capture!DisplayTrue /\ Capture!NoLockedPiece /\ Capture!PaysOnce)
      BY <1>1, CaptureInvGuards, PTL
<1>3. CaptureInv /\ [Capture!Next]_(Capture!vars) =>
        [pc = "final" /\ result' = "utility" =>
             /\ [i \in DOMAIN pieces |-> pieces[i].display] = layout.ids
             /\ \A i \in DOMAIN pieces : pieces[i].geo = layout.geo[pieces[i].display]]_(Capture!vars)
      BY CompositeLooked
<1>4. Capture!Spec => Capture!CompositeCurrent
      BY <1>1, <1>3, PTL DEF Capture!Spec, Capture!CompositeCurrent
<1> QED
    BY <1>2, <1>4, PTL DEF CaptureGuarded, Capture!CaptureGuarded

-----------------------------------------------------------------------------
(***************************************************************************)
(* Observed control.                                                       *)
(***************************************************************************)

(* The worker's part of an act, under _announce_lock.                      *)
Inside == {"guard", "look", "compare", "send", "next"}

(* Where a call's coroutine and its thread can be at the same time.        *)
Stages(c) ==
    /\ place[c] = "new" => job[c] = "none" /\ status[c] = None
    /\ place[c] = "disclosing" => job[c] = "none"
    /\ place[c] = "validating" => job[c] \in {"validate", "match", "valid", "stale", "failed"}
    /\ place[c] = "approving" => job[c] = "valid"
    /\ place[c] = "observing" => job[c] \in {"capture", "reading", "done", "failed", "stale"}
    /\ place[c] = "running" => job[c] \in Inside \cup {"queued", "sent", "stale", "raised"}
    /\ status[c] # None => place[c] = "ended"

(* An observe knows what it stores.                                        *)
Stores(c) ==
    /\ job[c] \in {"capture", "reading"} => base[c] # 0
    /\ job[c] = "reading" => picture[c] \in Pixels

(* How many events of an act have landed.                                  *)
Landings(c) ==
    /\ job[c] \notin Inside \cup {"sent", "raised"} => landed[c] = 0
    /\ job[c] \in Inside => landed[c] < Observed!Wanted(c)
    /\ job[c] = "next" => landed[c] > 0
    /\ job[c] = "compare" => landed[c] = 0
    /\ job[c] = "sent" => landed[c] = Observed!Wanted(c)

(* The worker that holds the lock keeps the binding as it is.              *)
Secured(c) ==
    /\ job[c] \in Inside => worker = c
    /\ job[c] \in {"compare", "send"} => binding = proof[c].gen

(* An act whose last look is not over has seen what is on the screen now;  *)
(* one that sends its first event saw it then.                             *)
Sighted(c) ==
    /\ job[c] \in {"look", "compare"} /\ screen = proof[c].pixels => seen[c]
    /\ job[c] = "send" /\ landed[c] = 0 => seen[c]

(* What a call was told, and what it still may do: a revoked act that has  *)
(* been granted its next event sends that one and no other.                *)
Settled(c) ==
    /\ place[c] \in {"new", "ended"} => ~proof[c].active
    /\ status[c] \in {"stale", "denied"} => job[c] \in {"none", "valid", "stale"}
    /\ status[c] = "completed" => job[c] = "sent"
    /\ status[c] = "cancelled" =>
        landed[c] + Observed!Granted(c) <= allowed[c]

CallInv(c) ==
    Stages(c) /\ Stores(c) /\ Landings(c) /\ Secured(c) /\ Sighted(c) /\ Settled(c)

ObservedInv == Observed!TypeOK /\ \A c \in Calls : CallInv(c)

-----------------------------------------------------------------------------
LEMMA InitObserved == Observed!Init => ObservedInv
<1> SUFFICES ASSUME Observed!Init PROVE ObservedInv
    OBVIOUS
<1> USE ObservedAssumed DEF Observed!ObservedAssumption
<1>1. Observed!TypeOK
  <2>1. observations \in Seq([pixels : Pixels, gen : 1 .. MaxRetargets + 1, old : BOOLEAN])
        BY DEF Observed!Init
  <2>2. Observed!IsInjective([i \in DOMAIN observations |-> observations[i].pixels])
        BY DEF Observed!Init, Observed!IsInjective
  <2>3. proof \in [Calls -> [pixels : Pixels \cup {None}, gen : 0 .. MaxRetargets + 1,
  old : BOOLEAN,
                             active : BOOLEAN, checked : BOOLEAN]]
        BY DEF Observed!Init, Observed!NoProof
  <2>4. Len(observations) <= Remembered
        BY DEF Observed!Init
  <2>5. seen \in [Calls -> BOOLEAN]
        BY Zenon DEF Observed!Init
  <2>6. /\ place \in [Calls -> {"new"}] /\ job \in [Calls -> {"none"}] /\ op \in [Calls -> {None}]
        /\ base \in [Calls -> {0}] /\ picture \in [Calls -> {None}] /\ landed \in [Calls -> {0}]
        /\ allowed \in [Calls -> {0}] /\ status \in [Calls -> {None}]
        BY DEF Observed!Init
  <2> QED
      BY <2>1, <2>2, <2>3, <2>4, <2>5, <2>6 DEF Observed!Init, Observed!TypeOK
<1>2. \A c \in Calls : CallInv(c)
      BY DEF Observed!Init, CallInv, Stages, Stores, Landings, Secured, Sighted, Settled,
         Observed!NoProof, Inside, Observed!Answers
<1> QED
    BY <1>1, <1>2 DEF ObservedInv

-----------------------------------------------------------------------------
(* Types.                                                                  *)
Observation == [pixels : Pixels, gen : 1 .. MaxRetargets + 1, old : BOOLEAN]
Proof == [pixels : Pixels \cup {None}, gen : 0 .. MaxRetargets + 1, old : BOOLEAN,
          active : BOOLEAN, checked : BOOLEAN]

(* What is remembered: a list of observations of different revisions, no   *)
(* longer than it may be.                                                  *)
Kept(known) ==
    /\ known \in Seq(Observation) /\ Len(known) <= Remembered
    /\ \A i, j \in DOMAIN known : known[i].pixels = known[j].pixels => i = j

LEMMA KeptTyped ==
    Kept(observations) <=>
        /\ observations \in Seq(Observation) /\ Len(observations) <= Remembered
        /\ Observed!IsInjective([i \in DOMAIN observations |-> observations[i].pixels])
BY DEF Kept, Observed!IsInjective

LEMMA RememberKept ==
    ASSUME NEW known, Kept(known), NEW new \in Observation
    PROVE  Kept(Observed!Remember(known, new))
<1> USE ObservedAssumed DEF Observed!ObservedAssumption
<1> DEFINE same == {i \in DOMAIN known : known[i].pixels = new.pixels}
<1>0. /\ known \in Seq(Observation) /\ Len(known) \in Nat /\ Len(known) <= Remembered
      /\ \A i \in 1 .. Len(known) : known[i] \in Observation
      /\ \A i, j \in 1 .. Len(known) : known[i].pixels = known[j].pixels => i = j
      /\ Remembered \in Nat /\ Remembered > 0
      BY DEF Kept
<1>1. CASE same # {}
  <2> DEFINE r == [i \in DOMAIN known |-> IF i \in same THEN new ELSE known[i]]
  <2>1. r \in Seq(Observation) /\ Len(r) = Len(known)
        BY <1>0
  <2>2. \A i \in 1 .. Len(known) : r[i].pixels = known[i].pixels
        BY <1>0
  <2>3. \A i, j \in DOMAIN r : r[i].pixels = r[j].pixels => i = j
        BY <1>0, <2>1, <2>2
  <2>4. Kept(r)
        BY <1>0, <2>1, <2>3 DEF Kept
  <2> QED
      BY <1>1, <2>4 DEF Observed!Remember
<1>2. CASE same = {} /\ Len(known) < Remembered
  <2> DEFINE r == Append(known, new)
  <2>1. r \in Seq(Observation) /\ Len(r) = Len(known) + 1
        BY <1>0
  <2>2. \A i \in 1 .. Len(known) : r[i] = known[i] /\ known[i].pixels # new.pixels
        BY <1>0, <1>2
  <2>3. r[Len(known) + 1] = new
        BY <1>0
  <2>4. \A i, j \in DOMAIN r : r[i].pixels = r[j].pixels => i = j
        BY <1>0, <2>1, <2>2, <2>3
  <2>5. Kept(r)
        BY <1>0, <1>2, <2>1, <2>4 DEF Kept
  <2> QED
      BY <1>2, <2>5 DEF Observed!Remember
<1>3. CASE same = {} /\ Len(known) >= Remembered
  <2> DEFINE k == Tail(known)
             r == Append(k, new)
  <2>1. k \in Seq(Observation) /\ Len(k) = Len(known) - 1 /\ known # <<>>
        BY <1>0, <1>3
  <2>2. r \in Seq(Observation) /\ Len(r) = Len(known)
        BY <1>0, <1>3, <2>1
  <2>3. \A i \in 1 .. Len(k) : r[i] = known[i + 1] /\ known[i + 1].pixels # new.pixels
        BY <1>0, <1>3, <2>1
  <2>4. r[Len(known)] = new
        BY <1>0, <2>1
  <2>5. \A i, j \in DOMAIN r : r[i].pixels = r[j].pixels => i = j
        BY <1>0, <2>1, <2>2, <2>3, <2>4
  <2>6. Kept(r)
        BY <1>0, <2>2, <2>5 DEF Kept
  <2> QED
      BY <1>0, <1>3, <2>6 DEF Observed!Remember
<1> QED
    BY <1>0, <1>1, <1>2, <1>3

(* The only step that remembers something.                                 *)
LEMMA NextKept == ASSUME ObservedInv, [Observed!Next]_(Observed!vars) PROVE Kept(observations)'
<1>0. Kept(observations)
      BY KeptTyped DEF ObservedInv, Observed!TypeOK, Observation
<1>1. CASE UNCHANGED observations
      BY <1>0, <1>1 DEF Kept
<1>2. CASE Observed!Expire
  <2>1. \A i \in DOMAIN observations :
            /\ [observations[i] EXCEPT !.old = TRUE] \in Observation
            /\ [observations[i] EXCEPT !.old = TRUE].pixels = observations[i].pixels
    <3>1. \A o \in Observation :
            /\ [o EXCEPT !.old = TRUE] \in Observation
            /\ [o EXCEPT !.old = TRUE].pixels = o.pixels
          BY DEF Observation
    <3>2. \A i \in DOMAIN observations : observations[i] \in Observation
          BY <1>0 DEF Kept
    <3> QED
        BY <3>1, <3>2
  <2>2. /\ observations' \in Seq(Observation) /\ Len(observations') = Len(observations)
        /\ \A i \in DOMAIN observations : observations'[i].pixels = observations[i].pixels
    <3>1. DOMAIN observations = 1 .. Len(observations) /\ Len(observations) \in Nat
          BY <1>0 DEF Kept
    <3>2. observations' = [i \in 1 .. Len(observations) |-> [observations[i] EXCEPT !.old = TRUE]]
          BY <1>2, <3>1 DEF Observed!Expire
    <3>3. observations' \in [1 .. Len(observations) -> Observation]
          BY <2>1, <3>1, <3>2
    <3>4. observations' \in Seq(Observation) /\ Len(observations') = Len(observations)
          BY <3>1, <3>3
    <3> QED
        BY <2>1, <3>1, <3>2, <3>4
  <2> QED
      BY <1>0, <2>2 DEF Kept
<1>3. ASSUME NEW c \in Calls, Observed!Store(c) PROVE Kept(observations)'
  <2>1. CASE observations' = Observed!Remember(observations, [pixels |-> picture[c],
  gen |-> base[c], old |-> FALSE])
    <3>1. [pixels |-> picture[c], gen |-> base[c], old |-> FALSE] \in Observation
          BY <1>3 DEF Observed!Store, ObservedInv, Observed!TypeOK, CallInv, Stores, Observation
    <3>2. Kept(Observed!Remember(observations, [pixels |-> picture[c], gen |-> base[c],
    old |-> FALSE]))
          BY <1>0, <3>1, RememberKept
    <3> QED
        BY <2>1, <3>2 DEF Kept
  <2> QED
      BY <1>1, <1>3, <2>1 DEF Observed!Store
<1> QED
    BY <1>1, <1>2, <1>3
    DEF Observed!Next, Observed!Coroutine, Observed!Thread, Observed!vars, Observed!machine,
        Observed!control, Observed!acts, Observed!ScreenChanges, Observed!ReplaceBinding,
        Observed!Observe, Observed!Disclosed, Observed!ObserveReturns, Observed!Act,
        Observed!ActUnknown, Observed!Execute, Observed!Approved, Observed!ActReturns,
        Observed!Capture, Observed!Validate, Observed!Match, Observed!WorkerEnters,
        Observed!GuardDecides, Observed!Look, Observed!Compare, Observed!Send, Observed!NextKey,
        Observed!Cancel

LEMMA ProofEdited ==
    ASSUME NEW o \in Proof, NEW b \in BOOLEAN
    PROVE  /\ [o EXCEPT !.active = b] \in Proof /\ [o EXCEPT !.old = b] \in Proof
           /\ [o EXCEPT !.checked = b] \in Proof
           /\ o.old \in BOOLEAN
           /\ o.active \in BOOLEAN /\ o.checked \in BOOLEAN
BY DEF Proof

LEMMA ProofRead ==
    ASSUME NEW o \in Proof, NEW b
    PROVE  /\ [o EXCEPT !.active = b].active = b
           /\ [o EXCEPT !.active = b].pixels = o.pixels /\ [o EXCEPT !.active = b].gen = o.gen
           /\ [o EXCEPT !.old = b].pixels = o.pixels /\ [o EXCEPT !.old = b].gen = o.gen
           /\ [o EXCEPT !.old = b].active = o.active
           /\ [o EXCEPT !.checked = b].pixels = o.pixels /\ [o EXCEPT !.checked = b].gen = o.gen
           /\ [o EXCEPT !.checked = b].active = o.active
BY DEF Proof

LEMMA NextObservedTypes ==
    ASSUME ObservedInv, [Observed!Next]_(Observed!vars)
    PROVE  Observed!TypeOK'
<1> USE ObservedAssumed DEF Observed!ObservedAssumption, Observed!machine, Observed!control,
        Observed!acts, Observed!Job, Observed!Raises
<1>0. /\ screen \in Pixels /\ changes \in 0 .. MaxChanges
      /\ binding \in 1 .. MaxRetargets + 1
      /\ holder \in Calls \cup {None} /\ worker \in Calls \cup {None}
      /\ place \in [Calls -> {"new", "disclosing", "observing", "validating",
                              "approving", "running", "ended"}]
      /\ job \in [Calls -> {"none", "capture", "reading", "done", "failed", "validate",
                            "match", "valid", "stale", "queued", "guard", "look", "compare",
                            "send", "next", "sent", "raised"}]
      /\ op \in [Calls -> {None, "click", "type"}] /\ base \in [Calls -> 0 .. MaxRetargets + 1]
      /\ picture \in [Calls -> Pixels \cup {None}] /\ proof \in [Calls -> Proof]
      /\ seen \in [Calls -> BOOLEAN] /\ landed \in [Calls -> 0 .. Keys]
      /\ allowed \in [Calls -> 0 .. Keys] /\ cancels \in 0 .. MaxCancels
      /\ status \in [Calls -> Observed!Answers \cup {None}]
      BY DEF ObservedInv, Observed!TypeOK, Proof
<1> DEFINE Typed ==
      /\ screen' \in Pixels /\ changes' \in 0 .. MaxChanges
      /\ binding' \in 1 .. MaxRetargets + 1
      /\ holder' \in Calls \cup {None} /\ worker' \in Calls \cup {None}
      /\ place' \in [Calls -> {"new", "disclosing", "observing", "validating",
                               "approving", "running", "ended"}]
      /\ job' \in [Calls -> {"none", "capture", "reading", "done", "failed", "validate",
                             "match", "valid", "stale", "queued", "guard", "look", "compare",
                             "send", "next", "sent", "raised"}]
      /\ op' \in [Calls -> {None, "click", "type"}] /\ base' \in [Calls -> 0 .. MaxRetargets + 1]
      /\ picture' \in [Calls -> Pixels \cup {None}] /\ proof' \in [Calls -> Proof]
      /\ seen' \in [Calls -> BOOLEAN] /\ landed' \in [Calls -> 0 .. Keys]
      /\ allowed' \in [Calls -> 0 .. Keys] /\ cancels' \in 0 .. MaxCancels
      /\ status' \in [Calls -> Observed!Answers \cup {None}]
<1>s. ASSUME Typed PROVE Observed!TypeOK'
      BY <1>s, NextKept DEF Observed!TypeOK, Kept, Observation, Proof, Observed!IsInjective
<1>e. ASSUME NEW c \in Calls, NEW answer \in Observed!Answers, Observed!Ends(c, answer)
      PROVE  /\ holder' \in Calls \cup {None} /\ proof' \in [Calls -> Proof]
             /\ place' \in [Calls -> {"new", "disclosing", "observing", "validating",
                                      "approving", "running", "ended"}]
             /\ status' \in [Calls -> Observed!Answers \cup {None}]
      BY <1>0, <1>e, ProofEdited DEF Observed!Ends
<1>1. ASSUME Observed!ScreenChanges PROVE Typed
      BY <1>0, <1>1 DEF Observed!ScreenChanges, Observed!Looks
<1>2. ASSUME Observed!Expire PROVE Typed
      BY <1>0, <1>2, ProofEdited DEF Observed!Expire
<1>3. ASSUME Observed!ReplaceBinding PROVE Typed
      BY <1>0, <1>3 DEF Observed!ReplaceBinding
<1>4. ASSUME NEW c \in Calls, Observed!Observe(c) PROVE Typed
      BY <1>0, <1>4 DEF Observed!Observe
<1>5. ASSUME NEW c \in Calls, Observed!Disclosed(c) PROVE Typed
      BY <1>0, <1>5, <1>e DEF Observed!Disclosed, Observed!Answers
<1>6. ASSUME NEW c \in Calls, Observed!Capture(c) \/ Observed!Store(c) PROVE Typed
      BY <1>0, <1>6 DEF Observed!Capture, Observed!Store
<1>7. ASSUME NEW c \in Calls, Observed!ObserveReturns(c) PROVE Typed
      BY <1>0, <1>7, <1>e DEF Observed!ObserveReturns, Observed!Answers
<1>8. ASSUME NEW c \in Calls, Observed!Act(c) PROVE Typed
  <2>1. PICK i \in DOMAIN observations, o \in {"click", "type"} :
         /\ op' = [op EXCEPT ![c] = o]
         /\ proof' = [proof EXCEPT ![c] =
                [pixels |-> observations[i].pixels, gen |-> observations[i].gen,
                 old |-> observations[i].old, active |-> TRUE, checked |-> FALSE]]
        BY <1>8 DEF Observed!Act
  <2>2. observations[i] \in Observation
    <3>1. observations \in Seq(Observation)
          BY DEF ObservedInv, Observed!TypeOK, Observation
    <3> QED
        BY <3>1
  <2>3. proof' \in [Calls -> Proof] /\ op' \in [Calls -> {None, "click", "type"}]
        BY <1>0, <2>1, <2>2 DEF Proof, Observation
  <2> QED
      BY <1>0, <1>8, <2>3 DEF Observed!Act
<1>9. ASSUME NEW c \in Calls, Observed!ActUnknown(c) PROVE Typed
      BY <1>0, <1>9 DEF Observed!ActUnknown, Observed!Answers
<1>k. ASSUME NEW c \in Calls, Observed!Checked(c) \/ UNCHANGED proof
      PROVE  proof' \in [Calls -> Proof]
  <2>1. CASE Observed!Checked(c)
    <3>1. [proof[c] EXCEPT !.checked = TRUE] \in Proof
          BY <1>0, ProofEdited
    <3>2. proof' = [proof EXCEPT ![c] = [proof[c] EXCEPT !.checked = TRUE]]
          BY <2>1 DEF Observed!Checked
    <3> QED
        BY <1>0, <3>1, <3>2
  <2> QED
      BY <1>0, <1>k, <2>1
<1>10. ASSUME NEW c \in Calls, Observed!Validate(c) PROVE Typed
      BY <1>0, <1>10 DEF Observed!Validate
<1>m. ASSUME NEW c \in Calls, Observed!Match(c) PROVE Typed
  <2>1. proof' \in [Calls -> Proof]
        BY <1>m, <1>k DEF Observed!Match
  <2> QED
      BY <1>0, <1>m, <2>1 DEF Observed!Match
<1>11. ASSUME NEW c \in Calls, Observed!Execute(c) PROVE Typed
      BY <1>0, <1>11, <1>e DEF Observed!Execute, Observed!Answers
<1>12. ASSUME NEW c \in Calls, Observed!Approved(c) PROVE Typed
      BY <1>0, <1>12, <1>e DEF Observed!Approved, Observed!Answers
<1>13. ASSUME NEW c \in Calls, Observed!WorkerEnters(c) PROVE Typed
      BY <1>0, <1>13 DEF Observed!WorkerEnters
<1>14. ASSUME NEW c \in Calls, Observed!GuardDecides(c) PROVE Typed
  <2>1. seen' \in [Calls -> BOOLEAN]
        BY <1>0, <1>14 DEF Observed!GuardDecides
  <2> QED
      BY <1>0, <1>14, <2>1 DEF Observed!GuardDecides
<1>15. ASSUME NEW c \in Calls, Observed!Look(c) PROVE Typed
      BY <1>0, <1>15 DEF Observed!Look
<1>c. ASSUME NEW c \in Calls, Observed!Compare(c) PROVE Typed
  <2>1. proof' \in [Calls -> Proof]
        BY <1>c, <1>k DEF Observed!Compare
  <2> QED
      BY <1>0, <1>c, <2>1 DEF Observed!Compare
<1>16. ASSUME NEW c \in Calls, Observed!Send(c) PROVE Typed
  <2>1. landed[c] < Keys
        BY <1>0, <1>16 DEF Observed!Send, ObservedInv, CallInv, Landings, Observed!Wanted, Inside
  <2>2. landed' \in [Calls -> 0 .. Keys]
        BY <1>0, <1>16, <2>1 DEF Observed!Send
  <2>3. seen' \in [Calls -> BOOLEAN] /\ screen' \in Pixels
        BY <1>0, <1>16 DEF Observed!Send
  <2>4. job' = [job EXCEPT ![c] = "next"] \/ job' = [job EXCEPT ![c] = "sent"]
            \/ job' = [job EXCEPT ![c] = "raised"]
        BY <1>16 DEF Observed!Send
  <2>5. worker' = worker \/ worker' = None
        BY <1>16 DEF Observed!Send
  <2> QED
      BY <1>0, <1>16, <2>2, <2>3, <2>4, <2>5 DEF Observed!Send
<1>17. ASSUME NEW c \in Calls, Observed!NextKey(c) PROVE Typed
      BY <1>0, <1>17 DEF Observed!NextKey
<1>18. ASSUME NEW c \in Calls, Observed!ActReturns(c) PROVE Typed
      BY <1>0, <1>18, <1>e DEF Observed!ActReturns, Observed!Answers
<1>19. ASSUME NEW c \in Calls, Observed!Cancel(c) PROVE Typed
  <2>1. landed[c] + Observed!Granted(c) \in 0 .. Keys
        BY <1>0 DEF ObservedInv, CallInv, Landings, Observed!Wanted, Observed!Granted, Inside
  <2>2. allowed' \in [Calls -> 0 .. Keys]
        BY <1>0, <1>19, <2>1 DEF Observed!Cancel
  <2> QED
      BY <1>0, <1>19, <1>e, <2>2 DEF Observed!Cancel, Observed!Answers
<1>20. ASSUME UNCHANGED Observed!vars PROVE Typed
      BY <1>0, <1>20 DEF Observed!vars
<1>21. Typed
    BY <1>1, <1>2, <1>3, <1>4, <1>5, <1>6, <1>7, <1>8, <1>9, <1>10, <1>11, <1>12, <1>13, <1>14,
       <1>15, <1>16, <1>17, <1>18, <1>19, <1>20, <1>m, <1>c DEF Observed!Next, Observed!Coroutine,
       Observed!Thread
<1> QED
    BY <1>s, <1>21

-----------------------------------------------------------------------------
(* What a step leaves alone.                                               *)
Still(d) ==
    /\ place'[d] = place[d] /\ job'[d] = job[d] /\ op'[d] = op[d] /\ base'[d] = base[d]
    /\ picture'[d] = picture[d] /\ landed'[d] = landed[d] /\ allowed'[d] = allowed[d]
    /\ status'[d] = status[d] /\ proof'[d].pixels = proof[d].pixels
    /\ proof'[d].gen = proof[d].gen /\ proof'[d].active = proof[d].active

(* A step of one call does not move another; it changes the lock only if   *)
(* nobody else has it, and the screen only with the lock.                  *)
LEMMA OthersStill ==
    ASSUME ObservedInv, NEW c \in Calls, NEW d \in Calls, c # d,
           Observed!Coroutine(c) \/ Observed!Thread(c) \/ Observed!Cancel(c)
    PROVE  /\ Still(d) /\ seen'[d] = seen[d] /\ UNCHANGED binding
           /\ worker' = worker \/ {worker, worker'} \subseteq {None, c}
           /\ screen' = screen \/ worker = c
<1> USE DEF Observed!TypeOK, Observed!machine, Observed!control, Observed!acts, Observed!Job,
        Observed!Raises, Observed!Ends, Still
<1>0. Observed!TypeOK /\ CallInv(c)
      BY DEF ObservedInv
<1> DEFINE Goal == /\ Still(d) /\ seen'[d] = seen[d] /\ UNCHANGED binding
                   /\ worker' = worker \/ {worker, worker'} \subseteq {None, c}
                   /\ screen' = screen \/ worker = c
<1>1. CASE Observed!Observe(c)
      BY <1>0, <1>1 DEF Observed!Observe
<1>2. CASE Observed!Disclosed(c)
      BY <1>0, <1>2 DEF Observed!Disclosed
<1>3. CASE Observed!Capture(c)
      BY <1>0, <1>3 DEF Observed!Capture
<1>4. CASE Observed!Store(c)
      BY <1>0, <1>4 DEF Observed!Store
<1>5. CASE Observed!ObserveReturns(c)
      BY <1>0, <1>5 DEF Observed!ObserveReturns
<1>6. CASE Observed!Act(c)
      BY <1>0, <1>6 DEF Observed!Act
<1>7. CASE Observed!ActUnknown(c)
      BY <1>0, <1>7 DEF Observed!ActUnknown
<1>8. CASE Observed!Validate(c)
      BY <1>0, <1>8 DEF Observed!Validate
<1>m. CASE Observed!Match(c)
      BY <1>0, <1>m DEF Observed!Match, Observed!Checked
<1>9. CASE Observed!Execute(c)
      BY <1>0, <1>9 DEF Observed!Execute
<1>10. CASE Observed!Approved(c)
      BY <1>0, <1>10 DEF Observed!Approved
<1>11. CASE Observed!WorkerEnters(c)
      BY <1>0, <1>11 DEF Observed!WorkerEnters
<1>12. CASE Observed!GuardDecides(c)
      BY <1>0, <1>12 DEF Observed!GuardDecides, CallInv, Secured, Inside
<1>13. CASE Observed!Look(c)
      BY <1>0, <1>13 DEF Observed!Look, CallInv, Secured, Inside
<1>c. CASE Observed!Compare(c)
      BY <1>0, <1>c DEF Observed!Compare, Observed!Checked, CallInv, Secured, Inside
<1>14. CASE Observed!Send(c)
      BY <1>0, <1>14 DEF Observed!Send, CallInv, Secured, Inside
<1>15. CASE Observed!NextKey(c)
      BY <1>0, <1>15 DEF Observed!NextKey, CallInv, Secured, Inside
<1>16. CASE Observed!ActReturns(c)
      BY <1>0, <1>16 DEF Observed!ActReturns
<1>17. CASE Observed!Cancel(c)
      BY <1>0, <1>17 DEF Observed!Cancel
<1> QED
    BY <1>1, <1>2, <1>3, <1>4, <1>5, <1>6, <1>7, <1>8, <1>9, <1>10, <1>11, <1>12, <1>13, <1>14,
       <1>15, <1>16, <1>17, <1>m, <1>c DEF Observed!Coroutine, Observed!Thread

LEMMA StillKept ==
    ASSUME ObservedInv, NEW d \in Calls, Still(d), seen'[d] = seen[d], UNCHANGED binding,
           worker' = worker \/ (worker # d /\ worker' # d),
           screen' = screen \/ worker # d
    PROVE  CallInv(d)'
BY DEF ObservedInv, CallInv, Still, Stages, Stores, Landings, Observed!Wanted, Secured, Sighted,
   Settled, Observed!Granted, Inside

(* A step of a call keeps what holds of it.                                *)
LEMMA OwnKept ==
    ASSUME ObservedInv, Observed!TypeOK', NEW c \in Calls,
    Observed!Coroutine(c) \/ Observed!Thread(c) \/ Observed!Cancel(c)
    PROVE  CallInv(c)'
<1> USE ObservedAssumed
    DEF Observed!ObservedAssumption, Observed!machine, Observed!control, Observed!acts,
        Observed!Job, Observed!Raises, Observed!Ends, CallInv, Inside, Observed!Answers,
        Stages, Stores, Landings, Observed!Wanted, Secured, Sighted, Settled,
        Observed!Granted
<1>0. /\ CallInv(c)
      /\ screen \in Pixels /\ binding \in 1 .. MaxRetargets + 1 /\ worker \in Calls \cup {None}
      /\ place \in [Calls -> {"new", "disclosing", "observing", "validating",
                              "approving", "running", "ended"}]
      /\ job \in [Calls -> {"none", "capture", "reading", "done", "failed", "validate",
                            "match", "valid", "stale", "queued", "guard", "look", "compare",
                            "send", "next", "sent", "raised"}]
      /\ op \in [Calls -> {None, "click", "type"}] /\ base \in [Calls -> 0 .. MaxRetargets + 1]
      /\ picture \in [Calls -> Pixels \cup {None}] /\ proof \in [Calls -> Proof]
      /\ seen \in [Calls -> BOOLEAN] /\ landed \in [Calls -> 0 .. Keys]
      /\ allowed \in [Calls -> 0 .. Keys] /\ status \in [Calls -> Observed!Answers \cup {None}]
      BY DEF ObservedInv, Observed!TypeOK, Proof
<1>e. ASSUME NEW answer \in Observed!Answers, Observed!Ends(c, answer)
      PROVE  /\ place'[c] = "ended" /\ status'[c] = answer /\ ~proof'[c].active
             /\ proof'[c].pixels = proof[c].pixels /\ proof'[c].gen = proof[c].gen
      BY <1>0, <1>e, ProofRead
<1>1. CASE Observed!Observe(c)
      BY <1>0, <1>1, ProofRead DEF Observed!Observe
<1>2. CASE Observed!Disclosed(c)
  <2>1. CASE Observed!Ends(c, "error") /\ UNCHANGED <<base, job>>
        BY <1>0, <1>2, <1>e, <2>1 DEF Observed!Disclosed
  <2>2. CASE place' = [place EXCEPT ![c] = "observing"] /\ UNCHANGED <<status, proof>>
        BY <1>0, <1>2, <2>2 DEF Observed!Disclosed
  <2> QED
      BY <1>2, <2>1, <2>2 DEF Observed!Disclosed
<1>3. CASE Observed!Capture(c)
      BY <1>0, <1>3, ProofRead DEF Observed!Capture
<1>4. CASE Observed!Store(c)
      BY <1>0, <1>4, ProofRead DEF Observed!Store
<1>5. CASE Observed!ObserveReturns(c)
      BY <1>0, <1>5, ProofRead DEF Observed!ObserveReturns
<1>6. CASE Observed!Act(c)
      BY <1>0, <1>6, ProofRead DEF Observed!Act
<1>7. CASE Observed!ActUnknown(c)
      BY <1>0, <1>7, ProofRead DEF Observed!ActUnknown
<1>k. ASSUME Observed!Checked(c) \/ UNCHANGED proof
      PROVE  /\ proof'[c].pixels = proof[c].pixels /\ proof'[c].gen = proof[c].gen
             /\ proof'[c].active = proof[c].active
  <2>1. CASE Observed!Checked(c)
    <3>1. proof'[c] = [proof[c] EXCEPT !.checked = TRUE]
          BY <1>0, <2>1 DEF Observed!Checked
    <3> QED
        BY <1>0, <3>1, ProofRead
  <2> QED
      BY <1>k, <2>1
<1>8. CASE Observed!Validate(c)
      BY <1>0, <1>8 DEF Observed!Validate
<1>m. CASE Observed!Match(c)
  <2>1. /\ proof'[c].pixels = proof[c].pixels /\ proof'[c].gen = proof[c].gen
        /\ proof'[c].active = proof[c].active
        BY <1>m, <1>k DEF Observed!Match
  <2>2. job'[c] \in {"valid", "stale", "failed"} /\ job[c] = "match"
        BY <1>0, <1>m DEF Observed!Match
  <2>3. UNCHANGED <<Observed!machine, place, status, allowed, base, picture, op, seen, landed,
                    worker>>
        BY <1>m DEF Observed!Match
  <2> QED
      BY <1>0, <2>1, <2>2, <2>3
<1>9. CASE Observed!Execute(c)
  <2>1. ASSUME NEW answer \in {"stale", "error"}, Observed!Ends(c, answer),
               job[c] \in {"stale", "failed"}
        PROVE  CallInv(c)'
        BY <1>0, <1>9, <1>e, <2>1 DEF Observed!Execute
  <2>2. CASE job[c] = "valid"
        BY <1>0, <1>9, <2>2 DEF Observed!Execute
  <2> QED
      BY <1>9, <2>1, <2>2 DEF Observed!Execute
<1>10. CASE Observed!Approved(c)
  <2>1. ASSUME NEW answer \in {"denied", "unknown"}, Observed!Ends(c, answer), UNCHANGED job
        PROVE  CallInv(c)'
        BY <1>0, <1>10, <1>e, <2>1 DEF Observed!Approved
  <2>2. CASE place' = [place EXCEPT ![c] = "running"] /\ job' = [job EXCEPT ![c] = "queued"]
                /\ UNCHANGED <<status, proof>>
        BY <1>0, <1>10, <2>2 DEF Observed!Approved
  <2> QED
      BY <1>10, <2>1, <2>2 DEF Observed!Approved
<1>11. CASE Observed!WorkerEnters(c)
      BY <1>0, <1>11, ProofRead DEF Observed!WorkerEnters
<1>12. CASE Observed!GuardDecides(c)
  <2>1. CASE job' = [job EXCEPT ![c] = "raised"] /\ UNCHANGED seen
        BY <1>0, <1>12, <2>1 DEF Observed!GuardDecides
  <2>2. CASE job' = [job EXCEPT ![c] = "look"] /\ UNCHANGED worker
                /\ seen' = [seen EXCEPT ![c] = screen = proof[c].pixels]
    <3>1. seen'[c] <=> screen = proof[c].pixels
          BY <1>0, <2>2
    <3>2. job'[c] = "look" /\ UNCHANGED <<screen, proof, place, status, landed, allowed, op>>
          BY <1>0, <1>12, <2>2 DEF Observed!GuardDecides
    <3> QED
        BY <1>0, <1>12, <2>2, <3>1, <3>2 DEF Observed!GuardDecides
  <2> QED
      BY <1>12, <2>1, <2>2 DEF Observed!GuardDecides
<1>13. CASE Observed!Look(c)
  <2>1. /\ UNCHANGED <<Observed!machine, proof, place, status, allowed, base, picture, op, seen,
                       landed>>
        /\ job[c] = "look"
        BY <1>13 DEF Observed!Look
  <2>2. CASE job' = [job EXCEPT ![c] = "compare"] /\ UNCHANGED worker
    <3>1. proof[c].active /\ binding = proof[c].gen /\ landed[c] = 0
          BY <1>0, <1>13, <2>2 DEF Observed!Look, Observed!Current, Observed!Authority
    <3>2. job'[c] = "compare" /\ place[c] \notin {"new", "ended"}
          BY <1>0, <2>2, <3>1
    <3> QED
        BY <1>0, <2>1, <2>2, <3>1, <3>2
  <2>3. CASE job' = [job EXCEPT ![c] = "send"] /\ UNCHANGED worker
    <3>1. proof[c].active /\ binding = proof[c].gen /\ landed[c] # 0
          BY <1>0, <1>13, <2>3 DEF Observed!Look, Observed!Authority
    <3>2. job'[c] = "send" /\ place[c] \notin {"new", "ended"}
          BY <1>0, <2>3, <3>1
    <3> QED
        BY <1>0, <2>1, <2>3, <3>1, <3>2
  <2>4. CASE job' = [job EXCEPT ![c] = "raised"]
        BY <1>0, <2>1, <2>4
  <2>5. CASE job' = [job EXCEPT ![c] = "stale"] /\ landed[c] = 0
        BY <1>0, <2>1, <2>5
  <2> QED
      BY <1>13, <2>2, <2>3, <2>4, <2>5 DEF Observed!Look
<1>c. CASE Observed!Compare(c)
  <2>1. /\ proof'[c].pixels = proof[c].pixels /\ proof'[c].gen = proof[c].gen
        /\ proof'[c].active = proof[c].active
        BY <1>c, <1>k DEF Observed!Compare
  <2>2. /\ UNCHANGED <<Observed!machine, place, status, allowed, base, picture, op, seen, landed>>
        /\ job[c] = "compare"
        BY <1>c DEF Observed!Compare
  <2>3. CASE job' = [job EXCEPT ![c] = "send"] /\ UNCHANGED worker /\ Observed!Same(c)
    <3>1. job'[c] = "send" /\ screen = proof[c].pixels /\ seen[c]
          BY <1>0, <2>2, <2>3 DEF Observed!Same
    <3> QED
        BY <1>0, <2>1, <2>2, <2>3, <3>1
  <2>4. CASE job' = [job EXCEPT ![c] = "raised"] \/ job' = [job EXCEPT ![c] = "stale"]
        BY <1>0, <2>1, <2>2, <2>4
  <2> QED
      BY <1>c, <2>3, <2>4 DEF Observed!Compare
<1>14. CASE Observed!Send(c)
      BY <1>0, <1>14, ProofRead DEF Observed!Send
<1>15. CASE Observed!NextKey(c)
      BY <1>0, <1>15, ProofRead DEF Observed!NextKey
<1>16. CASE Observed!ActReturns(c)
      BY <1>0, <1>16, ProofRead DEF Observed!ActReturns
<1>17. CASE Observed!Cancel(c)
      BY <1>0, <1>17, ProofRead DEF Observed!Cancel
<1> QED
    BY <1>1, <1>2, <1>3, <1>4, <1>5, <1>6, <1>7, <1>8, <1>9, <1>10, <1>11, <1>12, <1>13, <1>14,
       <1>15, <1>16, <1>17, <1>m, <1>c DEF Observed!Coroutine, Observed!Thread

-----------------------------------------------------------------------------
(* The rest of the machine.                                                *)
LEMMA MachineKept ==
    ASSUME ObservedInv, Observed!TypeOK',
    Observed!ScreenChanges \/ Observed!Expire \/ Observed!ReplaceBinding, NEW d \in Calls
    PROVE  CallInv(d)'
<1> USE DEF Observed!control, Observed!acts, CallInv, Inside,
            Stages, Stores, Landings, Observed!Wanted, Secured, Sighted, Settled,
            Observed!Granted
<1>0. CallInv(d) /\ proof \in [Calls -> Proof] /\ None # d
  <2>1. None # d
        BY ObservedAssumed DEF Observed!ObservedAssumption
  <2> QED
      BY <2>1 DEF ObservedInv, Observed!TypeOK, Proof
<1>1. CASE Observed!ScreenChanges
      BY <1>0, <1>1 DEF Observed!ScreenChanges, Observed!Looks
<1>2. CASE Observed!Expire
  <2>1. proof'[d] = [proof[d] EXCEPT !.old = ~proof[d].checked]
        BY <1>2 DEF Observed!Expire
  <2>2. /\ proof'[d].pixels = proof[d].pixels /\ proof'[d].gen = proof[d].gen
        /\ proof'[d].active = proof[d].active
        BY <1>0, <2>1, ProofRead
  <2> QED
      BY <1>0, <1>2, <2>2 DEF Observed!Expire
<1>3. CASE Observed!ReplaceBinding
      BY <1>0, <1>3 DEF Observed!ReplaceBinding
<1> QED
    BY <1>1, <1>2, <1>3

LEMMA NextObserved == ObservedInv /\ [Observed!Next]_(Observed!vars) => ObservedInv'
<1> SUFFICES ASSUME ObservedInv, [Observed!Next]_(Observed!vars) PROVE ObservedInv'
    OBVIOUS
<1>1. Observed!TypeOK'
      BY NextObservedTypes
<1>2. ASSUME NEW d \in Calls PROVE CallInv(d)'
  <2>1. CASE Observed!ScreenChanges \/ Observed!Expire \/ Observed!ReplaceBinding
        BY <1>1, <2>1, MachineKept
  <2>2. ASSUME NEW c \in Calls,
  Observed!Coroutine(c) \/ Observed!Thread(c) \/ Observed!Cancel(c) PROVE CallInv(d)'
    <3>1. CASE c = d
          BY <1>1, <2>2, <3>1, OwnKept
    <3>2. CASE c # d
      <4>1. /\ Still(d) /\ seen'[d] = seen[d] /\ UNCHANGED binding
            /\ worker' = worker \/ {worker, worker'} \subseteq {None, c}
            /\ screen' = screen \/ worker = c
            BY <2>2, <3>2, OthersStill
      <4>2. None # d
            BY ObservedAssumed DEF Observed!ObservedAssumption
      <4> QED
          BY <3>2, <4>1, <4>2, StillKept
    <3> QED
        BY <3>1, <3>2
  <2>3. CASE UNCHANGED Observed!vars
    <3>1. Still(d) /\ seen'[d] = seen[d] /\ UNCHANGED <<binding, worker, screen>>
          BY <2>3 DEF Observed!vars, Observed!machine, Observed!control, Observed!acts, Still
    <3> QED
        BY <3>1, StillKept
  <2> QED
      BY <2>1, <2>2, <2>3 DEF Observed!Next
<1> QED
    BY <1>1, <1>2 DEF ObservedInv

LEMMA ObservedInvSafe == ObservedInv => Observed!ObservedSafe
<1> SUFFICES ASSUME ObservedInv PROVE Observed!ObservedSafe
    OBVIOUS
<1>0. Observed!TypeOK /\ \A c \in Calls : landed[c] \in Nat /\ allowed[c] \in Nat
  <2>1. Keys \in Nat
        BY ObservedAssumed DEF Observed!ObservedAssumption
  <2>2. Observed!TypeOK /\ landed \in [Calls -> 0 .. Keys] /\ allowed \in [Calls -> 0 .. Keys]
        BY DEF ObservedInv, Observed!TypeOK
  <2> QED
      BY <2>1, <2>2
<1>1. Observed!AsSelected
      BY DEF ObservedInv, CallInv, Secured, Sighted, Inside, Observed!AsSelected
<1>2. Observed!Reported
      BY DEF ObservedInv, CallInv, Landings, Settled, Inside, Observed!Reported
<1>3. Observed!RevokedStays
      BY <1>0 DEF ObservedInv, CallInv, Settled, Observed!RevokedStays, Observed!Granted
<1> QED
    BY <1>0, <1>1, <1>2, <1>3 DEF Observed!ObservedSafe

(* An input starts on the binding and the pixels it was selected from, who *)
(* is told stale or denied may select anew, and a cancelled act sends at   *)
(* most the one event whose authority had been checked when it was         *)
(* cancelled (ObservedControl, the executor's proof).                      *)
THEOREM ActsAsSelected == Observed!Spec => []ObservedSafe
<1>1. Observed!Spec => []ObservedInv
      BY InitObserved, NextObserved, PTL DEF Observed!Spec
<1> QED
    BY <1>1, ObservedInvSafe, PTL DEF ObservedSafe
=============================================================================
