---------------------- MODULE CoexistenceGuardProofs ----------------------
(***************************************************************************)
(* What the runs of CoexistenceGuard check on two sessions, proved for     *)
(* every set of sessions, every bound and every mode.                      *)
(***************************************************************************)
EXTENDS CoexistenceGuard, TLAPS

USE DEF AllOps, Phases, Exposed

-----------------------------------------------------------------------------
(* Types.                                                                  *)

LEMMA InitTypeOK == Init => TypeOK
<1> SUFFICES ASSUME Init PROVE TypeOK
    OBVIOUS
<1>1. /\ policy \in [Sessions -> {"none", "active", "lapsed"}]
      /\ cause \in BOOLEAN
      BY Zenon DEF Init
<1>2. 0 \in Nat /\ 0 \in 0..Burst /\ 0 \in 0..MaxOps /\ 0 \in 0..MaxHuman /\ 0 \in 0..MaxClears
      BY BoundsAssumption
<1>3. /\ op \in [Sessions -> AllOps \cup {"none", "failed"}]
      /\ pc \in [Sessions -> Phases]
      BY DEF Init
<1>4. /\ left \in [Sessions -> 0..Burst]
      /\ ops \in [Sessions -> 0..MaxOps]
      /\ late \in [Sessions -> Nat]
      /\ pauseLate \in [Sessions -> Nat]
      BY <1>2, Zenon DEF Init
<1> QED
    BY <1>1, <1>2, <1>3, <1>4 DEF Init, TypeOK

LEMMA TouchTypes ==
    ASSUME TypeOK, NEW S \in SUBSET Sessions, Touch(S)
    PROVE  foreign' \subseteq Sessions /\ recent' \in BOOLEAN
BY DEF TypeOK, Touch

LEMMA ReleaseTypes ==
    ASSUME TypeOK, ReleaseAll
    PROVE  /\ holder' \in Sessions \cup {None}
           /\ foreign' \subseteq Sessions
           /\ recent' \in BOOLEAN
BY TouchTypes DEF TypeOK, ReleaseAll

LEMMA GotoTypes ==
    ASSUME TypeOK, NEW s \in Sessions, NEW phase \in Phases, Goto(s, phase)
    PROVE  pc' \in [Sessions -> Phases]
BY DEF TypeOK, Goto

LEMMA HaltTypes ==
    ASSUME TypeOK, NEW s \in Sessions, Halt(s)
    PROVE  /\ halted' \subseteq Sessions
           /\ pc' \in [Sessions -> Phases]
           /\ holder' \in Sessions \cup {None}
           /\ foreign' \subseteq Sessions
           /\ recent' \in BOOLEAN
BY ReleaseTypes, GotoTypes DEF TypeOK, Halt

LEMMA EndOpTypes ==
    ASSUME TypeOK, NEW s \in Sessions, EndOp(s)
    PROVE  /\ pc' \in [Sessions -> Phases]
           /\ op' \in [Sessions -> AllOps \cup {"none", "failed"}]
           /\ left' \in [Sessions -> 0..Burst]
<1>1. pc' \in [Sessions -> Phases]
      BY GotoTypes DEF EndOp
<1>2. op' \in [Sessions -> AllOps \cup {"none", "failed"}]
      BY DEF TypeOK, EndOp
<1>3. left' \in [Sessions -> 0..Burst]
      BY BoundsAssumption DEF TypeOK, EndOp
<1> QED
    BY <1>1, <1>2, <1>3

LEMMA PhysicalTypes ==
    ASSUME TypeOK, Physical
    PROVE  /\ humans' \in 0..MaxHuman
           /\ cause' \in BOOLEAN
           /\ foreign' \subseteq Sessions
           /\ unseen' \subseteq Sessions
           /\ recent' \in BOOLEAN
BY BoundsAssumption DEF TypeOK, Physical

LEMMA NextTypeOK == TypeOK /\ [Next]_vars => TypeOK'
<1> SUFFICES ASSUME TypeOK, [Next]_vars PROVE TypeOK'
    OBVIOUS
<1> USE BoundsAssumption DEF TypeOK
<1>1. ASSUME NEW s \in Sessions, Build(s) PROVE TypeOK'
      BY <1>1, GotoTypes DEF Build, machine, screen, work, sense, bounds, history
<1>2. ASSUME NEW s \in Sessions, Begin(s) PROVE TypeOK'
  <2>1. /\ op' \in [Sessions -> AllOps \cup {"none", "failed"}]
        /\ left' \in [Sessions -> 0..Burst]
        BY <1>2, OpsAssumption DEF Begin
  <2>2. ops' \in [Sessions -> 0..MaxOps] /\ overlay' \in Sessions \cup {None}
        BY <1>2 DEF Begin
  <2>3. PICK cancel \in BOOLEAN, pause \in BOOLEAN : Admit(s, cancel, pause)
        BY <1>2, ModeAssumption DEF Begin
  <2>4. /\ halted' \subseteq Sessions
        /\ pc' \in [Sessions -> Phases]
        /\ holder' \in Sessions \cup {None}
        /\ foreign' \subseteq Sessions
        /\ recent' \in BOOLEAN
        BY <2>3, HaltTypes, GotoTypes DEF Admit
  <2>5. record' \in BOOLEAN /\ seenCancel' \subseteq Sessions /\ paused' \subseteq Sessions
        BY <2>3 DEF Admit
  <2>6. cause' \in BOOLEAN
        BY <1>2, Zenon DEF Begin
  <2> QED
      BY <1>2, <2>1, <2>2, <2>4, <2>5, <2>6 DEF Begin
<1>3. ASSUME NEW s \in Sessions, Poll(s) PROVE TypeOK'
      BY <1>3, HaltTypes, GotoTypes DEF Poll, screen, work, bounds
<1>4. ASSUME NEW s \in Sessions, Sample(s) PROVE TypeOK'
      BY <1>4, HaltTypes, GotoTypes DEF Sample, screen, work, bounds
<1>5. ASSUME NEW s \in Sessions, SampleUnreadable(s) PROVE TypeOK'
      BY <1>5, HaltTypes, EndOpTypes DEF SampleUnreadable, screen, work, bounds
<1>6. ASSUME NEW s \in Sessions, CheckPaused(s) PROVE TypeOK'
      BY <1>6, EndOpTypes, ReleaseTypes DEF CheckPaused, screen, bounds, history
<1>7. ASSUME NEW s \in Sessions, CheckRefused(s) PROVE TypeOK'
      BY <1>7, EndOpTypes, ReleaseTypes DEF CheckRefused, screen, bounds, history
<1>8. ASSUME NEW s \in Sessions, CheckUnverified(s) PROVE TypeOK'
      BY <1>8, HaltTypes DEF CheckUnverified, screen, work, bounds
<1>9. ASSUME NEW s \in Sessions, CheckPassed(s) PROVE TypeOK'
      BY <1>9, GotoTypes DEF CheckPassed, machine, screen, work, sense, bounds, history
<1>10. ASSUME NEW s \in Sessions, Condition(s) PROVE TypeOK'
      BY <1>10, HaltTypes, EndOpTypes, ReleaseTypes, GotoTypes DEF Condition, screen, work, bounds
<1>11. ASSUME NEW s \in Sessions, Inject(s) PROVE TypeOK'
      BY <1>11, GotoTypes DEF Inject, Emitted, screen, work, bounds
<1>12. ASSUME NEW s \in Sessions, BackendRaises(s) PROVE TypeOK'
      BY <1>12, TouchTypes, EndOpTypes, GotoTypes DEF BackendRaises, Emitted, screen, bounds
<1>13. ASSUME NEW s \in Sessions, TargetRaises(s) PROVE TypeOK'
      BY <1>13, HaltTypes DEF TargetRaises, screen, work, bounds
<1>14. ASSUME NEW s \in Sessions, ReceiptLost(s) PROVE TypeOK'
      BY <1>14, TouchTypes, GotoTypes DEF ReceiptLost, screen, work, bounds
<1>15. ASSUME NEW s \in Sessions, Account(s) PROVE TypeOK'
      BY <1>15, HaltTypes, EndOpTypes, GotoTypes DEF Account, MoreText, NextLeft, screen, work, bounds
<1>16. ASSUME NEW s \in Sessions, Persist(s) PROVE TypeOK'
      BY <1>16, EndOpTypes DEF Persist, RecordsHalt, screen, sense, bounds, history
<1>17. CASE HumanInput
      BY <1>17, PhysicalTypes DEF HumanInput, screen, work
<1>18. CASE PauseClick
  <2>1. pauseClick' \in BOOLEAN /\ paused' \subseteq Sessions /\ clicked' \subseteq Sessions
        BY <1>18 DEF PauseClick
  <2> QED
      BY <1>18, <2>1, PhysicalTypes DEF PauseClick, work
<1>19. CASE CancelClick
  <2>1. /\ cancelClick' \in BOOLEAN
        /\ cancelling' \in BOOLEAN
        /\ holder' \in Sessions \cup {None}
        BY <1>19 DEF CancelClick
  <2> QED
      BY <1>19, <2>1, PhysicalTypes DEF CancelClick, work
<1>20. CASE CancelRecords
      BY <1>20 DEF CancelRecords, work, sense, bounds, history
<1>21. CASE Settle
      BY <1>21 DEF Settle, screen, work, sense, bounds, history
<1>22. CASE Deadman
      BY <1>22, ReleaseTypes DEF Deadman, screen, work, bounds, history
<1>23. ASSUME NEW s \in Sessions, Lapse(s) PROVE TypeOK'
      BY <1>23 DEF Lapse, machine, screen, work, sense, bounds, history
<1>24. CASE Resume
  <2>1. late' \in [Sessions -> Nat]
        BY <1>24, 0 \in Nat, Zenon DEF Resume
  <2>2. clears' \in 0..MaxClears
        BY <1>24 DEF Resume
  <2>3. record' \in BOOLEAN /\ cause' \in BOOLEAN
        BY <1>24, Zenon DEF Resume
  <2> QED
      BY <1>24, <2>1, <2>2, <2>3 DEF Resume, screen, work, sense
<1>25. CASE UNCHANGED vars
      BY <1>25 DEF vars, machine, screen, work, sense, bounds, history
<1> QED
    BY <1>1, <1>2, <1>3, <1>4, <1>5, <1>6, <1>7, <1>8, <1>9, <1>10, <1>11, <1>12,
       <1>13, <1>14, <1>15, <1>16, <1>17, <1>18, <1>19, <1>20, <1>21, <1>22,
       <1>23, <1>24, <1>25 DEF Next, Environment, Step

(* The state keeps its types, and the bounds of the instance, whatever the *)
(* sessions do.                                                            *)
THEOREM TypeCorrect == Spec => []TypeOK
BY InitTypeOK, NextTypeOK, PTL DEF Spec
-----------------------------------------------------------------------------
(* Silence of the latched, detection of the human.                         *)

(* Why they hold: whoever owes a human input a halt has credited an        *)
(* injection and still counts that input as foreign, so its next sample    *)
(* cannot miss it.                                                         *)
GuardInv ==
    /\ LatchedIsSilent
    /\ HumanGapDetected
    /\ unseen \subseteq (own \cap foreign) \ Overridden
    /\ \A s \in Sessions \ Overridden : policy[s] = "none"

LEMMA InitGuardInv == Init => GuardInv
BY DEF Init, GuardInv, LatchedIsSilent, HumanGapDetected

LEMMA TouchGrows ==
    ASSUME NEW S, Touch(S) PROVE foreign \subseteq foreign'
BY DEF Touch

LEMMA ReleaseGrows == ReleaseAll => foreign \subseteq foreign'
BY TouchGrows DEF ReleaseAll

(* A step of session s that ends up outside the exposed phases, and only   *)
(* adds foreign input, disturbs nothing.                                   *)
LEMMA QuietStep ==
    ASSUME TypeOK, GuardInv, NEW s \in Sessions, NEW phase \in Phases \ Exposed,
           Goto(s, phase), halted' \subseteq halted \cup {s},
           foreign \subseteq foreign', own \subseteq own',
           UNCHANGED <<unseen, policy>>
    PROVE  GuardInv'
BY DEF TypeOK, GuardInv, Goto, LatchedIsSilent, HumanGapDetected

(* A step of session s within the exposed phases is harmless as well.      *)
LEMMA ExposedStep ==
    ASSUME TypeOK, GuardInv, NEW s \in Sessions \ (halted \cup unseen),
           NEW phase \in Phases, Goto(s, phase),
           foreign \ {s} \subseteq foreign', own \subseteq own',
           UNCHANGED <<unseen, policy, halted>>
    PROVE  GuardInv'
BY DEF TypeOK, GuardInv, Goto, LatchedIsSilent, HumanGapDetected

LEMMA ExposedIsClear ==
    ASSUME GuardInv, NEW s \in Sessions, pc[s] \in Exposed
    PROVE  s \notin halted /\ s \notin unseen
BY DEF GuardInv, LatchedIsSilent, HumanGapDetected

LEMMA HaltGuardInv ==
    ASSUME TypeOK, GuardInv, NEW s \in Sessions, Halt(s),
           own \subseteq own', UNCHANGED <<unseen, policy>>
    PROVE  GuardInv'
BY ReleaseGrows, QuietStep DEF Halt

LEMMA EndOpGuardInv ==
    ASSUME TypeOK, GuardInv, NEW s \in Sessions, EndOp(s),
           foreign \subseteq foreign', own \subseteq own',
           UNCHANGED <<unseen, policy, halted>>
    PROVE  GuardInv'
BY QuietStep DEF EndOp

LEMMA NextGuardInv == TypeOK /\ GuardInv /\ [Next]_vars => GuardInv'
<1> SUFFICES ASSUME TypeOK, GuardInv, [Next]_vars PROVE GuardInv'
    OBVIOUS
<1>1. ASSUME NEW s \in Sessions, Build(s) PROVE GuardInv'
      BY <1>1, QuietStep DEF Build, sense, history, machine
<1>2. ASSUME NEW s \in Sessions, Begin(s) PROVE GuardInv'
  <2>1. PICK cancel, pause : Admit(s, cancel, pause)
        BY <1>2 DEF Begin
  <2>2. UNCHANGED <<own, unseen, policy>>
        BY <1>2 DEF Begin
  <2> QED
      BY <2>1, <2>2, HaltGuardInv, QuietStep DEF Admit
<1>3. ASSUME NEW s \in Sessions, Poll(s) PROVE GuardInv'
      BY <1>3, HaltGuardInv, QuietStep DEF Poll
<1>4. ASSUME NEW s \in Sessions, Sample(s) PROVE GuardInv'
  <2>1. CASE Halt(s)
        BY <1>4, <2>1, HaltGuardInv DEF Sample
  <2>2. CASE ~Halt(s)
    <3>1. /\ s \notin halted
          /\ ~(HumanSensed(s) /\ policy[s] # "active")
          /\ Goto(s, "check")
          /\ foreign \ {s} \subseteq foreign'
          /\ UNCHANGED <<own, unseen, policy, halted>>
          BY <1>4, <2>2 DEF Sample, Stopped
    <3>2. s \notin unseen
          BY <3>1 DEF GuardInv, HumanSensed
    <3> QED
        BY <3>1, <3>2, ExposedStep
  <2> QED
      BY <2>1, <2>2
<1>5. ASSUME NEW s \in Sessions, SampleUnreadable(s) PROVE GuardInv'
      BY <1>5, HaltGuardInv, EndOpGuardInv DEF SampleUnreadable
<1>6. ASSUME NEW s \in Sessions, CheckPaused(s) PROVE GuardInv'
      BY <1>6, ReleaseGrows, EndOpGuardInv DEF CheckPaused, history
<1>7. ASSUME NEW s \in Sessions, CheckRefused(s) PROVE GuardInv'
      BY <1>7, ReleaseGrows, EndOpGuardInv DEF CheckRefused, history
<1>8. ASSUME NEW s \in Sessions, CheckUnverified(s) PROVE GuardInv'
      BY <1>8, HaltGuardInv DEF CheckUnverified
<1>9. ASSUME NEW s \in Sessions, CheckPassed(s) PROVE GuardInv'
      BY <1>9, ExposedIsClear, ExposedStep DEF CheckPassed, sense, history, machine
<1>10. ASSUME NEW s \in Sessions, Condition(s) PROVE GuardInv'
  <2>1. s \notin halted /\ s \notin unseen
        BY <1>10, ExposedIsClear DEF Condition
  <2> QED
      BY <1>10, <2>1, HaltGuardInv, EndOpGuardInv, ReleaseGrows, ExposedStep DEF Condition
<1>11. ASSUME NEW s \in Sessions, Inject(s) PROVE GuardInv'
      BY <1>11, ExposedIsClear, ExposedStep DEF Inject
<1>12. ASSUME NEW s \in Sessions, BackendRaises(s) PROVE GuardInv'
  <2>1. foreign \subseteq foreign'
        BY <1>12, TouchGrows DEF BackendRaises
  <2> QED
      BY <1>12, <2>1, ExposedIsClear, EndOpGuardInv, ExposedStep DEF BackendRaises
<1>13. ASSUME NEW s \in Sessions, TargetRaises(s) PROVE GuardInv'
      BY <1>13, HaltGuardInv DEF TargetRaises
<1>14. ASSUME NEW s \in Sessions, ReceiptLost(s) PROVE GuardInv'
  <2>1. foreign \subseteq foreign'
        BY <1>14, TouchGrows DEF ReceiptLost
  <2> QED
      BY <1>14, <2>1, QuietStep DEF ReceiptLost
<1>15. ASSUME NEW s \in Sessions, Account(s) PROVE GuardInv'
  <2>1. s \notin halted /\ s \notin unseen
        BY <1>15, ExposedIsClear DEF Account
  <2>2. CASE Halt(s)
        BY <1>15, <2>2, HaltGuardInv DEF Account
  <2>3. CASE ~Halt(s)
        BY <1>15, <2>1, <2>3, ExposedStep DEF Account, EndOp
  <2> QED
      BY <2>2, <2>3
<1>16. ASSUME NEW s \in Sessions, Persist(s) PROVE GuardInv'
      BY <1>16, EndOpGuardInv DEF Persist, sense, history
<1>17. ASSUME Physical, UNCHANGED <<pc, own, policy, halted>> PROVE GuardInv'
      BY <1>17 DEF Physical, TypeOK, GuardInv, LatchedIsSilent, HumanGapDetected
<1>18. ASSUME foreign \subseteq foreign', UNCHANGED <<pc, own, policy, halted, unseen>>
       PROVE  GuardInv'
      BY <1>18 DEF GuardInv, LatchedIsSilent, HumanGapDetected
<1>19. CASE HumanInput
      BY <1>17, <1>19 DEF HumanInput
<1>20. CASE PauseClick
      BY <1>17, <1>20 DEF PauseClick
<1>21. CASE CancelClick
      BY <1>17, <1>21 DEF CancelClick
<1>22. CASE CancelRecords
      BY <1>18, <1>22 DEF CancelRecords, sense, history
<1>23. CASE Settle
      BY <1>18, <1>23 DEF Settle, sense, history
<1>24. CASE Deadman
      BY <1>18, <1>24, ReleaseGrows DEF Deadman, history
<1>25. ASSUME NEW s \in Sessions, Lapse(s) PROVE GuardInv'
      BY <1>25 DEF Lapse, sense, history, TypeOK, GuardInv, LatchedIsSilent,
         HumanGapDetected
<1>26. CASE Resume
      BY <1>18, <1>26 DEF Resume, sense
<1>27. CASE UNCHANGED vars
      BY <1>18, <1>27 DEF vars, sense, history
<1> QED
    BY <1>1, <1>2, <1>3, <1>4, <1>5, <1>6, <1>7, <1>8, <1>9, <1>10, <1>11, <1>12,
       <1>13, <1>14, <1>15, <1>16, <1>19, <1>20, <1>21, <1>22, <1>23, <1>24,
       <1>25, <1>26, <1>27 DEF Next, Environment, Step

LEMMA GuardInvariant == Spec => [](TypeOK /\ GuardInv)
BY InitTypeOK, NextTypeOK, InitGuardInv, NextGuardInv, PTL DEF Spec

(* A latched guard never has a checked event in flight, in any mode.       *)
THEOREM LatchedSilence == Spec => []LatchedIsSilent
BY GuardInvariant, PTL DEF GuardInv

(* A human input outside the exposed window and the guard band always      *)
(* stops the session before its next event.                                *)
THEOREM HumanDetection == Spec => []HumanGapDetected
BY GuardInvariant, PTL DEF GuardInv
-----------------------------------------------------------------------------
(* Refinement of HaltLatch.                                                *)

HP == INSTANCE HaltLatchProofs
      WITH stop <- record, latched <- halted, owed <- Owed, late <- late

LEMMA InitRefines == Init => HL!LInit
<1> SUFFICES ASSUME Init PROVE HL!LInit
    OBVIOUS
<1>1. Owed = {}
      BY DEF Init, Owed
<1>2. record \in BOOLEAN /\ halted = {} /\ late = [s \in Sessions |-> 0]
      BY DEF Init
<1> QED
    BY <1>1, <1>2 DEF HL!LInit

(* How a step of one session changes the passes.                           *)
LEMMA OwedStep ==
    ASSUME TypeOK, NEW s \in Sessions, NEW phase \in Phases, Goto(s, phase),
           halted \subseteq halted', halted' \subseteq halted \cup {s}
    PROVE  Owed' = IF phase \in {"sample", "check", "cond", "inject"} /\ s \notin halted'
                   THEN Owed \cup {s}
                   ELSE Owed \ {s}
BY DEF TypeOK, Goto, Owed

LEMMA OwedSame ==
    ASSUME UNCHANGED <<pc, halted>>
    PROVE  Owed' = Owed
BY DEF Owed

LEMMA HaltRefines ==
    ASSUME TypeOK, NEW s \in Sessions, Halt(s), UNCHANGED <<record, late>>
    PROVE  HL!Latch(s)
BY OwedStep DEF Halt, HL!Latch, Exposed

LEMMA EndOpRefines ==
    ASSUME TypeOK, NEW s \in Sessions, EndOp(s), UNCHANGED <<record, late, halted>>
    PROVE  HL!Forfeit(s)
BY OwedStep DEF EndOp, HL!Forfeit

LEMMA StepRefines ==
    ASSUME TypeOK, GuardInv, NEW s \in Sessions, Step(s)
    PROVE  HL!LNext \/ UNCHANGED HL!lvars
<1> USE DEF HL!LNext, HL!lvars
<1>1. CASE Build(s)
  <2>1. Goto(s, "idle") /\ s \notin Owed
        BY <1>1 DEF Build, Owed
  <2>2. UNCHANGED <<record, late>> /\ (halted' = halted \/ halted' = halted \cup {s})
        BY <1>1 DEF Build, machine, history
  <2>3. Owed' = Owed \ {s}
        BY <2>1, <2>2, OwedStep
  <2> QED
      BY <2>2, <2>3 DEF HL!Latch, HL!Forfeit
<1>2. CASE Begin(s)
  <2>1. PICK cancel \in BOOLEAN, pause \in BOOLEAN : Admit(s, cancel, pause)
        BY <1>2, ModeAssumption DEF Begin
  <2>2. UNCHANGED late /\ s \notin Owed
        BY <1>2 DEF Begin, Owed
  <2>3. CASE ~Halt(s)
    <3>a. ~cancel /\ Goto(s, "poll") /\ UNCHANGED halted
          BY <2>1, <2>3 DEF Admit
    <3>b. record' = (record \/ cancel)
          BY <2>1 DEF Admit
    <3>1. Goto(s, "poll") /\ UNCHANGED <<record, halted>>
          BY <3>a, <3>b DEF TypeOK
    <3>2. Owed' = Owed \ {s}
          BY <3>1, OwedStep
    <3> QED
        BY <2>2, <3>1, <3>2
  <2>4. CASE Halt(s) /\ cancel
    <3>1. Owed' = Owed \ {s} /\ halted' = halted \cup {s}
          BY <2>4, OwedStep DEF Halt
    <3>2. record' = TRUE
          BY <2>1, <2>4 DEF Admit
    <3> QED
        BY <2>2, <3>1, <3>2 DEF HL!LatchAndRaise
  <2>5. CASE Halt(s) /\ ~cancel
    <3>1. record' = record
          BY <2>1, <2>5 DEF Admit, TypeOK
    <3> QED
        BY <2>2, <2>5, <3>1, HaltRefines
  <2> QED
      BY <2>3, <2>4, <2>5
<1>3. CASE Poll(s)
  <2>1. UNCHANGED <<record, late>>
        BY <1>3 DEF Poll
  <2>2. CASE ~Halt(s)
    <3>1. Goto(s, "sample") /\ halted' = IF record THEN halted \cup {s} ELSE halted
          BY <1>3, <2>2 DEF Poll, DurableHalt
    <3>2. s \notin Owed
          BY <1>3 DEF Poll, Owed
    <3>3. CASE record \/ s \in halted
      <4>1. Owed' = Owed \ {s}
            BY <3>1, <3>3, OwedStep
      <4> QED
          BY <2>1, <3>1, <3>3, <4>1 DEF HL!Latch, HL!Forfeit
    <3>4. CASE ~record /\ s \notin halted
      <4>1. Owed' = Owed \cup {s}
            BY <3>1, <3>4, OwedStep
      <4> QED
          BY <2>1, <3>1, <3>4, <4>1 DEF HL!Pass
    <3> QED
        BY <3>3, <3>4
  <2> QED
      BY <2>1, <2>2, HaltRefines
<1>4. CASE Sample(s)
  <2>1. UNCHANGED <<record, late>>
        BY <1>4 DEF Sample
  <2>2. CASE ~Halt(s)
    <3>1. Goto(s, "check") /\ UNCHANGED halted /\ s \notin halted
          BY <1>4, <2>2 DEF Sample, Stopped
    <3>2. s \in Owed
          BY <1>4, <3>1 DEF Sample, Owed
    <3>3. Owed' = Owed
          BY <3>1, <3>2, OwedStep
    <3> QED
        BY <2>1, <3>1, <3>3
  <2> QED
      BY <2>1, <2>2, HaltRefines
<1>5. CASE SampleUnreadable(s)
      BY <1>5, HaltRefines, EndOpRefines DEF SampleUnreadable
<1>6. CASE CheckPaused(s) \/ CheckRefused(s)
      BY <1>6, EndOpRefines DEF CheckPaused, CheckRefused, history
<1>7. CASE CheckUnverified(s)
      BY <1>7, HaltRefines DEF CheckUnverified
<1>8. CASE CheckPassed(s)
  <2>1. UNCHANGED <<record, late, halted>> /\ s \in Owed
        BY <1>8, ExposedIsClear DEF CheckPassed, machine, history, Owed
  <2>2. PICK phase \in {"cond", "inject"} : Goto(s, phase)
        BY <1>8 DEF CheckPassed
  <2>3. phase \in Phases /\ s \notin halted'
        BY <2>1 DEF Owed
  <2>4. Owed' = Owed \cup {s}
        BY <2>1, <2>2, <2>3, OwedStep
  <2> QED
      BY <2>1, <2>4
<1>9. CASE Condition(s)
  <2>1. UNCHANGED <<record, late>> /\ s \in Owed /\ s \notin halted
        BY <1>9, ExposedIsClear DEF Condition, Owed
  <2>2. CASE Goto(s, "inject") /\ UNCHANGED halted
    <3>1. Owed' = Owed
          BY <2>1, <2>2, OwedStep
    <3> QED
        BY <2>1, <2>2, <3>1
  <2> QED
      BY <1>9, <2>1, <2>2, HaltRefines, EndOpRefines DEF Condition
<1>10. ASSUME pc[s] = "inject", Emitted(s), UNCHANGED <<record, halted>>,
              NEW phase \in {"account", "idle"}, Goto(s, phase)
       PROVE  HL!Emit(s)
  <2>1. s \in Owed
        BY <1>10, ExposedIsClear DEF Owed
  <2>2. Owed' = Owed \ {s}
        BY <1>10, OwedStep
  <2> QED
      BY <1>10, <2>1, <2>2 DEF Emitted, HL!Emit
<1>11. CASE Inject(s)
      BY <1>10, <1>11 DEF Inject
<1>12. CASE BackendRaises(s)
  <2>1. UNCHANGED <<record, halted>> /\ pc[s] = "inject"
        BY <1>12 DEF BackendRaises
  <2>2. PICK phase \in {"account", "idle"} : Goto(s, phase)
        BY <1>12 DEF BackendRaises, EndOp
  <2>3. CASE Emitted(s)
        BY <1>10, <2>1, <2>2, <2>3
  <2>4. CASE ~Emitted(s)
    <3>1. UNCHANGED late
          BY <1>12, <2>4 DEF BackendRaises
    <3>2. Owed' = Owed \ {s}
          BY <2>1, <2>2, OwedStep
    <3> QED
        BY <2>1, <3>1, <3>2 DEF HL!Forfeit
  <2> QED
      BY <2>3, <2>4
<1>13. CASE TargetRaises(s)
      BY <1>13, HaltRefines DEF TargetRaises
<1>14. CASE ReceiptLost(s)
  <2>1. Goto(s, "halting") /\ halted' = halted \cup {s} /\ UNCHANGED <<record, late>>
        BY <1>14 DEF ReceiptLost
  <2>2. Owed' = Owed \ {s}
        BY <2>1, OwedStep
  <2> QED
      BY <2>1, <2>2 DEF HL!Latch
<1>15. CASE Account(s)
  <2>1. UNCHANGED <<record, late>> /\ s \notin Owed
        BY <1>15 DEF Account, Owed
  <2>2. CASE ~Halt(s)
    <3>1. UNCHANGED halted /\ (Goto(s, "poll") \/ Goto(s, "idle"))
          BY <1>15, <2>2 DEF Account, EndOp
    <3>2. Owed' = Owed
          BY <2>1, <3>1, OwedStep
    <3> QED
        BY <2>1, <3>1, <3>2
  <2> QED
      BY <2>1, <2>2, HaltRefines
<1>16. CASE Persist(s)
  <2>1. UNCHANGED <<halted, late>> /\ Goto(s, "idle") /\ s \notin Owed
        BY <1>16 DEF Persist, history, EndOp, Owed
  <2>2. Owed' = Owed
        BY <2>1, OwedStep
  <2>3. record' = record \/ record' = TRUE
        BY <1>16 DEF Persist, TypeOK
  <2> QED
      BY <2>1, <2>2, <2>3 DEF HL!Raise
<1> QED
    BY <1>1, <1>2, <1>3, <1>4, <1>5, <1>6, <1>7, <1>8, <1>9, <1>11, <1>12, <1>13,
       <1>14, <1>15, <1>16 DEF Step

LEMMA NextRefines == TypeOK /\ GuardInv /\ [Next]_vars => [HL!LNext]_HL!lvars
<1> SUFFICES ASSUME TypeOK, GuardInv, [Next]_vars
             PROVE  HL!LNext \/ UNCHANGED HL!lvars
    OBVIOUS
<1>1. ASSUME NEW s \in Sessions, Step(s) PROVE HL!LNext \/ UNCHANGED HL!lvars
      BY <1>1, StepRefines
<1>2. ASSUME UNCHANGED <<pc, halted, record, late>> PROVE UNCHANGED HL!lvars
      BY <1>2, OwedSame DEF HL!lvars
<1>3. CASE CancelRecords
  <2>1. UNCHANGED <<pc, halted, late>> /\ record' = TRUE
        BY <1>3 DEF CancelRecords, history
  <2> QED
      BY <2>1, OwedSame DEF HL!LNext, HL!Raise
<1>4. CASE Resume
  <2>1. UNCHANGED <<pc, halted>> /\ record' = FALSE /\ late' = [s \in Sessions |-> 0]
        BY <1>4 DEF Resume
  <2> QED
      BY <2>1, OwedSame DEF HL!LNext, HL!Lift
<1>5. CASE HumanInput \/ PauseClick \/ CancelClick
      BY <1>2, <1>5 DEF HumanInput, PauseClick, CancelClick
<1>6. CASE Settle \/ Deadman
      BY <1>2, <1>6 DEF Settle, Deadman, history
<1>7. ASSUME NEW s \in Sessions, Lapse(s) PROVE UNCHANGED HL!lvars
      BY <1>2, <1>7 DEF Lapse, machine, history
<1>8. CASE UNCHANGED vars
      BY <1>2, <1>8 DEF vars, machine, history
<1> QED
    BY <1>1, <1>3, <1>4, <1>5, <1>6, <1>7, <1>8 DEF Next, Environment

(* The sessions of one machine together keep the promise of HaltLatch.     *)
THEOREM RefinesHaltLatch == Spec => KeepsHaltLatch
BY InitRefines, NextRefines, GuardInvariant, PTL DEF Spec, KeepsHaltLatch, HL!LSpec

(* After a halt is recorded no session emits more than one event.          *)
THEOREM LateBounded == Spec => []LateBound
<1>1. Init => HP!LInv
      BY InitRefines, HP!LInitInv DEF HL!LInit, HP!LInit
<1>2. TypeOK /\ GuardInv /\ HP!LInv /\ [Next]_vars => HP!LInv'
  <2>1. [HL!LNext]_HL!lvars => [HP!LNext]_HP!lvars
        BY DEF HL!LNext, HP!LNext, HL!lvars, HP!lvars, HL!Raise, HP!Raise, HL!Lift, HP!Lift,
               HL!Pass, HP!Pass, HL!Forfeit, HP!Forfeit, HL!Emit, HP!Emit,
               HL!Latch, HP!Latch, HL!LatchAndRaise, HP!LatchAndRaise
  <2> QED
      BY <2>1, NextRefines, HP!LInvInductive
<1>3. HP!LInv => LateBound
      BY DEF HP!LInv, HP!LLateBound, LateBound
<1> QED
    BY <1>1, <1>2, <1>3, GuardInvariant, PTL DEF Spec
-----------------------------------------------------------------------------
(* Halts on disk.                                                          *)

(* Why halts persist: a latched session whose halt is not yet on disk is   *)
(* on its way to writing it, and a write that is no desktop-tool write     *)
(* does.  A resume takes the record away, so it ends the account.          *)
PersistInv ==
    /\ \A s \in Sessions : op[s] # "desktop"
    /\ clears = 0 => \A s \in halted : record \/ pc[s] = "halting"

LEMMA InitPersistInv == Init => PersistInv
BY DEF Init, PersistInv

(* A step of session s alone that leaves the record and does not write it. *)
LEMMA PersistStep ==
    ASSUME TypeOK, PersistInv, NEW s \in Sessions, NEW phase \in Phases, Goto(s, phase),
           pc[s] # "halting",
           \/ phase = "halting" /\ halted' \subseteq halted \cup {s}
           \/ halted' \subseteq halted \/ (record' /\ halted' \subseteq halted \cup {s}),
           record => record',
           \A t \in Sessions : op'[t] # "desktop",
           UNCHANGED clears
    PROVE  PersistInv'
BY DEF TypeOK, PersistInv, Goto

LEMMA PersistStill ==
    ASSUME PersistInv, UNCHANGED <<pc, halted, op, clears>>, record => record'
    PROVE  PersistInv'
BY DEF PersistInv

LEMMA EndOpPersist ==
    ASSUME TypeOK, PersistInv, NEW s \in Sessions, EndOp(s), pc[s] # "halting",
           UNCHANGED <<record, halted, clears>>
    PROVE  PersistInv'
<1>1. \A t \in Sessions : op'[t] # "desktop"
      BY DEF EndOp, PersistInv, TypeOK
<1> QED
    BY <1>1, PersistStep DEF EndOp

LEMMA HaltPersist ==
    ASSUME TypeOK, PersistInv, NEW s \in Sessions, Halt(s), pc[s] # "halting",
           record => record', UNCHANGED <<op, clears>>
    PROVE  PersistInv'
BY PersistStep DEF Halt, PersistInv

LEMMA NextPersistInv ==
    ASSUME "desktop" \notin Ops, TypeOK, PersistInv, [Next]_vars
    PROVE  PersistInv'
<1>1. ASSUME NEW s \in Sessions, Build(s) PROVE PersistInv'
  <2>1. UNCHANGED <<op, clears, record>> /\ Goto(s, "idle") /\ pc[s] # "halting"
        BY <1>1 DEF Build, work, bounds, machine
  <2>2. halted' = IF record THEN halted \cup {s} ELSE halted
        BY <1>1 DEF Build
  <2> QED
      BY <2>1, <2>2, PersistStep DEF PersistInv
<1>2. ASSUME NEW s \in Sessions, Begin(s) PROVE PersistInv'
  <2>1. PICK cancel \in BOOLEAN, pause \in BOOLEAN : Admit(s, cancel, pause)
        BY <1>2, ModeAssumption DEF Begin
  <2>2. \A t \in Sessions : op'[t] # "desktop"
        BY <1>2 DEF Begin, TypeOK, PersistInv
  <2>3. pc[s] # "halting" /\ UNCHANGED clears
        BY <1>2 DEF Begin
  <2>4. record => record'
        BY <2>1 DEF Admit
  <2>5. CASE Halt(s)
        BY <2>2, <2>3, <2>4, <2>5, PersistStep DEF Halt
  <2>6. CASE Goto(s, "poll") /\ UNCHANGED halted
        BY <2>2, <2>3, <2>4, <2>6, PersistStep
  <2> QED
      BY <2>1, <2>5, <2>6 DEF Admit
<1>3. ASSUME NEW s \in Sessions, Poll(s) PROVE PersistInv'
  <2>1. UNCHANGED <<op, clears, record>> /\ pc[s] # "halting"
        BY <1>3 DEF Poll, work, bounds
  <2>2. CASE Goto(s, "sample") /\ halted' = IF record THEN halted \cup {s} ELSE halted
        BY <2>1, <2>2, PersistStep DEF PersistInv
  <2> QED
      BY <1>3, <2>1, <2>2, HaltPersist DEF Poll, DurableHalt
<1>4. ASSUME NEW s \in Sessions, Sample(s) PROVE PersistInv'
  <2>1. UNCHANGED <<op, clears, record>> /\ pc[s] # "halting"
        BY <1>4 DEF Sample, work, bounds
  <2>2. CASE Goto(s, "check") /\ UNCHANGED halted
        BY <2>1, <2>2, PersistStep DEF PersistInv
  <2> QED
      BY <1>4, <2>1, <2>2, HaltPersist DEF Sample
<1>5. ASSUME NEW s \in Sessions, SampleUnreadable(s) PROVE PersistInv'
      BY <1>5, HaltPersist, EndOpPersist DEF SampleUnreadable, work, bounds
<1>6. ASSUME NEW s \in Sessions, CheckPaused(s) \/ CheckRefused(s) PROVE PersistInv'
      BY <1>6, EndOpPersist DEF CheckPaused, CheckRefused, bounds
<1>7. ASSUME NEW s \in Sessions, CheckUnverified(s) \/ TargetRaises(s) PROVE PersistInv'
      BY <1>7, HaltPersist DEF CheckUnverified, TargetRaises, work, bounds
<1>8. ASSUME NEW s \in Sessions, CheckPassed(s) PROVE PersistInv'
  <2>1. /\ UNCHANGED <<op, clears, record, halted>>
        /\ pc[s] # "halting"
        /\ Goto(s, "cond") \/ Goto(s, "inject")
        BY <1>8 DEF CheckPassed, machine, work, bounds
  <2> QED
      BY <2>1, PersistStep DEF PersistInv
<1>9. ASSUME NEW s \in Sessions, Condition(s) PROVE PersistInv'
  <2>1. UNCHANGED <<clears, record>> /\ pc[s] # "halting"
        BY <1>9 DEF Condition, bounds
  <2>2. CASE Goto(s, "inject") /\ UNCHANGED <<halted, op>>
        BY <2>1, <2>2, PersistStep DEF PersistInv
  <2> QED
      BY <1>9, <2>1, <2>2, HaltPersist, EndOpPersist DEF Condition, work
<1>10. ASSUME NEW s \in Sessions, Inject(s) PROVE PersistInv'
  <2>1. UNCHANGED <<op, clears, record, halted>> /\ pc[s] # "halting" /\ Goto(s, "account")
        BY <1>10 DEF Inject, work, bounds
  <2> QED
      BY <2>1, PersistStep DEF PersistInv
<1>11. ASSUME NEW s \in Sessions, BackendRaises(s) PROVE PersistInv'
  <2>1. UNCHANGED <<clears, record, halted>> /\ pc[s] # "halting"
        BY <1>11 DEF BackendRaises, bounds
  <2>2. CASE Goto(s, "account") /\ op' = [op EXCEPT ![s] = "failed"]
    <3>1. \A t \in Sessions : op'[t] # "desktop"
          BY <2>2 DEF PersistInv, TypeOK
    <3> QED
        BY <2>1, <2>2, <3>1, PersistStep
  <2> QED
      BY <1>11, <2>1, <2>2, EndOpPersist DEF BackendRaises
<1>12. ASSUME NEW s \in Sessions, ReceiptLost(s) PROVE PersistInv'
  <2>1. /\ UNCHANGED <<op, clears, record>>
        /\ pc[s] # "halting"
        /\ Goto(s, "halting")
        /\ halted' = halted \cup {s}
        BY <1>12 DEF ReceiptLost, work, bounds
  <2> QED
      BY <2>1, PersistStep DEF PersistInv
<1>13. ASSUME NEW s \in Sessions, Account(s) PROVE PersistInv'
  <2>1. UNCHANGED <<clears, record>> /\ pc[s] # "halting"
        BY <1>13 DEF Account, bounds
  <2>2. CASE Goto(s, "poll") /\ UNCHANGED <<halted, op>>
        BY <2>1, <2>2, PersistStep DEF PersistInv
  <2> QED
      BY <1>13, <2>1, <2>2, HaltPersist, EndOpPersist DEF Account, work
<1>14. ASSUME NEW s \in Sessions, Persist(s) PROVE PersistInv'
  <2>1. record' = TRUE
        BY <1>14 DEF Persist, RecordsHalt, PersistInv
  <2>2. \A t \in Sessions : op'[t] # "desktop"
        BY <1>14 DEF Persist, EndOp, PersistInv, TypeOK
  <2> QED
      BY <2>1, <2>2 DEF PersistInv
<1>15. CASE HumanInput \/ PauseClick \/ CancelClick
      BY <1>15, PersistStill DEF HumanInput, PauseClick, CancelClick, work
<1>16. CASE CancelRecords \/ Settle \/ Deadman
      BY <1>16, PersistStill DEF CancelRecords, Settle, Deadman, work, bounds
<1>17. ASSUME NEW s \in Sessions, Lapse(s) PROVE PersistInv'
      BY <1>17, PersistStill DEF Lapse, machine, work, bounds
<1>18. CASE Resume
      BY <1>18 DEF Resume, work, PersistInv, TypeOK
<1>19. CASE UNCHANGED vars
      BY <1>19, PersistStill DEF vars, machine, work, bounds
<1> QED
    BY <1>1, <1>2, <1>3, <1>4, <1>5, <1>6, <1>7, <1>8, <1>9, <1>10, <1>11, <1>12,
       <1>13, <1>14, <1>15, <1>16, <1>17, <1>18, <1>19 DEF Next, Environment, Step

(* Until a human resumes, a computer write that ended on a latched guard   *)
(* has left its halt on disk for the other sessions; the desktop tool's    *)
(* writes, which record nothing, are the exception the code makes.         *)
THEOREM HaltsPersist ==
    ASSUME "desktop" \notin Ops
    PROVE  Spec => []HaltPersisted
<1>1. PersistInv => HaltPersisted
      BY DEF PersistInv, HaltPersisted
<1>2. TypeOK /\ PersistInv /\ [Next]_vars => PersistInv'
      BY NextPersistInv
<1> QED
    BY InitPersistInv, <1>1, <1>2, TypeCorrect, PTL DEF Spec

(* What a guard promises the human at the machine holds in every mode, as  *)
(* long as only computer writes are requested.                             *)
THEOREM GuardKept ==
    ASSUME "desktop" \notin Ops
    PROVE  Spec => []GuardHolds
BY LateBounded, LatchedSilence, HumanDetection, HaltsPersist, PTL DEF GuardHolds
-----------------------------------------------------------------------------
(* Pause.                                                                  *)

(* Why Pause is bounded: the button pauses the session it belongs to at    *)
(* once, and the check that a paused session does not pass comes before    *)
(* every event.                                                            *)
PauseInv ==
    /\ clicked \subseteq paused
    /\ \A s \in Sessions :
        /\ pauseLate[s] <= 1
        /\ s \notin clicked \/ pc[s] \in {"cond", "inject"} => pauseLate[s] = 0

LEMMA InitPauseInv == Init => PauseInv
BY DEF Init, PauseInv

(* A step of session s that emits nothing, and enters a phase past the     *)
(* pause check only unpaused or from such a phase.                         *)
LEMMA PauseStep ==
    ASSUME TypeOK, PauseInv, NEW s \in Sessions, NEW phase \in Phases, Goto(s, phase),
           \/ phase \notin {"cond", "inject"}
           \/ s \notin paused
           \/ pc[s] \in {"cond", "inject"},
           paused \subseteq paused', UNCHANGED <<pauseLate, clicked>>
    PROVE  PauseInv'
BY DEF TypeOK, PauseInv, Goto

LEMMA PauseStill ==
    ASSUME PauseInv, UNCHANGED <<pc, pauseLate, clicked>>, paused \subseteq paused'
    PROVE  PauseInv'
BY DEF PauseInv

(* The one event past the check.                                           *)
LEMMA PauseEmitted ==
    ASSUME TypeOK, PauseInv, NEW s \in Sessions, NEW phase \in {"account", "idle"},
           Goto(s, phase), pc[s] = "inject", Emitted(s), UNCHANGED <<paused, clicked>>
    PROVE  PauseInv'
BY DEF TypeOK, PauseInv, Goto, Emitted

LEMMA NextPauseInv ==
    ASSUME ~RemoteOverlay, TypeOK, PauseInv, [Next]_vars
    PROVE  PauseInv'
<1> USE DEF history
<1>1. ASSUME NEW s \in Sessions, Build(s) PROVE PauseInv'
      BY <1>1, PauseStep DEF Build
<1>2. ASSUME NEW s \in Sessions, Begin(s) PROVE PauseInv'
  <2>1. PICK cancel \in BOOLEAN, pause \in BOOLEAN : Admit(s, cancel, pause)
        BY <1>2, ModeAssumption DEF Begin
  <2>2. Goto(s, "halting") \/ Goto(s, "poll")
        BY <2>1 DEF Admit, Halt
  <2>3. paused \subseteq paused' /\ UNCHANGED <<pauseLate, clicked>>
        BY <1>2, <2>1 DEF Admit, Begin
  <2> QED
      BY <2>2, <2>3, PauseStep
<1>3. ASSUME NEW s \in Sessions, Poll(s) \/ Sample(s) PROVE PauseInv'
  <2>1. UNCHANGED <<paused, pauseLate, clicked>>
        BY <1>3 DEF Poll, Sample
  <2>2. Goto(s, "halting") \/ Goto(s, "sample") \/ Goto(s, "check")
        BY <1>3 DEF Poll, Sample, Halt
  <2> QED
      BY <2>1, <2>2, PauseStep
<1>4. ASSUME NEW s \in Sessions, NEW phase \in {"halting", "idle", "poll"}, Goto(s, phase),
             UNCHANGED <<paused, pauseLate, clicked>>
      PROVE  PauseInv'
      BY <1>4, PauseStep
<1>5. ASSUME NEW s \in Sessions,
             SampleUnreadable(s) \/ CheckPaused(s) \/ CheckRefused(s) \/ CheckUnverified(s)
      PROVE  PauseInv'
      BY <1>4, <1>5 DEF SampleUnreadable, CheckPaused, CheckRefused, CheckUnverified, Halt, EndOp
<1>6. ASSUME NEW s \in Sessions, CheckPassed(s) PROVE PauseInv'
  <2>1. s \notin paused /\ UNCHANGED <<paused, pauseLate, clicked>>
        BY <1>6 DEF CheckPassed, PauseStands
  <2>2. Goto(s, "cond") \/ Goto(s, "inject")
        BY <1>6 DEF CheckPassed
  <2> QED
      BY <2>1, <2>2, PauseStep
<1>7. ASSUME NEW s \in Sessions, Condition(s) PROVE PauseInv'
  <2>1. pc[s] = "cond" /\ UNCHANGED <<paused, pauseLate, clicked>>
        BY <1>7 DEF Condition
  <2>2. Goto(s, "halting") \/ Goto(s, "idle") \/ Goto(s, "inject")
        BY <1>7 DEF Condition, Halt, EndOp
  <2> QED
      BY <2>1, <2>2, PauseStep
<1>8. ASSUME NEW s \in Sessions, Inject(s) PROVE PauseInv'
      BY <1>8, PauseEmitted DEF Inject
<1>9. ASSUME NEW s \in Sessions, BackendRaises(s) PROVE PauseInv'
  <2>1. pc[s] = "inject" /\ UNCHANGED <<paused, clicked>>
        BY <1>9 DEF BackendRaises
  <2>2. PICK phase \in {"account", "idle"} : Goto(s, phase)
        BY <1>9 DEF BackendRaises, EndOp
  <2>3. Emitted(s) \/ UNCHANGED pauseLate
        BY <1>9 DEF BackendRaises
  <2> QED
      BY <2>1, <2>2, <2>3, PauseEmitted, PauseStep
<1>10. ASSUME NEW s \in Sessions, TargetRaises(s) \/ ReceiptLost(s) \/ Account(s) \/ Persist(s)
       PROVE  PauseInv'
      BY <1>4, <1>10 DEF TargetRaises, ReceiptLost, Account, Persist, Halt, EndOp
<1>11. CASE PauseClick
  <2>1. /\ paused' = paused \cup {overlay}
        /\ clicked' = clicked \cup {overlay}
        /\ UNCHANGED <<pc, pauseLate>>
        BY <1>11 DEF PauseClick
  <2> QED
      BY <2>1 DEF PauseInv
<1>12. CASE HumanInput \/ CancelClick
      BY <1>12, PauseStill DEF HumanInput, CancelClick
<1>13. CASE CancelRecords \/ Settle \/ Deadman \/ Resume
      BY <1>13, PauseStill DEF CancelRecords, Settle, Deadman, Resume
<1>14. ASSUME NEW s \in Sessions, Lapse(s) PROVE PauseInv'
      BY <1>14, PauseStill DEF Lapse
<1>15. CASE UNCHANGED vars
      BY <1>15, PauseStill DEF vars
<1> QED
    BY <1>1, <1>2, <1>3, <1>5, <1>6, <1>7, <1>8, <1>9, <1>10, <1>11, <1>12, <1>13,
       <1>14, <1>15 DEF Next, Environment, Step

(* With a local overlay, a session whose Pause button the human clicks     *)
(* emits at most the one event it had already checked.                     *)
THEOREM PauseBounded ==
    ASSUME ~RemoteOverlay
    PROVE  Spec => []PauseBound
<1>1. PauseInv => PauseBound
      BY DEF PauseInv, PauseBound
<1>2. TypeOK /\ PauseInv /\ [Next]_vars => PauseInv'
      BY NextPauseInv
<1> QED
    BY InitPauseInv, <1>1, <1>2, TypeCorrect, PTL DEF Spec
=============================================================================
