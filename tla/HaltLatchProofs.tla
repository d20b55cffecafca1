-------------------------- MODULE HaltLatchProofs --------------------------
(* HaltLatch keeps its promise for every set of sessions. *)
EXTENDS HaltLatch, TLAPS

LEMMA LInitInv == LInit => LInv
BY DEF LInit, LInv, LTypeOK, LLatchedOwesNothing, LLateBound

LEMMA LInvInductive == LInv /\ [LNext]_lvars => LInv'
<1> SUFFICES ASSUME LInv, [LNext]_lvars PROVE LInv'
    OBVIOUS
<1> USE DEF LInv, LTypeOK, LLatchedOwesNothing, LLateBound
<1>1. CASE Raise
      BY <1>1 DEF Raise
<1>2. CASE Lift
  <2>1. late' \in [Sessions -> Nat] /\ \A s \in Sessions : late'[s] = 0
        BY <1>2, 0 \in Nat, Zenon DEF Lift
  <2>2. latched' = latched /\ owed' = owed /\ stop' = FALSE
        BY <1>2 DEF Lift
  <2>3. LTypeOK' /\ LLatchedOwesNothing'
        BY <2>1, <2>2
  <2>4. LLateBound' /\ \A s \in Sessions : late'[s] = 0
        BY <2>1
  <2> QED
      BY <2>3, <2>4
<1>3. ASSUME NEW s \in Sessions, Pass(s) PROVE LInv'
      BY <1>3 DEF Pass
<1>4. ASSUME NEW s \in Sessions, Forfeit(s) PROVE LInv'
      BY <1>4 DEF Forfeit
<1>5. ASSUME NEW s \in Sessions, Emit(s) PROVE LInv'
      BY <1>5 DEF Emit
<1>6. ASSUME NEW s \in Sessions, Latch(s) PROVE LInv'
      BY <1>6 DEF Latch
<1>7. ASSUME NEW s \in Sessions, LatchAndRaise(s) PROVE LInv'
      BY <1>7 DEF LatchAndRaise
<1>8. CASE UNCHANGED lvars
      BY <1>8 DEF lvars
<1> QED
    BY <1>1, <1>2, <1>3, <1>4, <1>5, <1>6, <1>7, <1>8 DEF LNext

(* No session emits a second event under one halt.                         *)
THEOREM LateBoundOfLatch == LSpec => []LLateBound
<1>1. LInv => LLateBound
      BY DEF LInv
<1> QED
    BY LInitInv, LInvInductive, <1>1, PTL DEF LSpec
=============================================================================
