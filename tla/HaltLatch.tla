----------------------------- MODULE HaltLatch -----------------------------
(***************************************************************************)
(* What the coexistence layer promises about a durable halt, with nothing  *)
(* of how it is obtained: every elementary input event is paid for by a    *)
(* pass of its own, a pass is only handed out while no halt stands and the *)
(* session is not latched, and a latched session holds none.               *)
(***************************************************************************)
EXTENDS Naturals

CONSTANT Sessions

VARIABLES
    stop,       \* a durable halt stands on the driven machine
    latched,    \* the sessions that refuse to drive for good
    owed,       \* the sessions holding a pass for one event
    late        \* events each session emitted under the halt that stands

lvars == <<stop, latched, owed, late>>

LInit ==
    /\ stop \in BOOLEAN
    /\ latched \in SUBSET Sessions
    /\ owed = {}
    /\ late = [s \in Sessions |-> 0]

(* A human, a session or the overlay raises the halt.                      *)
Raise ==
    /\ stop' = TRUE
    /\ UNCHANGED <<latched, owed, late>>

(* Only a human lifts it, which starts a new account of late events.       *)
Lift ==
    /\ stop' = FALSE
    /\ late' = [s \in Sessions |-> 0]
    /\ UNCHANGED <<latched, owed>>

Pass(s) ==
    /\ ~stop
    /\ s \notin latched
    /\ owed' = owed \cup {s}
    /\ UNCHANGED <<stop, latched, late>>

Forfeit(s) ==
    /\ owed' = owed \ {s}
    /\ UNCHANGED <<stop, latched, late>>

Emit(s) ==
    /\ s \in owed
    /\ owed' = owed \ {s}
    /\ late' = [late EXCEPT ![s] = IF stop THEN @ + 1 ELSE @]
    /\ UNCHANGED <<stop, latched>>

Latch(s) ==
    /\ latched' = latched \cup {s}
    /\ owed' = owed \ {s}
    /\ UNCHANGED <<stop, late>>

(* Honouring a halt and raising it can be one step (the overlay's Cancel   *)
(* read from a remote target).                                             *)
LatchAndRaise(s) ==
    /\ stop' = TRUE
    /\ latched' = latched \cup {s}
    /\ owed' = owed \ {s}
    /\ UNCHANGED late

LNext ==
    \/ Raise
    \/ Lift
    \/ \E s \in Sessions :
        \/ Pass(s)
        \/ Forfeit(s)
        \/ Emit(s)
        \/ Latch(s)
        \/ LatchAndRaise(s)

LSpec == LInit /\ [][LNext]_lvars
-----------------------------------------------------------------------------
LTypeOK ==
    /\ stop \in BOOLEAN
    /\ latched \subseteq Sessions
    /\ owed \subseteq Sessions
    /\ late \in [Sessions -> Nat]

(* Under one halt a session emits at most the event it had already been    *)
(* cleared for.                                                            *)
LLateBound == \A s \in Sessions : late[s] <= 1

LLatchedOwesNothing == latched \cap owed = {}

(* The inductive strengthening of the two.                                 *)
LInv ==
    /\ LTypeOK
    /\ LLatchedOwesNothing
    /\ LLateBound
    /\ \A s \in Sessions : ~stop \/ s \in owed => late[s] = 0
=============================================================================
