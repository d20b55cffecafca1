----------------------------- MODULE HeldInput -----------------------------
(***************************************************************************)
(* A held mouse button and the ledger that guarantees its release          *)
(* (ledger.py), with its callers: the remote agent's main thread           *)
(* (remote_agent.py), or the local sessions that share a channel's ledger  *)
(* (ComputerTool._hold_mouse_button and _release_mouse_button).            *)
(*                                                                         *)
(* The ledger's lock makes its own operations atomic; what a caller does   *)
(* between pressing the button and registering it, or between releasing it *)
(* and retiring the entry, the deadman's threads and a signal interleave   *)
(* with.  A press is named by its caller and the number of the operation.  *)
(***************************************************************************)
EXTENDS Naturals

CONSTANTS
    Callers,    \* threads that press and release the button
    Local,      \* sessions of one process; otherwise the remote agent
    Windows,    \* acknowledged releases: custody is retained on failure
    Signals,    \* a signal may arrive
    MaxOps,     \* operations of each caller
    MaxFail,    \* failing releases
    None        \* no entry in the ledger

Presses == Callers \X (1..MaxOps)

ASSUME CallersAssumption == Callers # {}
ASSUME AgentAssumption == ~Local => \E c \in Callers : Callers = {c}
ASSUME KindAssumption ==
    /\ Local \in BOOLEAN
    /\ Windows \in BOOLEAN
    /\ Signals \in BOOLEAN
    /\ Signals => ~Local
ASSUME LimitAssumption == MaxOps \in Nat /\ MaxFail \in Nat
ASSUME NoneAssumption == None \notin Presses

VARIABLES
    down,       \* the button is physically down
    held,       \* the ledger's entry: the press it was registered for
    pending,    \* each caller's _mouse_pending: the operation, or 0
    box,        \* the pending box a running release works on
    pc,         \* where each caller stands
    armed,      \* the ledger's current timer is running
    fired,      \* timer threads that expired and wait for the lock
    stopped,    \* HeldInputLedger._stopped
    confirmed,  \* the presses whose box says up_confirmed
    ops, fails, \* counters bounded by the Max constants
    failedUp,   \* history: the last mouse_up since a press was registered raised
    upped,      \* history: presses a mouse_up was sent for
    twice,      \* history: presses two were sent for
    talk,       \* history: a request arrived since the timer was armed
    struck      \* history: where the signal hit its caller

ledger == <<held, armed, stopped>>
hand == <<down, fails, failedUp, upped, twice>>
vars == <<ledger, hand, pending, box, pc, fired, confirmed, ops, talk, struck>>

InLedger == {"fn", "fnall", "fnstop"}

Places == {"idle", "down", "pressed", "hold", "rescue", "up", "confirm", "direct",
           "release", "stop", "exited"} \cup InLedger
-----------------------------------------------------------------------------
Init ==
    /\ down = FALSE
    /\ held = None
    /\ pending = [c \in Callers |-> 0]
    /\ box = [c \in Callers |-> 0]
    /\ pc = [c \in Callers |-> "idle"]
    /\ armed = FALSE
    /\ fired = 0
    /\ stopped = FALSE
    /\ confirmed = {}
    /\ ops = [c \in Callers |-> 0]
    /\ fails = 0
    /\ failedUp = FALSE
    /\ upped = {}
    /\ twice = {}
    /\ talk = FALSE
    /\ struck = "none"

Goto(c, place) == pc' = [pc EXCEPT ![c] = place]

(* No caller is inside the ledger's lock.                                  *)
LockFree == \A c \in Callers : pc[c] \notin InLedger

(* An operation of c is requested.                                         *)
Ask(c) ==
    /\ pc[c] = "idle"
    /\ ops[c] < MaxOps
    /\ ops' = [ops EXCEPT ![c] = @ + 1]
    /\ talk' = TRUE

(* backend.mouse_up, on behalf of the presses of P; a failing one may have *)
(* been carried out.                                                       *)
MouseUp(P) ==
    /\ down' = FALSE
    /\ failedUp' = FALSE
    /\ upped' = upped \cup P
    /\ twice' = twice \cup (P \cap upped)
    /\ UNCHANGED fails

MouseUpRaises ==
    /\ fails < MaxFail
    /\ fails' = fails + 1
    /\ failedUp' = TRUE
    /\ down' \in {down, FALSE}
    /\ UNCHANGED <<upped, twice>>

(* The release callback pops its caller's pending box, whichever it is.    *)
BoxEmptied(c) == [pending EXCEPT ![c] = None]

BoxPopped(c) == [pending EXCEPT ![c] = 0]

(* HeldInputLedger._release_locked with the caller's release_fn: on        *)
(* Windows a confirmed box is not released again and a failed release      *)
(* stays in custody; elsewhere the entry goes but the pending box stays.   *)
EntryKept(p) ==
    /\ MouseUp({p})
    /\ pending' = BoxPopped(p[1])
    /\ UNCHANGED held

ReleaseFn(p) ==
    \/ /\ IF Windows /\ p \in confirmed THEN UNCHANGED hand ELSE MouseUp({p})
       /\ held' = None
       /\ pending' = BoxPopped(p[1])
    \/ /\ ~(Windows /\ p \in confirmed)
       /\ MouseUpRaises
       /\ held' = IF Windows THEN p ELSE None
       /\ UNCHANGED pending

(* release_all of what no callback is releasing already.                   *)
ReleaseHeld ==
    IF held = None THEN UNCHANGED <<held, pending, hand>> ELSE ReleaseFn(held)

(* _reset_deadman_locked: cancels the timer, and arms a new one while      *)
(* anything is held; a thread that already expired is beyond cancelling.   *)
ResetDeadman ==
    /\ armed' = (held' # None)
    /\ talk' = (talk /\ held' = None)
-----------------------------------------------------------------------------
(* left_mouse_down.  The agent sets its pending box first, a session after *)
(* the press.                                                              *)
DownStart(c) ==
    /\ Ask(c)
    /\ Goto(c, "down")
    /\ box' = [box EXCEPT ![c] = ops'[c]]
    /\ pending' = IF Local THEN pending ELSE [pending EXCEPT ![c] = ops'[c]]
    /\ UNCHANGED <<ledger, hand, fired, confirmed, struck>>

Press(c) ==
    /\ pc[c] = "down"
    /\ down' = TRUE
    /\ Goto(c, "pressed")
    /\ UNCHANGED <<ledger, fails, failedUp, upped, twice, pending, box, fired, confirmed,
                   ops, talk, struck>>

(* The backend raises.  Windows cannot tell whether the button went down.  *)
PressRaises(c) ==
    /\ pc[c] = "down"
    /\ IF Windows
       THEN /\ down' \in {down, TRUE}
            /\ Goto(c, "rescue")
            /\ UNCHANGED pending
       ELSE /\ Goto(c, "idle")
            /\ pending' = IF Local THEN pending ELSE BoxPopped(c)
            /\ UNCHANGED down
    /\ UNCHANGED <<ledger, fails, failedUp, upped, twice, box, fired, confirmed, ops,
                   talk, struck>>

Pressed(c) ==
    /\ pc[c] = "pressed"
    /\ Goto(c, "hold")
    /\ pending' = [pending EXCEPT ![c] = IF Local THEN box[c] ELSE @]
    /\ UNCHANGED <<ledger, hand, box, fired, confirmed, ops, talk, struck>>

(* HeldInputLedger.hold: the token's entry is replaced.                    *)
HoldUnwatched(c) ==
    /\ held' = <<c, box[c]>>
    /\ failedUp' = FALSE
    /\ UNCHANGED <<armed, talk, down, fails, upped, twice>>

Register(c) ==
    /\ held' = <<c, box[c]>>
    /\ ResetDeadman
    /\ failedUp' = FALSE
    /\ UNCHANGED <<down, fails, upped, twice>>

Hold(c) ==
    /\ pc[c] = "hold"
    /\ LockFree
    /\ Register(c)
    /\ Goto(c, "idle")
    /\ UNCHANGED <<stopped, pending, box, fired, confirmed, ops, struck>>

(* The Windows press that raised is registered and released at once; a     *)
(* stopped ledger releases it by itself.                                   *)
Rescue(c) ==
    /\ pc[c] = "rescue"
    /\ LockFree
    /\ IF stopped
       THEN ReleaseFn(<<c, box[c]>>) /\ Goto(c, "stop") /\ UNCHANGED <<armed, talk>>
       ELSE /\ Register(c)
            /\ pending' = [pending EXCEPT ![c] = box[c]]
            /\ Goto(c, "release")
    /\ UNCHANGED <<stopped, box, fired, confirmed, ops, struck>>
-----------------------------------------------------------------------------
(* left_mouse_up: with a pending box the entry is released through the     *)
(* ledger, on Windows after an explicit up; without one directly.          *)
UpStart(c) ==
    /\ Ask(c)
    /\ box' = [box EXCEPT ![c] = pending[c]]
    /\ Goto(c, IF pending[c] = 0 THEN "direct" ELSE IF Windows THEN "up" ELSE "release")
    /\ UNCHANGED <<ledger, hand, pending, fired, confirmed, struck>>

Direct(c) ==
    /\ pc[c] = "direct"
    /\ MouseUp({}) \/ MouseUpRaises
    /\ Goto(c, "idle")
    /\ UNCHANGED <<ledger, pending, box, fired, confirmed, ops, talk, struck>>

Up(c) ==
    /\ pc[c] = "up"
    /\ \/ MouseUp({<<c, box[c]>>}) /\ Goto(c, "confirm")
       \/ MouseUpRaises /\ Goto(c, "release")
    /\ UNCHANGED <<ledger, pending, box, fired, confirmed, ops, talk, struck>>

Confirm(c) ==
    /\ pc[c] = "confirm"
    /\ confirmed' = confirmed \cup {<<c, box[c]>>}
    /\ Goto(c, "release")
    /\ UNCHANGED <<ledger, hand, pending, box, fired, ops, talk, struck>>

(* HeldInputLedger.release(token).                                         *)
Release(c) ==
    /\ pc[c] = "release"
    /\ LockFree
    /\ Goto(c, IF held = None THEN "idle" ELSE "fn")
    /\ UNCHANGED <<ledger, hand, pending, box, fired, confirmed, ops, talk, struck>>

(* release_all: an op of the agent, or a guard that halts or pauses.       *)
ReleaseAll(c) ==
    /\ Ask(c)
    /\ LockFree
    /\ Goto(c, IF held = None THEN "idle" ELSE "fnall")
    /\ UNCHANGED <<ledger, hand, pending, box, fired, confirmed, struck>>

(* Every other request leaves button, ledger and timer alone.              *)
Other(c) ==
    /\ Ask(c)
    /\ UNCHANGED <<ledger, hand, pending, box, pc, fired, confirmed, struck>>

(* The release callback runs inside the lock.                              *)
InCallback(c) ==
    /\ pc[c] \in {"fn", "fnall"}
    /\ ReleaseFn(held)
    /\ IF pc[c] = "fn" THEN ResetDeadman ELSE UNCHANGED <<armed, talk>>
    /\ Goto(c, "idle")
    /\ UNCHANGED <<stopped, box, fired, confirmed, ops, struck>>
-----------------------------------------------------------------------------
(* The agent ends: its input is exhausted, or "bye" was answered.          *)
EndOfInput(c) ==
    /\ ~Local
    /\ pc[c] = "idle"
    /\ Goto(c, "stop")
    /\ UNCHANGED <<ledger, hand, pending, box, fired, confirmed, ops, talk, struck>>

(* HeldInputLedger.stop releases what is held and cancels the timer.       *)
StopKeepsHeld(c) ==
    /\ pc[c] = "stop"
    /\ LockFree
    /\ Goto(c, "exited")
    /\ stopped' = TRUE
    /\ armed' = FALSE
    /\ UNCHANGED <<held, hand, pending, box, fired, confirmed, ops, talk, struck>>

Stop(c) ==
    /\ pc[c] = "stop"
    /\ LockFree
    /\ IF held = None
       THEN Goto(c, "exited") /\ stopped' = TRUE /\ armed' = FALSE
       ELSE Goto(c, "fnstop") /\ UNCHANGED <<stopped, armed>>
    /\ UNCHANGED <<held, hand, pending, box, fired, confirmed, ops, talk, struck>>

StopCallback(c) ==
    /\ pc[c] = "fnstop"
    /\ ReleaseFn(held)
    /\ stopped' = TRUE
    /\ armed' = FALSE
    /\ Goto(c, "exited")
    /\ UNCHANGED <<box, fired, confirmed, ops, talk, struck>>

(* A session closes its binding; it refuses while its own box is pending.  *)
Close(c) ==
    /\ Local
    /\ pc[c] = "idle"
    /\ pending[c] = 0
    /\ Goto(c, "exited")
    /\ UNCHANGED <<ledger, hand, pending, box, fired, confirmed, ops, talk, struck>>

(* SIGTERM, SIGHUP or SIGINT: the handler runs on the agent's main thread, *)
(* between any two of its steps and inside its own lock, stops the ledger  *)
(* and raises SystemExit there.  Inside a release callback the entry is    *)
(* already marked released, so neither this stop nor the final one sees it.*)
(* A Windows press catches SystemExit; any other place unwinds to run's    *)
(* finally.                                                                *)
Signal(c) ==
    /\ Signals
    /\ ~stopped
    /\ pc[c] # "exited"
    /\ IF pc[c] \in InLedger
       THEN Goto(c, "exited") /\ UNCHANGED <<held, pending, hand>>
       ELSE /\ Goto(c, IF Windows /\ pc[c] \in {"down", "pressed"} THEN "rescue" ELSE "stop")
            /\ ReleaseHeld
    /\ stopped' = TRUE
    /\ armed' = FALSE
    /\ struck' = pc[c]
    /\ UNCHANGED <<box, fired, confirmed, ops, talk>>

(* deadman_seconds pass; the expired thread then has to get the lock.      *)
Expire ==
    /\ armed
    /\ armed' = FALSE
    /\ fired' = fired + 1
    /\ UNCHANGED <<held, stopped, hand, pending, box, pc, confirmed, ops, talk, struck>>

(* _on_deadman releases whatever is held by then, and re-arms nothing.     *)
Deadman ==
    /\ fired > 0
    /\ ~stopped
    /\ LockFree
    /\ fired' = fired - 1
    /\ ReleaseHeld
    /\ UNCHANGED <<armed, stopped, box, pc, confirmed, ops, talk, struck>>

Step(c) ==
    \/ Press(c)
    \/ PressRaises(c)
    \/ Pressed(c)
    \/ Hold(c)
    \/ Rescue(c)
    \/ Direct(c)
    \/ Up(c)
    \/ Confirm(c)
    \/ Release(c)
    \/ InCallback(c)
    \/ Stop(c)
    \/ StopCallback(c)

Request(c) ==
    \/ DownStart(c)
    \/ UpStart(c)
    \/ ReleaseAll(c)
    \/ Other(c)
    \/ EndOfInput(c)
    \/ Close(c)
    \/ Signal(c)

Next ==
    \/ \E c \in Callers : Step(c) \/ Request(c)
    \/ Expire
    \/ Deadman

Spec == Init /\ [][Next]_vars

(* Threads run on, and time passes.                                        *)
Fairness ==
    /\ \A c \in Callers : WF_vars(Step(c))
    /\ WF_vars(Expire)
    /\ WF_vars(Deadman)

FairSpec == Spec /\ Fairness
-----------------------------------------------------------------------------
(* Types, and the counters' bounds.                                        *)
TypeOK ==
    /\ down \in BOOLEAN
    /\ held \in Presses \cup {None}
    /\ pending \in [Callers -> 0..MaxOps]
    /\ box \in [Callers -> 0..MaxOps]
    /\ pc \in [Callers -> Places]
    /\ armed \in BOOLEAN
    /\ fired \in Nat
    /\ stopped \in BOOLEAN
    /\ confirmed \subseteq Presses
    /\ ops \in [Callers -> 0..MaxOps]
    /\ fails \in 0..MaxFail
    /\ failedUp \in BOOLEAN
    /\ upped \subseteq Presses
    /\ twice \subseteq Presses
    /\ talk \in BOOLEAN
    /\ struck \in Places \cup {"none"}

Quiescent == \A c \in Callers : pc[c] \in {"idle", "exited"}

(* A button that is down while no caller is at work is in the ledger, with *)
(* a deadman running or waiting for the lock, unless a mouse_up raised.    *)
Custody ==
    down /\ Quiescent /\ ~stopped => failedUp \/ (held # None /\ (armed \/ fired > 0))

(* The agent never exits with the button down, unless its release raised.  *)
NothingStranded == \A c \in Callers : pc[c] = "exited" /\ ~Local /\ down => failedUp

(* A signal leaves the button down only when it hits between the press and *)
(* its registration (on Windows: outside the press's own handler), or      *)
(* inside a release callback.                                              *)
SignalWindow ==
    \A c \in Callers : pc[c] = "exited" /\ ~Local /\ down =>
        failedUp \/ struck \in InLedger \cup {"hold", IF Windows THEN "rescue" ELSE "pressed"}

(* No press is answered with two mouse_up calls.                           *)
OneUpPerPress == twice = {}

(* Whatever the callers do, a held button goes up.                         *)
EventuallyUp == down ~> ~down
-----------------------------------------------------------------------------
(* What the code does not keep.                                            *)

(* A caller with no operation under way has a pending box only for an      *)
(* entry of its own in the ledger (what close_current_binding refuses on). *)
PendingIsHeld ==
    \A c \in Callers : pc[c] = "idle" /\ pending[c] # 0 => held = <<c, pending[c]>>

(* An entry of the ledger is known to its caller, whose explicit up then   *)
(* goes through the ledger and retires it.                                 *)
HeldIsPending ==
    held # None /\ pc[held[1]] = "idle" /\ LockFree => pending[held[1]] # 0

(* The deadman never releases a button whose own timer is still running.   *)
NoEarlyRelease == [][fired' < fired /\ down /\ ~down' => ~armed]_vars

(* A timer only expires after deadman_seconds without any request.         *)
OnlyWhenSilent == [][fired' > fired => ~talk]_vars
=============================================================================
