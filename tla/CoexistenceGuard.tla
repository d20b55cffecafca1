------------------------- MODULE CoexistenceGuard -------------------------
(***************************************************************************)
(* The coexistence guard of computer-use: driving sessions of one machine, *)
(* each with its own CoexistenceGuard and PresenceMonitor, sharing the     *)
(* machine's durable halt record, its held-input ledger, its idle counter  *)
(* and its overlay (coexistence_guard.py, presence.py, halt_state.py and   *)
(* the guarded write of ComputerTool).                                     *)
(*                                                                         *)
(* One elementary event takes the steps the code takes: poll the record,   *)
(* sample presence, check pause, exclusion and target, (Windows: build the *)
(* target-clock condition,) inject, account for the injection.  Other      *)
(* sessions, the overlay thread, the ledger's deadman and the human act    *)
(* between any two of them.                                                *)
(***************************************************************************)
EXTENDS Naturals

CONSTANTS
    Sessions,       \* driving sessions of the machine
    TargetClock,    \* Windows: presence and injection on the target's clock
    RemoteOverlay,  \* the overlay lives with the remote agent
    Overridden,     \* sessions mounted with an operator presence override
    Ops,            \* the kinds of write that are requested
    Burst,          \* longest text, in characters
    MaxOps,         \* writes requested of each session
    MaxHuman,       \* physical inputs and overlay clicks
    MaxClears,      \* explicit resumes
    None            \* no session

(* desktop: the desktop tool's focus_window and set_clipboard.             *)
AllOps == {"type", "click", "press", "release", "desktop"}

ASSUME SessionsAssumption == None \notin Sessions
ASSUME ModeAssumption == TargetClock \in BOOLEAN /\ RemoteOverlay \in BOOLEAN
ASSUME OverrideAssumption ==
    Overridden \subseteq Sessions /\ (Overridden # {} => TargetClock /\ RemoteOverlay)
ASSUME OpsAssumption == Ops \subseteq AllOps /\ Ops # {}
ASSUME BoundsAssumption ==
    /\ Burst \in Nat \ {0}
    /\ MaxOps \in Nat
    /\ MaxHuman \in Nat
    /\ MaxClears \in Nat

VARIABLES
    record,     \* the durable halt record of this machine exists
    holder,     \* the session whose button the channel's ledger holds
    recent,     \* the machine saw input within QUIET_FLOOR_SECONDS
    overlay,    \* the session whose mount raised the overlay
    pauseClick, \* remote agent: _announce_paused
    cancelClick,\* remote agent: _announce_cancelled
    cancelling, \* the overlay thread is between release_all and record_halt
    pc,         \* where each session's worker stands
    halted,     \* CoexistenceGuard._halted
    paused,     \* PauseController._paused
    policy,     \* the operator presence override of each session
    op,         \* the write in flight
    left,       \* events of it still to inject
    own,        \* the session has credited an injection of its own
    foreign,    \* the machine's last input is newer than that by more than
                \* the guard band (before the first: newer than the baseline)
    seenCancel, \* ComputerTool._remote_cancel_seen
    ops, humans, clears,    \* counters bounded by the Max constants
    late,       \* history: events emitted under the record that stands
    pauseLate,  \* history: events emitted since the human clicked Pause
    clicked,    \* history: the sessions that click was meant for
    unseen,     \* history: sessions that owe a human input a halt
    cause       \* history: since the last resume a human acted or safety
                \* evidence failed

machine == <<record, holder, recent>>
screen == <<overlay, pauseClick, cancelClick, cancelling>>
work == <<op, left>>
sense == <<own, foreign>>
bounds == <<ops, humans, clears>>
history == <<late, pauseLate, clicked, unseen, cause>>
vars == <<machine, screen, pc, halted, paused, policy, work, sense, seenCancel,
          bounds, history>>

Phases == {"unbuilt", "idle", "poll", "sample", "check", "cond", "inject",
           "account", "halting"}

(* The event is cleared by a presence sample and not yet accounted for.    *)
Exposed == {"check", "cond", "inject", "account"}
-----------------------------------------------------------------------------
Init ==
    /\ record \in BOOLEAN
    /\ holder = None
    /\ recent \in BOOLEAN
    /\ overlay = None
    /\ pauseClick = FALSE
    /\ cancelClick = FALSE
    /\ cancelling = FALSE
    /\ pc = [s \in Sessions |-> "unbuilt"]
    /\ halted = {}
    /\ paused = {}
    /\ policy = [s \in Sessions |-> IF s \in Overridden THEN "active" ELSE "none"]
    /\ op = [s \in Sessions |-> "none"]
    /\ left = [s \in Sessions |-> 0]
    /\ own = {}
    /\ foreign = {}
    /\ seenCancel = {}
    /\ ops = [s \in Sessions |-> 0]
    /\ humans = 0
    /\ clears = 0
    /\ late = [s \in Sessions |-> 0]
    /\ pauseLate = [s \in Sessions |-> 0]
    /\ clicked = {}
    /\ unseen = {}
    /\ cause = (record \/ recent)
-----------------------------------------------------------------------------
(* Input and release.                                                      *)

Goto(s, phase) == pc' = [pc EXCEPT ![s] = phase]

(* Input that lands within the guard band of an injection the session has  *)
(* just credited (or, on the target clock, of the SendInput about to be    *)
(* credited) is indistinguishable from that injection.                     *)
Maskable ==
    {s \in own : pc[s] \in {"idle", "poll", "sample"}}
        \cup (IF TargetClock THEN {s \in Sessions : pc[s] \in {"inject", "account"}} ELSE {})

(* The machine receives input that is not credited to the sessions of S.   *)
Touch(S) ==
    \E masked \in SUBSET (S \cap Maskable) :
        /\ foreign' = foreign \cup (S \ masked)
        /\ recent' = TRUE

(* HeldInputLedger.release_all: a mouse_up nobody credits.                 *)
ReleaseAll ==
    IF holder = None
    THEN UNCHANGED <<holder, foreign, recent>>
    ELSE holder' = None /\ Touch(Sessions)

(* A variant of Halt: the exception is swallowed.                          *)
HaltSwallowed(s) ==
    /\ halted' = halted \cup {s}
    /\ Goto(s, "inject")
    /\ ReleaseAll

(* The guard latches, releases what is held and raises HaltedError.        *)
Halt(s) ==
    /\ halted' = halted \cup {s}
    /\ Goto(s, "halting")
    /\ ReleaseAll

(* The write ends without a halt.                                          *)
EndOp(s) ==
    /\ Goto(s, "idle")
    /\ op' = [op EXCEPT ![s] = "none"]
    /\ left' = [left EXCEPT ![s] = 0]

(* durable_halt_poll reports the record; a guard built without one sees    *)
(* nothing after its mount.                                                *)
NoDurablePoll == FALSE

DurableHalt == record

(* The guard's own reasons to refuse: its latch, a lapsed override.        *)
LapseOnly(s) == policy[s] = "lapsed"

Stopped(s) == s \in halted \/ policy[s] = "lapsed"
-----------------------------------------------------------------------------
(* A session mounts: its guard starts latched if a record stands.          *)
Build(s) ==
    /\ pc[s] = "unbuilt"
    /\ policy[s] # "lapsed"
    /\ Goto(s, "idle")
    /\ halted' = IF record THEN halted \cup {s} ELSE halted
    /\ UNCHANGED <<machine, screen, paused, policy, work, sense, seenCancel, bounds, history>>

(* The remote overlay's flags are acted on once per session; then start    *)
(* permission.                                                             *)
Admit(s, cancel, pause) ==
    /\ record' = (record \/ cancel)
    /\ seenCancel' = IF cancel THEN seenCancel \cup {s} ELSE seenCancel
    /\ paused' = IF pause /\ ~cancel THEN paused \cup {s} ELSE paused
    /\ IF Stopped(s) \/ DurableHalt \/ cancel
       THEN Halt(s)
       ELSE Goto(s, "poll") /\ UNCHANGED <<halted, holder, foreign, recent>>

(* A guarded write starts: disclosure, the remote overlay's flags (when    *)
(* they can be read), start permission.                                    *)
Begin(s) ==
    /\ pc[s] = "idle"
    /\ ops[s] < MaxOps
    /\ ops' = [ops EXCEPT ![s] = @ + 1]
    /\ overlay' = IF overlay = None THEN s ELSE overlay
    /\ \E o \in Ops : \E n \in 1..(IF o = "type" THEN Burst ELSE 1) :
        /\ op' = [op EXCEPT ![s] = o]
        /\ left' = [left EXCEPT ![s] = n]
    /\ \E readable \in {RemoteOverlay, FALSE} :
        Admit(s, readable /\ cancelClick /\ s \notin seenCancel, readable /\ pauseClick)
    /\ cause' = (cause \/ policy[s] = "lapsed")
    /\ UNCHANGED <<pauseClick, cancelClick, cancelling, policy, own, humans, clears,
                   late, pauseLate, clicked, unseen>>

(* before_event: the durable record is polled first.  On the target clock  *)
(* a latched session stops here; elsewhere it still samples presence.      *)
Poll(s) ==
    /\ pc[s] = "poll"
    /\ IF TargetClock /\ (Stopped(s) \/ DurableHalt)
       THEN Halt(s)
       ELSE /\ halted' = IF DurableHalt THEN halted \cup {s} ELSE halted
            /\ Goto(s, "sample")
            /\ UNCHANGED <<holder, foreign, recent>>
    /\ cause' = (cause \/ policy[s] = "lapsed")
    /\ UNCHANGED <<record, screen, paused, policy, work, own, seenCancel, bounds,
                   late, pauseLate, clicked, unseen>>

(* PresenceMonitor.sample: before its first credited injection a session   *)
(* takes any recent input for a human's.                                   *)
SensedByIdle(s) == recent

HumanSensed(s) == IF s \in own THEN s \in foreign ELSE recent

Sample(s) ==
    /\ pc[s] = "sample"
    /\ IF Stopped(s) \/ (HumanSensed(s) /\ policy[s] # "active")
       THEN Halt(s)
       ELSE /\ Goto(s, "check")
            /\ foreign' = IF s \in own THEN foreign ELSE foreign \ {s}
            /\ UNCHANGED <<halted, holder, recent>>
    /\ cause' = (cause \/ policy[s] = "lapsed")
    /\ UNCHANGED <<record, screen, paused, policy, work, own, seenCancel, bounds,
                   late, pauseLate, clicked, unseen>>

(* The idle counter cannot be read: a target-clock guard latches, any      *)
(* other one raises and leaves latch and ledger alone.                     *)
SampleUnreadable(s) ==
    /\ pc[s] = "sample"
    /\ IF TargetClock
       THEN Halt(s) /\ cause' = TRUE /\ UNCHANGED work
       ELSE EndOp(s) /\ UNCHANGED <<halted, holder, foreign, recent, cause>>
    /\ UNCHANGED <<record, screen, paused, policy, own, seenCancel, bounds,
                   late, pauseLate, clicked, unseen>>
-----------------------------------------------------------------------------
(* PauseController.check, in every kind of write.                          *)
PauseSparesText(s) == s \in paused /\ op[s] # "type"

PauseStands(s) == s \in paused

CheckPaused(s) ==
    /\ pc[s] = "check"
    /\ PauseStands(s)
    /\ EndOp(s)
    /\ ReleaseAll
    /\ UNCHANGED <<record, screen, halted, paused, policy, own, seenCancel, bounds, history>>

(* The point is excluded (nothing is released, but for an overridden       *)
(* session) or the target changed (everything is released).                *)
CheckRefused(s) ==
    /\ pc[s] = "check"
    /\ ~PauseStands(s)
    /\ EndOp(s)
    /\ \/ ReleaseAll
       \/ policy[s] # "active" /\ UNCHANGED <<holder, foreign, recent>>
    /\ UNCHANGED <<record, screen, halted, paused, policy, own, seenCancel, bounds, history>>

(* An overridden session must have a verified target.                      *)
CheckUnverified(s) ==
    /\ pc[s] = "check"
    /\ ~PauseStands(s)
    /\ policy[s] = "active"
    /\ Halt(s)
    /\ cause' = TRUE
    /\ UNCHANGED <<record, screen, paused, policy, work, own, seenCancel, bounds,
                   late, pauseLate, clicked, unseen>>

CheckPassed(s) ==
    /\ pc[s] = "check"
    /\ ~PauseStands(s)
    /\ Goto(s, IF TargetClock THEN "cond" ELSE "inject")
    /\ UNCHANGED <<machine, screen, halted, paused, policy, work, sense, seenCancel,
                   bounds, history>>

(* target_condition: the record, the override and (under an override) the  *)
(* pause are read again before the condition is forwarded.                 *)
Condition(s) ==
    /\ pc[s] = "cond"
    /\ IF DurableHalt \/ Stopped(s)
       THEN Halt(s) /\ UNCHANGED work
       ELSE IF policy[s] = "active" /\ PauseStands(s)
            THEN EndOp(s) /\ ReleaseAll /\ UNCHANGED halted
            ELSE /\ Goto(s, "inject")
                 /\ UNCHANGED <<halted, holder, foreign, recent, work>>
    /\ cause' = (cause \/ policy[s] = "lapsed")
    /\ UNCHANGED <<record, screen, paused, policy, own, seenCancel, bounds,
                   late, pauseLate, clicked, unseen>>
-----------------------------------------------------------------------------
(* The history of one emitted event.                                       *)
Emitted(s) ==
    /\ late' = [late EXCEPT ![s] = IF record THEN @ + 1 ELSE @]
    /\ pauseLate' = [pauseLate EXCEPT ![s] = IF s \in clicked THEN @ + 1 ELSE @]

(* The backend emits the event.  On Windows the bridge refuses it when the *)
(* target saw input since the sample, unless the override stands there.    *)
Inject(s) ==
    /\ pc[s] = "inject"
    /\ TargetClock => policy[s] # "none" \/ s \notin foreign
    /\ Emitted(s)
    /\ \E masked \in SUBSET ((Sessions \ {s}) \cap Maskable) :
        LET touched == (Sessions \ {s}) \ masked
        IN  foreign' = IF TargetClock THEN (foreign \cup touched) \ {s}
                       ELSE foreign \cup touched
    /\ recent' = TRUE
    /\ Goto(s, "account")
    /\ UNCHANGED <<record, holder, screen, halted, paused, policy, work, own, seenCancel,
                   bounds, clicked, unseen, cause>>

(* The backend raises, perhaps after it emitted.  The guarded write still  *)
(* credits an injection (its finally), the type loop does not.  A release  *)
(* through the ledger never raises.                                        *)
BackendRaises(s) ==
    /\ pc[s] = "inject"
    /\ ~TargetClock
    /\ ~(op[s] = "release" /\ holder = s)
    /\ \/ Emitted(s) /\ Touch(Sessions)
       \/ UNCHANGED <<late, pauseLate, foreign, recent>>
    /\ IF op[s] = "type"
       THEN EndOp(s)
       ELSE Goto(s, "account") /\ op' = [op EXCEPT ![s] = "failed"] /\ UNCHANGED left
    /\ UNCHANGED <<record, holder, screen, halted, paused, policy, own, seenCancel, bounds,
                   clicked, unseen, cause>>

(* On the target clock a refusal or an error before the emission latches.  *)
TargetRaises(s) ==
    /\ pc[s] = "inject"
    /\ TargetClock
    /\ Halt(s)
    /\ cause' = TRUE
    /\ UNCHANGED <<record, screen, paused, policy, work, own, seenCancel, bounds,
                   late, pauseLate, clicked, unseen>>

(* So does an emission whose receipt is lost or invalid; a button that may *)
(* be down is taken into custody and released at once.                     *)
ReceiptLost(s) ==
    /\ pc[s] = "account"
    /\ TargetClock
    /\ halted' = halted \cup {s}
    /\ Goto(s, "halting")
    /\ holder' = None
    /\ IF holder = None /\ op[s] # "press"
       THEN UNCHANGED <<foreign, recent>>
       ELSE Touch(Sessions)
    /\ cause' = TRUE
    /\ UNCHANGED <<record, screen, paused, policy, work, own, seenCancel, bounds,
                   late, pauseLate, clicked, unseen>>

(* After the receipt the guard reads record, override and presence again.  *)
ReceiptRefused(s) ==
    \/ DurableHalt
    \/ Stopped(s)
    \/ s \in foreign /\ policy[s] # "active"

(* The text goes on to its next character while one is left.               *)
TextNeverEnds(s) == TRUE

MoreText(s) == left[s] > 1

SameCharacter(s) == left[s]

NextLeft(s) == left[s] - 1

(* after_event credits the injection (elsewhere) or the receipt does (on   *)
(* the target clock, where it may also latch); a pressed button enters the *)
(* ledger; the next character, or the end of the write.                    *)
Account(s) ==
    /\ pc[s] = "account"
    /\ IF TargetClock /\ ReceiptRefused(s)
       THEN Halt(s) /\ UNCHANGED <<work, own>>
       ELSE /\ own' = own \cup {s}
            /\ foreign' = IF TargetClock THEN foreign ELSE foreign \ {s}
            /\ holder' = IF op[s] = "press" THEN s
                         ELSE IF op[s] = "release" /\ holder = s THEN None
                         ELSE holder
            /\ IF MoreText(s)
               THEN /\ Goto(s, "poll")
                    /\ left' = [left EXCEPT ![s] = NextLeft(s)]
                    /\ UNCHANGED op
               ELSE EndOp(s)
            /\ UNCHANGED <<halted, recent>>
    /\ cause' = (cause \/ policy[s] = "lapsed")
    /\ UNCHANGED <<record, screen, paused, policy, seenCancel, bounds,
                   late, pauseLate, clicked, unseen>>

(* The worker records the HaltedError against its target.  The desktop     *)
(* tool's writes have no such handler.                                     *)
NoHandlerForText(s) == op[s] \notin {"type", "desktop"}

RecordsHalt(s) == op[s] # "desktop"

Persist(s) ==
    /\ pc[s] = "halting"
    /\ record' = (record \/ RecordsHalt(s))
    /\ EndOp(s)
    /\ UNCHANGED <<holder, recent, screen, halted, paused, policy, sense, seenCancel,
                   bounds, history>>

Step(s) ==
    \/ Build(s)
    \/ Begin(s)
    \/ Poll(s)
    \/ Sample(s)
    \/ SampleUnreadable(s)
    \/ CheckPaused(s)
    \/ CheckRefused(s)
    \/ CheckUnverified(s)
    \/ CheckPassed(s)
    \/ Condition(s)
    \/ Inject(s)
    \/ BackendRaises(s)
    \/ TargetRaises(s)
    \/ ReceiptLost(s)
    \/ Account(s)
    \/ Persist(s)
-----------------------------------------------------------------------------
(* The human, the overlay thread, time and the ledger's timer.             *)

(* A physical input: every session that injected before and has not taken  *)
(* its next sample owes it a halt, unless the guard band hides the input.  *)
Physical ==
    /\ humans < MaxHuman
    /\ humans' = humans + 1
    /\ cause' = TRUE
    /\ \E masked \in SUBSET Maskable :
        /\ foreign' = foreign \cup (Sessions \ masked)
        /\ unseen' = unseen \cup {s \in own \ (masked \cup Overridden) :
                                    pc[s] \in {"idle", "poll", "sample"}}
    /\ recent' = TRUE

HumanInput ==
    /\ Physical
    /\ UNCHANGED <<record, holder, screen, pc, halted, paused, policy, work, own,
                   seenCancel, ops, clears, late, pauseLate, clicked>>

(* The human clicks Pause.  A local overlay calls back into the guard of   *)
(* the mount that raised it; a remote one only sets the agent's flag.      *)
PauseClick ==
    /\ overlay # None
    /\ Physical
    /\ IF RemoteOverlay
       THEN /\ pauseClick' = TRUE
            /\ clicked' = clicked \cup {s \in Sessions : pc[s] # "unbuilt"}
            /\ UNCHANGED paused
       ELSE /\ paused' = paused \cup {overlay}
            /\ clicked' = clicked \cup {overlay}
            /\ UNCHANGED pauseClick
    /\ UNCHANGED <<record, holder, overlay, cancelClick, cancelling, pc, halted, policy,
                   work, own, seenCancel, ops, clears, late, pauseLate>>

CancelClick ==
    /\ overlay # None
    /\ ~cancelling
    /\ Physical
    /\ IF RemoteOverlay
       THEN cancelClick' = TRUE /\ UNCHANGED <<cancelling, holder>>
       ELSE cancelling' = TRUE /\ holder' = None /\ UNCHANGED cancelClick
    /\ UNCHANGED <<record, overlay, pauseClick, pc, halted, paused, policy, work, own,
                   seenCancel, ops, clears, late, pauseLate, clicked>>

(* _on_overlay_cancel writes the record after it released what was held.   *)
CancelRecords ==
    /\ cancelling
    /\ cancelling' = FALSE
    /\ record' = TRUE
    /\ UNCHANGED <<holder, recent, overlay, pauseClick, cancelClick, pc, halted, paused,
                   policy, work, sense, seenCancel, bounds, history>>

(* QUIET_FLOOR_SECONDS pass without any input.                             *)
Settle ==
    /\ recent
    /\ recent' = FALSE
    /\ UNCHANGED <<record, holder, screen, pc, halted, paused, policy, work, sense,
                   seenCancel, bounds, history>>

Deadman ==
    /\ holder # None
    /\ ReleaseAll
    /\ UNCHANGED <<record, screen, pc, halted, paused, policy, work, own, seenCancel,
                   bounds, history>>

(* The override expires, or its configuration is withdrawn.                *)
Lapse(s) ==
    /\ policy[s] = "active"
    /\ policy' = [policy EXCEPT ![s] = "lapsed"]
    /\ UNCHANGED <<machine, screen, pc, halted, paused, work, sense, seenCancel, bounds,
                   history>>

ResumeUnlatches ==
    /\ record
    /\ clears < MaxClears
    /\ clears' = clears + 1
    /\ record' = FALSE
    /\ halted' = {}
    /\ late' = [s \in Sessions |-> 0]
    /\ cause' = cancelling
    /\ UNCHANGED <<holder, recent, screen, pc, paused, policy, work, sense,
                   seenCancel, ops, humans, pauseLate, clicked, unseen>>

(* A human runs computer-use-resume: the record goes, the latches of the   *)
(* sessions that live on stay.                                             *)
Resume ==
    /\ record
    /\ clears < MaxClears
    /\ clears' = clears + 1
    /\ record' = FALSE
    /\ late' = [s \in Sessions |-> 0]
    /\ cause' = cancelling
    /\ UNCHANGED <<holder, recent, screen, pc, halted, paused, policy, work, sense,
                   seenCancel, ops, humans, pauseLate, clicked, unseen>>

Environment ==
    \/ HumanInput
    \/ PauseClick
    \/ CancelClick
    \/ CancelRecords
    \/ Settle
    \/ Deadman
    \/ \E s \in Sessions : Lapse(s)
    \/ Resume

Next == Environment \/ \E s \in Sessions : Step(s)

Spec == Init /\ [][Next]_vars

(* Worker threads run on; whether a write is requested at all is up to the *)
(* model driving the tool.                                                 *)
Fairness == \A s \in Sessions : WF_vars(pc[s] # "idle" /\ Step(s))

FairSpec == Spec /\ Fairness
-----------------------------------------------------------------------------
(* Types, and the counters' bounds.                                        *)
TypeOK ==
    /\ record \in BOOLEAN
    /\ holder \in Sessions \cup {None}
    /\ recent \in BOOLEAN
    /\ overlay \in Sessions \cup {None}
    /\ pauseClick \in BOOLEAN
    /\ cancelClick \in BOOLEAN
    /\ cancelling \in BOOLEAN
    /\ pc \in [Sessions -> Phases]
    /\ halted \subseteq Sessions
    /\ paused \subseteq Sessions
    /\ policy \in [Sessions -> {"none", "active", "lapsed"}]
    /\ op \in [Sessions -> AllOps \cup {"none", "failed"}]
    /\ left \in [Sessions -> 0..Burst]
    /\ own \subseteq Sessions
    /\ foreign \subseteq Sessions
    /\ seenCancel \subseteq Sessions
    /\ ops \in [Sessions -> 0..MaxOps]
    /\ humans \in 0..MaxHuman
    /\ clears \in 0..MaxClears
    /\ late \in [Sessions -> Nat]
    /\ pauseLate \in [Sessions -> Nat]
    /\ clicked \subseteq Sessions
    /\ unseen \subseteq Sessions
    /\ cause \in BOOLEAN

(* Once a halt record stands, each session of the machine emits at most the *)
(* one event it had already polled for, and nothing after that, until a     *)
(* human clears the record (make_durable_halt_poll's promise across         *)
(* sessions).                                                               *)
LateBound == \A s \in Sessions : late[s] <= 1

(* A guard that has latched never has a checked event in flight: every      *)
(* path that latches it leaves the write.                                   *)
LatchedIsSilent == \A s \in halted : pc[s] \notin Exposed

(* A physical input that reaches the machine outside a session's own        *)
(* sample-to-account window and outside the guard band is never followed by *)
(* a checked event of that session, whatever other sessions inject in the   *)
(* meantime (an operator override excepted).                                *)
HumanGapDetected == \A s \in unseen : pc[s] \notin Exposed

(* When a computer write has ended on a latched guard, the halt is on disk  *)
(* for every other session of the machine.                                  *)
HaltPersisted ==
    clears = 0 => \A s \in halted : pc[s] = "idle" => record

(* After the human clicks Pause, the session the button belongs to emits at *)
(* most the one event it had already checked, even inside a text.           *)
PauseBound == \A s \in Sessions : pauseLate[s] <= 1

(* Every requested write ends.                                              *)
WriteEnds == \A s \in Sessions : pc[s] = "poll" ~> pc[s] = "idle"

(* The passes of the abstract promise: cleared by a poll of the record and  *)
(* not yet emitted.                                                         *)
Owed == {s \in Sessions \ halted : pc[s] \in {"sample", "check", "cond", "inject"}}

HL == INSTANCE HaltLatch WITH stop <- record, latched <- halted, owed <- Owed

(* The guards together keep the abstract promise of HaltLatch: one event    *)
(* per pass, no pass under a halt, none for a latched session.              *)
KeepsHaltLatch == HL!LSpec
-----------------------------------------------------------------------------
(* What the code does not keep.                                            *)

(* A latched session has nothing left held once its write has ended.        *)
HaltReleasesHeld == \A s \in halted : pc[s] = "idle" => holder # s

(* A durable halt stands only if, since the last resume, a human acted at   *)
(* the machine or safety evidence failed.                                   *)
HaltHasCause == record => cause

(* A cleared halt does not come back by itself.                             *)
ResumeSticks == [][record' /\ ~record => cause]_vars

\* The promises of a guard to the human at the machine, on the clock of the
\* controller or of the target.
GuardHolds == LateBound /\ LatchedIsSilent /\ HumanGapDetected /\ HaltPersisted
=============================================================================
