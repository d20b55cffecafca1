---------------------------------- MODULE Mount ----------------------------------
(***************************************************************************)
(* How a session gets and gives back its backend.  mount builds a backend  *)
(* in a thread and registers the tools `computer' and `desktop'; when that *)
(* fails it registers a stub, whose `activate' may build one later.  The   *)
(* value mount returned is the cleanup: the core calls it, others may too. *)
(* Every await can be cancelled; a thread goes on without its caller.      *)
(***************************************************************************)
EXTENDS Naturals, FiniteSets

CONSTANTS
    None,
    Builds,        \* attempts at a backend: the mount's own and the activations'
    First,         \* the mount's own
    Callers,       \* those who call the cleanup: the session's end, and explicit calls
    MaxCancels     \* bound: cancelled awaits

ASSUME MountAssumption ==
    /\ IsFiniteSet(Builds) /\ First \in Builds /\ IsFiniteSet(Callers)
    /\ MaxCancels \in Nat /\ None \notin Builds \cup Callers
    /\ Builds \cap Callers = {}

VARIABLES
    pc,           \* the coroutine of each attempt
    thread,       \* its builder thread: "none", "selecting", "building", "ready", "gone"
    backend,      \* its backend: "none", "open", "closed", or "unknown" after a failed close
    closes,       \* history: how often it was closed
    tool,         \* its ComputerTool: [held, cleanup (started), closed]
    computer, desktop, stub,   \* what the coordinator serves under the tools' names
    result,       \* what mount returned: "none", "tools", "stub", "raised"
    lifecycle,    \* the stub's lifecycle lock
    active,       \* the stub's _active_cleanup
    fenced,       \* the stub's _cleanup_started
    done,         \* _MountResult._cleanup is None
    call,         \* each caller of the cleanup
    orphans,      \* history: attempts cancelled while their thread was building
    cancels

threads == <<thread, backend, closes>>
names == <<computer, desktop, stub>>
custody == <<result, lifecycle, active, fenced, done>>
vars == <<pc, threads, tool, names, custody, call, orphans, cancels>>

Fresh == [held |-> FALSE, cleanup |-> FALSE, closed |-> FALSE]

Init ==
    /\ pc = [b \in Builds |-> "idle"]
    /\ thread = [b \in Builds |-> "none"]
    /\ backend = [b \in Builds |-> "none"] /\ closes = [b \in Builds |-> 0]
    /\ tool = [b \in Builds |-> Fresh]
    /\ computer = None /\ desktop = None /\ stub = FALSE
    /\ result = "none" /\ lifecycle = None /\ active = None /\ fenced = FALSE /\ done = FALSE
    /\ call = [k \in Callers |-> "no"]
    /\ orphans = {} /\ cancels = 0

Goto(b, place) == pc' = [pc EXCEPT ![b] = place]
Thread(b, place) == thread' = [thread EXCEPT ![b] = place]

-----------------------------------------------------------------------------
(* _select_and_build, in its thread. *)

\* Mutant: an activation is not refused because of an earlier one.
BeginAgain(b) ==
    /\ pc[b] = "idle"
    /\ \/ b = First /\ result = "none" /\ UNCHANGED lifecycle
       \/ b # First /\ stub /\ lifecycle = None /\ lifecycle' = b
    /\ IF b # First /\ fenced
       THEN Goto(b, "refused") /\ UNCHANGED thread
       ELSE Goto(b, "building") /\ Thread(b, "selecting")
    /\ UNCHANGED <<backend, closes, tool, names, result, active, fenced, done, call, orphans, cancels>>

\* mount, and the stub's _activate under its lock.
Begin(b) ==
    /\ pc[b] = "idle"
    /\ \/ b = First /\ result = "none" /\ UNCHANGED lifecycle
       \/ b # First /\ stub /\ lifecycle = None /\ lifecycle' = b
    /\ IF b # First /\ (fenced \/ active # None)
       THEN Goto(b, "refused") /\ UNCHANGED thread
       ELSE Goto(b, "building") /\ Thread(b, "selecting")
    /\ UNCHANGED <<backend, closes, tool, names, result, active, fenced, done, call, orphans, cancels>>

\* select_backend: a backend, or no platform, a bad target, an unreachable one.
Select(b) ==
    /\ thread[b] = "selecting"
    /\ \/ /\ backend' = [backend EXCEPT ![b] = "open"]
          /\ Thread(b, "building")
       \/ Thread(b, "gone") /\ UNCHANGED backend
    /\ UNCHANGED <<pc, closes, tool, names, custody, call, orphans, cancels>>

\* Mutant: a failed build leaves its backend to the garbage collector.
BuildKeeps(b) ==
    /\ thread[b] = "building"
    /\ \/ Thread(b, "ready") \/ Thread(b, "gone")
    /\ UNCHANGED <<pc, backend, closes, tool, names, custody, call, orphans, cancels>>

\* The display, the guard and the disclosure to a human who is already there;
\* a failed build closes what it has opened.
Build(b) ==
    /\ thread[b] = "building"
    /\ \/ Thread(b, "ready") /\ UNCHANGED <<backend, closes>>
       \/ /\ Thread(b, "gone")
          /\ backend' = [backend EXCEPT ![b] = "closed"]
          /\ closes' = [closes EXCEPT ![b] = @ + 1]
    /\ UNCHANGED <<pc, tool, names, custody, call, orphans, cancels>>

Built(b) ==
    /\ pc[b] = "building" /\ thread[b] \in {"ready", "gone"}
    /\ Goto(b, IF thread[b] = "ready" THEN "computer" ELSE "failed")
    /\ UNCHANGED <<threads, tool, names, custody, call, orphans, cancels>>

-----------------------------------------------------------------------------
\* Mutant: what was closed is only known after the close.
CloseBindingLate(b) ==
    IF tool[b].held \/ backend[b] = "closed"
    THEN UNCHANGED <<tool, backend, closes>>
    ELSE \E outcome \in {"closed", "unknown"} :
           /\ tool' = [tool EXCEPT ![b] = [@ EXCEPT !.cleanup = TRUE, !.closed = (outcome = "closed")]]
           /\ closes' = [closes EXCEPT ![b] = @ + 1]
           /\ backend' = [backend EXCEPT ![b] = outcome]

(* close_current_binding, in a thread of its own: one transaction under the
   tool's lock. *)
CloseBinding(b) ==
    IF tool[b].closed \/ tool[b].held
    THEN UNCHANGED <<tool, backend, closes>>
    ELSE /\ tool' = [tool EXCEPT ![b] = [@ EXCEPT !.cleanup = TRUE, !.closed = TRUE]]
         /\ closes' = [closes EXCEPT ![b] = @ + 1]
         /\ \E outcome \in {"closed", "unknown"} : backend' = [backend EXCEPT ![b] = outcome]

\* It raises when input is held, and again and again after a failed close.
CloseRaises(b) == tool'[b].held \/ backend'[b] = "unknown"

\* The two registrations of _mount_backend; either may raise.
MountComputer(b) ==
    /\ pc[b] = "computer"
    /\ \/ computer' = b /\ Goto(b, "desktop")
       \/ Goto(b, "undo") /\ UNCHANGED computer
    /\ UNCHANGED <<threads, tool, desktop, stub, custody, call, orphans, cancels>>

MountDesktop(b) ==
    /\ pc[b] = "desktop"
    /\ \/ desktop' = b /\ Goto(b, "mounted")
       \/ Goto(b, "undo") /\ UNCHANGED desktop
    /\ UNCHANGED <<threads, tool, computer, stub, custody, call, orphans, cancels>>

Undo(b) ==
    /\ pc[b] = "undo"
    /\ CloseBinding(b)
    /\ Goto(b, "failed")
    /\ UNCHANGED <<thread, names, custody, call, orphans, cancels>>

\* What mount returns: the tools, or a stub in their place for the failures it
\* knows.  Any other exception goes to the core, which gets no cleanup then.
MountReturns ==
    /\ \/ /\ pc[First] = "mounted" /\ result' = "tools" /\ UNCHANGED stub
       \/ /\ pc[First] = "failed" /\ result' = "stub" /\ stub' = TRUE
       \/ /\ pc[First] \in {"failed", "cancelled"} /\ result' = "raised" /\ UNCHANGED stub
    /\ Goto(First, "returned")
    /\ UNCHANGED <<threads, tool, computer, desktop, lifecycle, active, fenced, done, call, orphans, cancels>>

\* A second activation is refused, a failed one leaves the stub, a successful one
\* hands its cleanup to the stub's and then takes the stub's name away.
ActivateTakes(b) ==
    /\ b # First /\ pc[b] = "mounted"
    /\ active' = b
    /\ Goto(b, "tidy")
    /\ UNCHANGED <<threads, tool, names, result, lifecycle, fenced, done, call, orphans, cancels>>

\* Mutant: the lock of a cancelled activation is not released.
ActivateKeepsLock(b) ==
    /\ b # First /\ pc[b] \in {"tidy", "refused", "failed", "cancelled"}
    /\ stub' \in IF pc[b] = "tidy" THEN {FALSE, stub} ELSE {stub}
    /\ lifecycle' = IF pc[b] = "cancelled" THEN lifecycle ELSE None
    /\ Goto(b, "returned")
    /\ UNCHANGED <<threads, tool, computer, desktop, result, active, fenced, done, call, orphans, cancels>>

ActivateReturns(b) ==
    /\ b # First /\ pc[b] \in {"tidy", "refused", "failed", "cancelled"}
    /\ stub' \in IF pc[b] = "tidy" THEN {FALSE, stub} ELSE {stub}
    /\ lifecycle' = None
    /\ Goto(b, "returned")
    /\ UNCHANGED <<threads, tool, computer, desktop, result, active, fenced, done, call, orphans, cancels>>

\* A cancellation reaches the coroutine at its await.  One that waits for the
\* builder thread simply leaves; one that registers undoes its work.
Cancel(b) ==
    /\ cancels < MaxCancels /\ pc[b] \in {"building", "computer", "desktop", "tidy"}
    /\ cancels' = cancels + 1
    /\ Goto(b, CASE pc[b] = "building" -> "cancelled"
                 [] pc[b] = "tidy" -> "cancelled"
                 [] OTHER -> "undo")
    /\ orphans' = IF pc[b] = "building" THEN orphans \cup {b} ELSE orphans
    /\ UNCHANGED <<threads, tool, names, custody, call>>

-----------------------------------------------------------------------------
(* The tools in use, as far as cleanup can tell. *)

\* A press leaves _mouse_pending, a release clears it; nobody knows of a tool that
\* is still being registered, and one whose cleanup has started takes no input.
Press(b) ==
    /\ computer = b /\ pc[b] \in {"tidy", "returned"}
    /\ ~tool[b].cleanup /\ ~tool[b].held
    /\ tool' = [tool EXCEPT ![b].held = TRUE]
    /\ UNCHANGED <<pc, threads, names, custody, call, orphans, cancels>>

ReleaseHeld(b) ==
    /\ tool[b].held
    /\ tool' = [tool EXCEPT ![b].held = FALSE]
    /\ UNCHANGED <<pc, threads, names, custody, call, orphans, cancels>>

(* The cleanup: _MountResult.__call__, and the stub's under its own lock. *)
CallCleanup(k) ==
    /\ call[k] \in {"no", "raised"} /\ result \in {"tools", "stub"}
    /\ call' = [call EXCEPT ![k] = "waiting"]
    /\ UNCHANGED <<pc, threads, tool, names, custody, orphans, cancels>>

InCleanup == {k \in Callers : call[k] \in {"inside", "closing"}}

\* One caller at a time; after a success there is nothing left to do.
CleanupEnters(k) ==
    /\ call[k] = "waiting" /\ InCleanup = {}
    /\ call' = [call EXCEPT ![k] = IF done THEN "ok" ELSE "inside"]
    /\ UNCHANGED <<pc, threads, tool, names, custody, orphans, cancels>>

\* Mutant: the stub's cleanup only looks at what is active.
FenceNothing(k) ==
    /\ call[k] = "inside"
    /\ result = "stub" => lifecycle = None
    /\ lifecycle' = IF result = "stub" THEN k ELSE lifecycle
    /\ call' = [call EXCEPT ![k] = "closing"]
    /\ UNCHANGED <<pc, threads, tool, names, result, active, fenced, done, orphans, cancels>>

\* The stub waits for an activation that is under way and then fences it.
Fence(k) ==
    /\ call[k] = "inside"
    /\ result = "stub" => lifecycle = None
    /\ fenced' = (result = "stub")
    /\ lifecycle' = IF result = "stub" THEN k ELSE lifecycle
    /\ call' = [call EXCEPT ![k] = "closing"]
    /\ UNCHANGED <<pc, threads, tool, names, result, active, done, orphans, cancels>>

Custodian == IF result = "tools" THEN First ELSE active

CleanupCloses(k) ==
    /\ call[k] = "closing"
    /\ IF Custodian = None THEN UNCHANGED <<tool, backend, closes>> ELSE CloseBinding(Custodian)
    /\ IF Custodian # None /\ CloseRaises(Custodian)
       THEN call' = [call EXCEPT ![k] = "raised"] /\ UNCHANGED done
       ELSE call' = [call EXCEPT ![k] = "ok"] /\ done' = TRUE
    /\ lifecycle' = IF lifecycle = k THEN None ELSE lifecycle
    /\ UNCHANGED <<pc, thread, names, result, active, fenced, orphans, cancels>>

Builder(b) == Select(b) \/ Build(b)
Coroutine(b) ==
    \/ Built(b) \/ MountComputer(b) \/ MountDesktop(b) \/ Undo(b)
    \/ ActivateTakes(b) \/ ActivateReturns(b)
Cleaning(k) == CleanupEnters(k) \/ Fence(k) \/ CleanupCloses(k)

Next ==
    \/ \E b \in Builds : Begin(b) \/ Builder(b) \/ Coroutine(b) \/ Cancel(b) \/ Press(b) \/ ReleaseHeld(b)
    \/ MountReturns
    \/ \E k \in Callers : CallCleanup(k) \/ Cleaning(k)

\* Threads end and the event loop serves everyone whose await is over; it wakes
\* the waiters of a lock in turn.
Fairness ==
    /\ \A b \in Builds : WF_vars(Builder(b)) /\ WF_vars(Coroutine(b))
    /\ WF_vars(MountReturns)
    /\ \A k \in Callers : WF_vars(CleanupCloses(k)) /\ SF_vars(CleanupEnters(k)) /\ SF_vars(Fence(k))

Spec == Init /\ [][Next]_vars /\ Fairness

-----------------------------------------------------------------------------
\* Every variable has its type; in particular a backend is closed at most once,
\* whoever calls the cleanup and however often: a close that failed, or whose
\* outcome is unknown, is not sent again.
TypeOK ==
    /\ pc \in [Builds -> {"idle", "building", "computer", "desktop", "undo", "mounted", "tidy",
                          "refused", "failed", "cancelled", "returned"}]
    /\ thread \in [Builds -> {"none", "selecting", "building", "ready", "gone"}]
    /\ backend \in [Builds -> {"none", "open", "closed", "unknown"}]
    /\ closes \in [Builds -> 0 .. 1]
    /\ tool \in [Builds -> [held : BOOLEAN, cleanup : BOOLEAN, closed : BOOLEAN]]
    /\ {computer, desktop, active} \subseteq Builds \cup {None}
    /\ stub \in BOOLEAN /\ fenced \in BOOLEAN /\ done \in BOOLEAN
    /\ result \in {"none", "tools", "stub", "raised"}
    /\ lifecycle \in Builds \cup Callers \cup {None}
    /\ call \in [Callers -> {"no", "waiting", "inside", "closing", "ok", "raised"}]
    /\ orphans \subseteq Builds /\ cancels \in 0 .. MaxCancels

\* Someone will close it: its thread or its coroutine is still at work, or the
\* cleanup that the core holds leads to it.
Owned(b) ==
    \/ thread[b] = "building"
    \/ pc[b] \in {"building", "computer", "desktop", "undo", "mounted"}
    \/ result = "tools" /\ b = First
    \/ b = active

\* "A failed build always releases its own backend reference": an open backend
\* has an owner, unless its session was cancelled while the thread built it.
OpenIsOwned ==
    \A b \in Builds : backend[b] = "open" => Owned(b) \/ b \in orphans

\* When the cleanup has returned, nothing it stands for is open, and nothing will
\* be: no activation is at work or can still build.
CleanIsFinal ==
    done => \A b \in Builds \ orphans :
              /\ Owned(b) => backend[b] \in {"none", "closed"}
              /\ thread[b] \notin {"selecting", "building"}

\* Two activations never both hold a backend.
OneOwnedBackend ==
    \A b, c \in Builds \ orphans :
        backend[b] = "open" /\ Owned(b) /\ backend[c] = "open" /\ Owned(c) => b = c

\* "Cleanup waits for build+mount+custody transfer, or fences activation first":
\* after it, no backend of this session is open.  (Broken by a cancelled mount.)
NothingOpenAfterCleanup ==
    done => \A b \in Builds : backend[b] # "open" /\ thread[b] \notin {"selecting", "building"}

\* A cleanup that waits gets its answer, even behind an activation that builds.
CleanupAnswers ==
    \A k \in Callers : call[k] \in {"waiting", "inside", "closing"} ~> call[k] \in {"ok", "raised"}

\* Custody: at any moment there is at most one backend this session will use, and
\* every open one is somebody's to close, once.
Custody == TypeOK /\ OpenIsOwned /\ OneOwnedBackend
=============================================================================
