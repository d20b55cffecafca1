-------------------------------- MODULE Session --------------------------------
(***************************************************************************)
(* The calls of one session: computer.execute with a v1 batch (Batches) or *)
(* one flat action (Flats), desktop.execute (Desktops), desktop retarget   *)
(* and the cleanup of the mount.  Each call is a coroutine (pc) and the    *)
(* worker thread it waits for (job).  _announce_lock serialises what the   *)
(* threads do; everything the event loop reads, it reads without the lock. *)
(* A cancellation reaches a coroutine at any await and leaves its worker   *)
(* running.  A binding object is named by its contents: replacing it       *)
(* always changes one of them.                                             *)
(***************************************************************************)
EXTENDS Integers, Sequences, FiniteSets

CONSTANTS
    None,
    Batches, Flats, Desktops,
    Script,         \* the steps of each call, [kind, times]
    Targets, Home,  \* machines, and the one mounted first
    Banded,         \* those whose disclosure is an overlay raised by this process
    Policy,         \* the policy the configuration gives each target
    MaxRetargets, MaxCancels   \* bounds: attempts and cancellations

Calls == Batches \cup Flats \cup Desktops
Kinds == {"tap", "down", "up", "look", "refresh", "final"}
Writes == {"tap", "down", "up"}

ASSUME CallsAssumption ==
    /\ IsFiniteSet(Calls)
    /\ None \notin Calls \cup Targets
    /\ Batches \cap Flats = {} /\ Batches \cap Desktops = {} /\ Flats \cap Desktops = {}
    /\ Script \in [Calls -> Seq([kind : Kinds, times : Nat \ {0}])]
    /\ "retarget" \notin Calls \cup {None}
\* Only a key action is repeated, and the capture after a batch is its last step.
ASSUME ScriptAssumption ==
    \A c \in Calls : \A i \in DOMAIN Script[c] :
        /\ Script[c][i].kind \notin Writes => Script[c][i].times = 1
        /\ Script[c][i].kind = "final" => i = Len(Script[c])
ASSUME TargetsAssumption ==
    /\ Home \in Targets /\ Banded \subseteq Targets
    /\ Policy \in [Targets -> {"open", "gated", "readonly"}]
    /\ MaxRetargets \in Nat /\ MaxCancels \in Nat

VARIABLES
    binding,   \* self._binding
    open,      \* backends of this session that are not closed
    told,      \* targets whose human was told or asked and did not refuse
    held,      \* a button in _mouse_pending, pressed on the current backend
    cleaned,   \* _cleanup_started
    approval,  \* _write_approval
    lock,      \* who holds _announce_lock
    rt,        \* the retarget that holds it: phase, target, new backend
    depth,     \* band_state.depth of each target
    pc, job,   \* coroutine and worker of each call
    pin, ok,   \* the binding and the approval a call has pinned
    prog,      \* steps done, the step it is at and the presses done of it
    flight,    \* the record shared by the coroutine and its worker
    token,     \* the target whose depth a call has raised
    late,      \* state["cancelled"] of _acquire_batch_band
    exiting,   \* a _band_exit was submitted and has not run
    landed, stray,   \* history: presses that landed; a failed one that did
    report,    \* the progress a batch has returned
    cancels, tries   \* counters for the bounds

shared == <<binding, open, told, held, cleaned, approval, lock, rt, tries>>
own == <<pin, ok, prog, flight, landed, stray, report>>
band == <<depth, token, late, exiting>>
vars == <<shared, own, band, pc, job, cancels>>

Idle == [running |-> FALSE, outcome |-> FALSE, cancelled |-> FALSE, deferred |-> FALSE]
NoRetarget == [phase |-> "none", target |-> None, gen |-> 0]

Init ==
    /\ binding = [gen |-> 1, target |-> Home, ver |-> 0, said |-> "no"]
    /\ open = {1} /\ told = {} /\ held = FALSE /\ cleaned = FALSE
    /\ approval = "first" /\ lock = None /\ rt = NoRetarget
    /\ depth = [t \in Targets |-> 0]
    /\ pc = [c \in Calls |-> "new"] /\ job = [c \in Calls |-> "idle"]
    /\ pin = [c \in Calls |-> binding] /\ ok = [c \in Calls |-> None]
    /\ prog = [c \in Calls |-> [done |-> 0, at |-> 1, press |-> 0]]
    /\ flight = [c \in Calls |-> Idle]
    /\ token = [c \in Calls |-> None]
    /\ late = [c \in Calls |-> FALSE] /\ exiting = [c \in Calls |-> FALSE]
    /\ landed = [c \in Calls |-> 0] /\ stray = [c \in Calls |-> FALSE]
    /\ report = [c \in Calls |-> None]
    /\ cancels = 0 /\ tries = 0

Goto(c, label) == pc' = [pc EXCEPT ![c] = label]
Worker(c, state) == job' = [job EXCEPT ![c] = state]
Mutating(c) == \E i \in DOMAIN Script[c] : Script[c][i].kind \in Writes
Step(c) == Script[c][prog[c].at]

\* _disclosed_binding: only the first disclosure may have changed the binding.
Disclosed(c) ==
    \/ binding = pin[c]
    \/ binding.said = "yes" /\ binding = [pin[c] EXCEPT !.said = "yes"]

\* The progress of a batch, as _batch_result reports it.
Reported(c, done, press, uncertain) ==
    report' = [report EXCEPT ![c] =
        IF c \in Batches THEN [done |-> done, press |-> press, uncertain |-> uncertain]
        ELSE None]

EndEarly(c) ==
    /\ Goto(c, "ended")
    /\ Reported(c, 0, 0, FALSE)

-----------------------------------------------------------------------------
\* execute up to the disclosure: the approval is the only await.
Start(c) ==
    /\ pc[c] = "new"
    /\ UNCHANGED <<shared, band, prog, flight, landed, stray, cancels>>
    /\ pin' = [pin EXCEPT ![c] = binding]
    /\ LET policy == Policy[binding.target] IN
       \/ /\ \/ cleaned
             \/ Mutating(c) /\ policy = "readonly"
             \/ Mutating(c) /\ policy = "gated" /\ approval = None
          /\ EndEarly(c) /\ UNCHANGED <<job, ok>>
       \/ /\ ~cleaned /\ Mutating(c) /\ policy = "gated" /\ approval # None
          /\ ok' = [ok EXCEPT ![c] = approval]
          /\ Goto(c, "approve") /\ UNCHANGED <<job, report>>
       \/ /\ ~cleaned /\ (Mutating(c) => policy = "open")
          /\ Goto(c, "announce") /\ Worker(c, "announce")
          /\ UNCHANGED <<ok, report>>

Approve(c) ==
    /\ pc[c] = "approve"
    /\ UNCHANGED <<shared, band, ok, prog, flight, landed, stray, cancels>>
    /\ \/ /\ EndEarly(c) /\ UNCHANGED <<job, pin>>
       \/ /\ approval = ok[c] /\ Disclosed(c)
          /\ pin' = [pin EXCEPT ![c] = binding]
          /\ Goto(c, "announce") /\ Worker(c, "announce")
          /\ UNCHANGED report

\* The second mount of a hook installs its own callback.
ReplaceApproval ==
    /\ approval = "first"
    /\ approval' = "second"
    /\ UNCHANGED <<binding, open, told, held, cleaned, lock, rt, tries, own, band, pc, job, cancels>>

\* _ensure_announced: what it finds decided needs no lock.
TellFast(c) ==
    /\ job[c] = "announce"
    /\ Worker(c, IF cleaned \/ binding.said = "refused" THEN "turned" ELSE "told")
    /\ cleaned \/ binding.said # "no"
    /\ UNCHANGED <<shared, own, band, pc, cancels>>

TellStart(c) ==
    /\ job[c] = "announce" /\ lock = None
    /\ ~cleaned /\ binding.said = "no"
    /\ lock' = c
    /\ Worker(c, "building")
    /\ UNCHANGED <<binding, open, told, held, cleaned, approval, rt, tries, own, band, pc, cancels>>

\* _build_announcement returns or refuses; a refusal closes the backend.
TellEnd(c) ==
    /\ job[c] = "building"
    /\ lock' = None
    /\ \/ /\ told' = told \cup {binding.target}
          /\ binding' = [binding EXCEPT !.said = "yes"]
          /\ Worker(c, "told") /\ UNCHANGED open
       \/ /\ binding' = [binding EXCEPT !.said = "refused"]
          /\ open' = open \ {binding.gen}
          /\ Worker(c, "turned") /\ UNCHANGED told
    /\ UNCHANGED <<held, cleaned, approval, rt, tries, own, band, pc, cancels>>

AfterTold(c) ==
    /\ pc[c] = "announce" /\ job[c] \in {"told", "turned"}
    /\ UNCHANGED <<shared, band, ok, prog, flight, landed, stray, cancels>>
    /\ IF job[c] = "told" /\ Disclosed(c)
       THEN /\ pin' = [pin EXCEPT ![c] = binding]
            /\ Goto(c, "band") /\ Worker(c, "band") /\ UNCHANGED report
       ELSE EndEarly(c) /\ Worker(c, "idle") /\ UNCHANGED pin

\* _band_enter of the binding that is current, not of the pinned one.  A band that
\* cannot be raised again gives the depth back and may refuse the call.
BandEnter(c) ==
    /\ job[c] = "band" /\ lock = None
    /\ \E raises \in BOOLEAN :
         LET t == binding.target
             bare == ~cleaned /\ t \notin Banded
         IN  /\ raises => ~cleaned /\ t \in Banded
             /\ depth' = IF raises THEN [depth EXCEPT ![t] = @ + 1] ELSE depth
             /\ token' = IF raises THEN [token EXCEPT ![c] = t] ELSE token
             /\ exiting' = [exiting EXCEPT ![c] = raises /\ late[c]]
             /\ Worker(c, IF late[c] THEN "idle"
                          ELSE IF raises \/ bare THEN "entered" ELSE "turned")
    /\ UNCHANGED <<shared, own, late, pc, cancels>>

AfterBand(c) ==
    /\ pc[c] = "band" /\ job[c] \in {"entered", "turned"}
    /\ Worker(c, "idle")
    /\ UNCHANGED <<shared, band, pin, ok, prog, flight, landed, stray, cancels>>
    /\ IF job[c] = "entered" THEN Goto(c, "step") /\ UNCHANGED report ELSE EndEarly(c)

-----------------------------------------------------------------------------
\* _await_owned_step, up to its await.  The desktop tool has no flight record.
Submit(c) ==
    /\ flight' = [flight EXCEPT ![c].running = c \notin Desktops, ![c].outcome = FALSE]
    /\ Worker(c, "queued")
    /\ Goto(c, "await")

\* The coroutine leaves the loop with the result it will return.
Stop(c, p, uncertain) ==
    /\ prog' = [prog EXCEPT ![c] = p]
    /\ Reported(c, p.done, p.press, uncertain)
    /\ Goto(c, "finally")

StepStart(c) ==
    /\ pc[c] = "step"
    /\ UNCHANGED <<shared, band, pin, ok, landed, stray, cancels>>
    /\ \/ /\ prog[c].at > Len(Script[c]) \/ (c \notin Desktops /\ binding # pin[c])
          /\ Stop(c, prog[c], FALSE) /\ UNCHANGED <<job, flight>>
       \/ /\ prog[c].at <= Len(Script[c]) /\ (c \in Desktops \/ binding = pin[c])
          /\ Submit(c) /\ UNCHANGED <<prog, report>>

\* asyncio.sleep(0) between two presses of one key action.
NextPress(c) ==
    /\ pc[c] = "gap"
    /\ Submit(c)
    /\ UNCHANGED <<shared, band, pin, ok, prog, landed, stray, report, cancels>>

\* Mutant: the check that the binding is still the pinned one is dropped.
AdmittedUnpinned(c) == ~cleaned

\* _check_write, under the lock.
Admitted(c) ==
    /\ ~cleaned /\ binding = pin[c]
    /\ Step(c).kind \in Writes =>
         \/ Policy[binding.target] = "open"
         \/ Policy[binding.target] = "gated" /\ ok[c] # None /\ ok[c] = approval

WorkerEnter(c) ==
    /\ job[c] = "queued" /\ lock = None
    /\ Admitted(c) /\ ~flight[c].cancelled
    /\ lock' = c
    /\ Worker(c, "inside")
    /\ UNCHANGED <<binding, open, told, held, cleaned, approval, rt, tries, own, band, pc, cancels>>

WorkerRefused(c) ==
    /\ job[c] = "queued"
    /\ flight[c].cancelled \/ (lock = None /\ ~Admitted(c))
    /\ Worker(c, "raised")
    /\ UNCHANGED <<shared, own, band, pc, cancels>>

\* The backend call returns.  screen_info installs a fresh display.
WorkerActs(c) ==
    /\ job[c] = "inside"
    /\ LET kind == Step(c).kind IN
       /\ landed' = [landed EXCEPT ![c] = IF kind \in Writes THEN @ + 1 ELSE @]
       /\ held' = IF kind = "down" THEN TRUE ELSE IF kind = "up" THEN FALSE ELSE held
       /\ binding' = IF kind = "refresh" THEN [binding EXCEPT !.ver = @ + 1] ELSE binding
    /\ lock' = None
    /\ Worker(c, IF c \in Desktops THEN "done" ELSE "acted")
    /\ UNCHANGED <<open, told, cleaned, approval, rt, tries, band,
                   pin, ok, prog, flight, stray, report, pc, cancels>>

\* It raises, a halt included: some of its input may have landed, and the hold
\* of a button is registered before the button is pressed.
WorkerFails(c) ==
    /\ job[c] = "inside"
    /\ \E part \in BOOLEAN :
         /\ stray' = [stray EXCEPT ![c] = @ \/ (part /\ Step(c).kind \in Writes)]
         /\ held' = (held \/ (part /\ Step(c).kind = "down"))
    /\ lock' = None
    /\ Worker(c, IF c \in Desktops THEN "failed" ELSE "raised")
    /\ UNCHANGED <<binding, open, told, cleaned, approval, rt, tries, band,
                   pin, ok, prog, flight, landed, report, pc, cancels>>

WorkerOutcome(c) ==
    /\ job[c] = "acted"
    /\ flight' = [flight EXCEPT ![c].outcome = TRUE]
    /\ Worker(c, "leaving")
    /\ UNCHANGED <<shared, band, pin, ok, prog, landed, stray, report, pc, cancels>>

\* Mutant: the worker does not run the cleanup that was left to it.
WorkerForgets(c) ==
    /\ job[c] \in {"leaving", "raised"}
    /\ flight' = [flight EXCEPT ![c].running = FALSE, ![c].deferred = FALSE]
    /\ Worker(c, IF job[c] = "leaving" THEN "done" ELSE "failed")
    /\ UNCHANGED <<shared, band, pin, ok, prog, landed, stray, report, pc, cancels>>

\* The finally of _run_owned_step runs the cleanup left to it.
WorkerLeaves(c) ==
    /\ job[c] \in {"leaving", "raised"}
    /\ flight' = [flight EXCEPT ![c].running = FALSE, ![c].deferred = FALSE]
    /\ exiting' = [exiting EXCEPT ![c] = @ \/ flight[c].deferred]
    /\ Worker(c, IF job[c] = "leaving" THEN "done" ELSE "failed")
    /\ UNCHANGED <<shared, pin, ok, prog, landed, stray, report, depth, token, late, pc, cancels>>

\* One press more is known to be done.
Advanced(c) ==
    LET p == prog[c] IN
    IF p.press + 1 < Step(c).times THEN [p EXCEPT !.press = @ + 1]
    ELSE [done |-> IF Step(c).kind = "final" THEN p.done ELSE p.done + 1,
          at |-> p.at + 1, press |-> 0]

Resume(c) ==
    /\ pc[c] = "await" /\ job[c] \in {"done", "failed"}
    /\ UNCHANGED <<shared, band, pin, ok, flight, landed, stray, cancels>>
    /\ Worker(c, "idle")
    /\ \/ /\ job[c] = "failed" \/ (c \in Batches /\ binding # pin[c] /\ Advanced(c).press = 0)
          /\ IF job[c] = "failed" THEN Stop(c, prog[c], Step(c).kind # "final")
             ELSE Stop(c, Advanced(c), FALSE)
       \/ /\ job[c] = "done" /\ (c \in Batches => binding = pin[c] \/ Advanced(c).press > 0)
          /\ prog' = [prog EXCEPT ![c] = Advanced(c)]
          /\ Goto(c, IF Advanced(c).press > 0 THEN "gap" ELSE "step")
          /\ UNCHANGED report

\* The finally of execute: a worker that still runs takes the band over.
Finally(c) ==
    /\ pc[c] = "finally"
    /\ UNCHANGED <<shared, own, depth, token, late, job, cancels>>
    /\ IF token[c] = None THEN Goto(c, "ended") /\ UNCHANGED exiting
       ELSE exiting' = [exiting EXCEPT ![c] = TRUE] /\ Goto(c, "exit")

\* Mutant: a cancelled call lowers the band under its running worker.
FinallyAtOnce(c) ==
    /\ pc[c] = "finally" /\ flight[c].running
    /\ exiting' = [exiting EXCEPT ![c] = token[c] # None]
    /\ Goto(c, "ended")
    /\ UNCHANGED <<shared, own, depth, token, late, job, cancels>>

FinallyDeferred(c) ==
    /\ pc[c] = "finally" /\ flight[c].running
    /\ flight' = [flight EXCEPT ![c].deferred = token[c] # None]
    /\ Goto(c, "ended")
    /\ UNCHANGED <<shared, band, pin, ok, prog, landed, stray, report, job, cancels>>

\* Mutant: the token is not used up.
BandExitsTwice(c) ==
    /\ exiting[c]
    /\ depth' = [depth EXCEPT ![token[c]] = @ - 1]
    /\ UNCHANGED <<shared, own, exiting, token, late, pc, job, cancels>>

\* The part of _band_exit that gives the depth back.
BandExits(c) ==
    /\ exiting[c]
    /\ depth' = [depth EXCEPT ![token[c]] = @ - 1]
    /\ token' = [token EXCEPT ![c] = None]
    /\ exiting' = [exiting EXCEPT ![c] = FALSE]
    /\ UNCHANGED <<shared, own, late, pc, job, cancels>>

Exited(c) ==
    /\ pc[c] = "exit" /\ ~exiting[c]
    /\ Goto(c, "ended")
    /\ UNCHANGED <<shared, own, band, job, cancels>>

-----------------------------------------------------------------------------
\* CancelledError at an await.  A thread nobody waits for goes on.
CancelEarly(c) ==
    /\ pc[c] \in {"approve", "announce"}
    /\ EndEarly(c)
    /\ UNCHANGED <<shared, band, pin, ok, prog, flight, landed, stray, job>>

\* Mutant: _band_enter is awaited as the desktop tool awaits it.
CancelBandLoosely(c) ==
    /\ pc[c] = "band"
    /\ EndEarly(c)
    /\ UNCHANGED <<shared, band, pin, ok, prog, flight, landed, stray, job>>

\* _acquire_batch_band gives even a late token back; the desktop tool awaits
\* _band_enter in to_thread and keeps no record of it.
CancelBand(c) ==
    /\ pc[c] = "band"
    /\ Reported(c, 0, 0, FALSE)
    /\ UNCHANGED <<shared, pin, ok, prog, flight, landed, stray, depth, token>>
    /\ IF c \in Desktops
       THEN Goto(c, "ended") /\ UNCHANGED <<late, exiting, job>>
       ELSE /\ late' = [late EXCEPT ![c] = TRUE]
            /\ exiting' = [exiting EXCEPT ![c] = token[c] # None]
            /\ job' = [job EXCEPT ![c] = IF @ = "band" THEN @ ELSE "idle"]
            /\ Goto(c, IF token[c] # None THEN "exit" ELSE "ended")

\* Mutant: what the worker had finished is not looked at.
CancelStepBlindly(c) ==
    /\ pc[c] = "await"
    /\ Stop(c, prog[c], FALSE)
    /\ flight' = [flight EXCEPT ![c].cancelled = c \notin Desktops]
    /\ UNCHANGED <<shared, band, pin, ok, landed, stray, job>>

\* _await_owned_step sets the flag; a step that has its outcome is counted.
CancelStep(c) ==
    /\ pc[c] = "await"
    /\ LET p == IF flight[c].outcome THEN Advanced(c) ELSE prog[c] IN
       Stop(c, p, flight[c].running /\ ~flight[c].outcome /\ Step(c).kind # "final")
    /\ flight' = [flight EXCEPT ![c].cancelled = c \notin Desktops]
    /\ UNCHANGED <<shared, band, pin, ok, landed, stray, job>>

\* The step of a desktop call may also be dropped by the executor's queue.
CancelQueued(c) ==
    /\ pc[c] = "await" /\ c \in Desktops /\ job[c] = "queued"
    /\ Worker(c, "idle")
    /\ Stop(c, prog[c], FALSE)
    /\ UNCHANGED <<shared, band, pin, ok, flight, landed, stray>>

CancelGap(c) ==
    /\ pc[c] = "gap"
    /\ Stop(c, prog[c], FALSE)
    /\ UNCHANGED <<shared, band, pin, ok, flight, landed, stray, job>>

CancelExit(c) ==
    /\ pc[c] = "exit"
    /\ Goto(c, "ended")
    /\ UNCHANGED <<shared, own, band, job>>

Cancel(c) ==
    /\ cancels < MaxCancels
    /\ cancels' = cancels + 1
    /\ \/ CancelEarly(c) \/ CancelBand(c) \/ CancelStep(c)
       \/ CancelQueued(c) \/ CancelGap(c) \/ CancelExit(c)

-----------------------------------------------------------------------------
\* retarget: refuse if busy, then build everything off to the side.
RetargetStart ==
    /\ tries < MaxRetargets /\ lock = None /\ ~cleaned
    /\ depth[binding.target] = 0 /\ ~held
    /\ tries' = tries + 1
    /\ \E t \in Targets : rt' = [phase |-> "built", target |-> t, gen |-> 1 + tries']
    /\ open' = open \cup {rt'.gen}
    /\ lock' = "retarget"
    /\ UNCHANGED <<binding, told, held, cleaned, approval, own, band, pc, job, cancels>>

\* Mutant: a retarget that gives up keeps the connection it opened.
RetargetLeaks ==
    /\ rt.phase = "built"
    /\ rt' = NoRetarget /\ lock' = None
    /\ UNCHANGED <<binding, open, told, held, cleaned, approval, tries, own, band, pc, job, cancels>>

\* The same channel, a refusal of the guard or of the disclosure, or an error.
RetargetGivesUp ==
    /\ rt.phase = "built"
    /\ open' = open \ {rt.gen}
    /\ rt' = NoRetarget /\ lock' = None
    /\ UNCHANGED <<binding, told, held, cleaned, approval, tries, own, band, pc, job, cancels>>

RetargetSwaps ==
    /\ rt.phase = "built" /\ rt.target # binding.target
    /\ told' = told \cup {rt.target}
    /\ binding' = [gen |-> rt.gen, target |-> rt.target, ver |-> 0, said |-> "yes"]
    /\ rt' = [phase |-> "swapped", target |-> rt.target, gen |-> binding.gen]
    /\ UNCHANGED <<open, held, cleaned, approval, lock, tries, own, band, pc, job, cancels>>

RetargetReleases ==
    /\ rt.phase = "swapped"
    /\ open' = open \ {rt.gen}
    /\ rt' = NoRetarget /\ lock' = None
    /\ UNCHANGED <<binding, told, held, cleaned, approval, tries, own, band, pc, job, cancels>>

\* Mutant: the cleanup does not look at the buttons that are held.
CleanupAnyway ==
    /\ lock = None /\ ~cleaned
    /\ cleaned' = TRUE
    /\ open' = open \ {binding.gen}
    /\ UNCHANGED <<binding, told, held, approval, lock, rt, tries, own, band, pc, job, cancels>>

\* close_current_binding: refused while a press is pending.
Cleanup ==
    /\ lock = None /\ ~cleaned /\ ~held
    /\ cleaned' = TRUE
    /\ open' = open \ {binding.gen}
    /\ UNCHANGED <<binding, told, held, approval, lock, rt, tries, own, band, pc, job, cancels>>

\* The deadman of the ledger lets go of the button.
Deadman ==
    /\ held /\ held' = FALSE
    /\ UNCHANGED <<binding, open, told, cleaned, approval, lock, rt, tries, own, band, pc, job, cancels>>

Coroutine(c) ==
    \/ Start(c) \/ Approve(c) \/ AfterTold(c) \/ AfterBand(c) \/ StepStart(c)
    \/ NextPress(c) \/ Resume(c) \/ Exited(c)
    \/ FinallyDeferred(c) \/ (~flight[c].running /\ Finally(c))
Thread(c) ==
    \/ TellFast(c) \/ TellStart(c) \/ TellEnd(c) \/ BandEnter(c)
    \/ WorkerEnter(c) \/ WorkerRefused(c) \/ WorkerActs(c) \/ WorkerFails(c)
    \/ WorkerOutcome(c) \/ WorkerLeaves(c) \/ BandExits(c)
Retarget == RetargetStart \/ RetargetGivesUp \/ RetargetSwaps \/ RetargetReleases

Next ==
    \/ \E c \in Calls : Coroutine(c) \/ Thread(c) \/ Cancel(c)
    \/ Retarget \/ ReplaceApproval \/ Cleanup \/ Deadman

\* The event loop and the threads of the pool run; every answer a call waits
\* for has a timeout; nobody has to cancel, retarget or clean up.
Fairness ==
    /\ \A c \in Calls : WF_vars(Coroutine(c)) /\ WF_vars(Thread(c))
    /\ WF_vars(RetargetGivesUp \/ RetargetSwaps \/ RetargetReleases)

Spec == Init /\ [][Next]_vars /\ Fairness

-----------------------------------------------------------------------------
\* Every variable has its type.
TypeOK ==
    /\ binding \in [gen : 1 .. MaxRetargets + 1, target : Targets, ver : Nat,
                    said : {"no", "yes", "refused"}]
    /\ open \subseteq 1 .. MaxRetargets + 1 /\ told \subseteq Targets
    /\ held \in BOOLEAN /\ cleaned \in BOOLEAN
    /\ lock \in Calls \cup {None, "retarget"}
    /\ depth \in [Targets -> Nat] /\ token \in [Calls -> Targets \cup {None}]
    /\ exiting \in [Calls -> BOOLEAN] /\ late \in [Calls -> BOOLEAN]
    /\ flight \in [Calls -> [running : BOOLEAN, outcome : BOOLEAN,
                             cancelled : BOOLEAN, deferred : BOOLEAN]]

\* While a worker is in the backend, the binding it was checked against is the
\* current one: nobody swaps it, closes its backend or ends the session, and
\* the human of that machine was told.  Several threads replace the binding.
InputPinned ==
    \A c \in Calls : job[c] = "inside" =>
        /\ lock = c /\ binding = pin[c] /\ ~cleaned
        /\ binding.gen \in open /\ binding.target \in told

\* A button this session holds can still be let go: its backend is open.
HeldReachable == held => binding.gen \in open

\* The session keeps one connection: what a retarget opened and did not
\* install, and what it replaced, is closed when it returns.
OneBackend ==
    /\ open \subseteq {binding.gen, rt.gen}
    /\ rt.phase = "none" => open \subseteq {binding.gen}

\* The overlay of a machine may only come down when nobody drives it: a
\* computer call has its depth counted while its worker injects, cancelled or not.
BandCoversInput ==
    \A c \in Calls \ Desktops : job[c] = "inside" /\ binding.target \in Banded =>
        token[c] = binding.target /\ depth[binding.target] > 0

\* Somebody is still to give back what a call has raised.
Owed(c) ==
    \/ pc[c] \in {"band", "step", "await", "gap", "finally"}
    \/ exiting[c] \/ flight[c].deferred

\* The depth counts exactly the calls that raised it, and each gives it back
\* whatever is cancelled when (a count that stays up bars every later lowering).
DepthReturned ==
    /\ \A t \in Targets : depth[t] = Cardinality({c \in Calls : token[c] = t})
    /\ \A c \in Calls \ Desktops : token[c] # None => Owed(c)

\* The same for desktop calls.
DesktopDepthReturned ==
    \A c \in Desktops : token[c] # None => Owed(c)

\* Presses in the first n steps of a call.
Presses(c, n) ==
    LET sum[i \in Nat] ==
            IF i = 0 THEN 0
            ELSE (IF Script[c][i].kind \in Writes THEN Script[c][i].times ELSE 0) + sum[i - 1]
    IN  sum[n]

\* The progress a batch returns stays true for ever: what it calls completed has
\* landed, and what lands beyond that, then or later, is the one press it calls
\* uncertain.
Truthful ==
    \A c \in Batches : report[c] # None =>
        LET claimed == Presses(c, report[c].done) + report[c].press IN
        /\ claimed <= landed[c]
        /\ landed[c] <= claimed + (IF report[c].uncertain THEN 1 ELSE 0)

\* "Preserve that observed completion rather than call it uncertain or silently
\* omit its input": input that may have landed is not passed over.
NothingOmitted ==
    \A c \in Batches : report[c] # None /\ stray[c] => report[c].uncertain

\* Every call returns, and its depth is given back.
CallsEnd ==
    \A c \in Calls : []<>(pc[c] = "ended") /\ (c \notin Desktops => <>[](token[c] = None))

\* The session's connections: their types, a held button within reach, and never
\* a second backend of its own.
Connected == TypeOK /\ HeldReachable /\ OneBackend

\* The depth that keeps the band up is counted while it must be and given back once.
BandKept == BandCoversInput /\ DepthReturned
=============================================================================
