----------------------------- MODULE ObservedControl -----------------------------
(***************************************************************************)
(* Acting on what was seen: `observe' captures the screen and remembers    *)
(* it, `act' sends one click or text that was selected from such an        *)
(* observation, as an ordinary call of the computer tool.  A proof ties    *)
(* the input to the observation: its target and its pixels, looked at      *)
(* again after every wait, and until the act is over.                      *)
(***************************************************************************)
EXTENDS Naturals, Sequences, SequencesExt

CONSTANTS
    None,
    Pixels,        \* screens that differ; a revision is named by its pixels
    Calls,         \* calls of observe and act
    Remembered,    \* observations kept
    Keys,          \* bound: characters of a text
    MaxChanges,    \* bound: times that the screen changes on its own
    MaxRetargets,  \* bound: replaced bindings
    MaxCancels     \* bound: cancelled awaits

\* What a call may be answered with; until then its status is None.
Answers == {"observed", "completed", "stale", "denied", "unknown", "error", "cancelled"}

ObservedAssumption ==
    /\ {Remembered, Keys, MaxChanges, MaxRetargets, MaxCancels} \subseteq Nat
    /\ Remembered > 0 /\ Keys > 0 /\ None \notin Pixels \cup Calls \cup Answers

VARIABLES
    screen, changes,
    binding,       \* the tool's binding, by its generation
    lock,          \* the control's lock: one call at a time
    worker,        \* the worker thread that holds _announce_lock
    observations,  \* remembered: [pixels, gen, old], one per revision
    pc,            \* each call's coroutine
    job,           \* its thread, which a cancellation leaves running
    op,            \* what an act does
    base,          \* the binding its current part was given
    shot,          \* the screen an observe has captured
    proof,         \* an act's proof: [pixels, gen, old, active, checked]
    seen,          \* history: the screen was as selected since the guard let the event pass
    landed,        \* history: its events
    allowed,       \* history: events a cancelled act may have
    status, cancels

machine == <<screen, changes, binding, observations>>
control == <<lock, pc, base, status, cancels, allowed>>
acts == <<op, proof, seen, landed>>
vars == <<machine, control, acts, worker, job, shot>>

NoProof == [pixels |-> None, gen |-> 0, old |-> FALSE, active |-> FALSE, checked |-> FALSE]

Init ==
    /\ screen \in Pixels /\ changes = 0 /\ binding = 1
    /\ lock = None /\ worker = None /\ observations = <<>>
    /\ pc = [c \in Calls |-> "new"] /\ job = [c \in Calls |-> "none"]
    /\ op = [c \in Calls |-> None] /\ base = [c \in Calls |-> 0]
    /\ shot = [c \in Calls |-> None] /\ proof = [c \in Calls |-> NoProof]
    /\ seen = [c \in Calls |-> FALSE] /\ landed = [c \in Calls |-> 0]
    /\ allowed = [c \in Calls |-> 0]
    /\ status = [c \in Calls |-> None] /\ cancels = 0

Job(c, place) == job' = [job EXCEPT ![c] = place]

\* The coroutine ends with an answer, its proof is revoked and the lock is free.
Ends(c, answer) ==
    /\ pc' = [pc EXCEPT ![c] = "ended"] /\ status' = [status EXCEPT ![c] = answer]
    /\ proof' = [proof EXCEPT ![c].active = FALSE]
    /\ lock' = None

-----------------------------------------------------------------------------
(* The machine and the rest of the session. *)

Looks(now) ==
    [c \in Calls |-> seen[c] \/ (job[c] \in {"look", "compare"} /\ now = proof[c].pixels)]

ScreenChanges ==
    /\ changes < MaxChanges /\ changes' = changes + 1
    /\ screen' \in Pixels \ {screen}
    /\ seen' = Looks(screen')
    /\ UNCHANGED <<binding, observations, control, op, proof, landed, worker, job, shot>>

\* More than fifteen seconds pass; a proof that was found valid does not expire.
Expire ==
    /\ observations' = [i \in DOMAIN observations |-> [observations[i] EXCEPT !.old = TRUE]]
    /\ proof' = [c \in Calls |-> [proof[c] EXCEPT !.old = ~proof[c].checked]]
    /\ UNCHANGED <<screen, changes, binding, control, op, seen, landed, worker, job, shot>>

\* A retarget or another change of policy; it needs _announce_lock.
ReplaceBinding ==
    /\ worker = None /\ binding <= MaxRetargets
    /\ binding' = binding + 1
    /\ UNCHANGED <<screen, changes, observations, control, acts, worker, job, shot>>

-----------------------------------------------------------------------------
(* observe *)

Observe(c) ==
    /\ pc[c] = "new" /\ lock = None
    /\ lock' = c /\ pc' = [pc EXCEPT ![c] = "disclosing"]
    /\ UNCHANGED <<machine, base, status, cancels, allowed, acts, worker, job, shot>>

\* The disclosure may be refused; the binding is read after it.
Disclosed(c) ==
    /\ pc[c] = "disclosing"
    /\ \/ Ends(c, "error") /\ UNCHANGED <<base, job>>
       \/ /\ pc' = [pc EXCEPT ![c] = "observing"] /\ Job(c, "capture")
          /\ base' = [base EXCEPT ![c] = binding]
          /\ UNCHANGED <<lock, status, proof>>
    /\ UNCHANGED <<machine, cancels, allowed, op, seen, landed, worker, shot>>

Capture(c) ==
    /\ job[c] = "capture"
    /\ IF binding = base[c]
       THEN Job(c, "reading") /\ shot' = [shot EXCEPT ![c] = screen]
       ELSE Job(c, "stale") /\ UNCHANGED shot
    /\ UNCHANGED <<machine, control, acts, worker>>

\* A dict keyed by revision: a revision that is known keeps its place.
Remember(known, new) ==
    LET old == {i \in DOMAIN known : known[i].pixels = new.pixels} IN
    IF old # {} THEN [i \in DOMAIN known |-> IF i \in old THEN new ELSE known[i]]
    ELSE IF Len(known) < Remembered THEN Append(known, new) ELSE Append(Tail(known), new)

\* The text is recognised, which may fail, and the observation remembered.
Store(c) ==
    /\ job[c] = "reading"
    /\ \/ Job(c, "failed") /\ UNCHANGED observations
       \/ /\ Job(c, "done")
          /\ observations' = Remember(observations, [pixels |-> shot[c], gen |-> base[c], old |-> FALSE])
    /\ UNCHANGED <<screen, changes, binding, control, acts, worker, shot>>

ObserveReturns(c) ==
    /\ pc[c] = "observing" /\ job[c] \in {"done", "stale", "failed"}
    /\ Ends(c, CASE job[c] = "done" -> "observed" [] job[c] = "stale" -> "stale" [] OTHER -> "error")
    /\ UNCHANGED <<machine, base, cancels, allowed, op, seen, landed, worker, job, shot>>

-----------------------------------------------------------------------------
(* act *)

\* A candidate of an observation that is still remembered.
Act(c) ==
    /\ pc[c] = "new" /\ lock = None
    /\ \E i \in DOMAIN observations, o \in {"click", "type"} :
         /\ op' = [op EXCEPT ![c] = o]
         /\ proof' = [proof EXCEPT ![c] =
                [pixels |-> observations[i].pixels, gen |-> observations[i].gen,
                 old |-> observations[i].old, active |-> TRUE, checked |-> FALSE]]
    /\ lock' = c /\ pc' = [pc EXCEPT ![c] = "validating"] /\ Job(c, "validate")
    /\ base' = [base EXCEPT ![c] = binding]
    /\ UNCHANGED <<machine, status, cancels, allowed, seen, landed, worker, shot>>

\* A revision or a candidate that was never observed, or is forgotten.
ActUnknown(c) ==
    /\ pc[c] = "new" /\ lock = None
    /\ pc' = [pc EXCEPT ![c] = "ended"] /\ status' = [status EXCEPT ![c] = "stale"]
    /\ UNCHANGED <<machine, lock, base, cancels, allowed, acts, worker, job, shot>>

Authority(c) == proof[c].active /\ base[c] = proof[c].gen /\ binding = proof[c].gen

\* The first half of a validation: the authority, and the age of what was not yet
\* found valid.
Current(c) == Authority(c) /\ (proof[c].checked \/ ~proof[c].old)

\* Mutant: a proof that was found valid once is not compared with the screen again.
SameOrChecked(c) == proof[c].checked \/ screen = proof[c].pixels

Same(c) == screen = proof[c].pixels
Checked(c) == proof' = [proof EXCEPT ![c].checked = TRUE]

Validate(c) ==
    /\ job[c] = "validate"
    /\ Job(c, IF Current(c) THEN "match" ELSE "stale")
    /\ UNCHANGED <<machine, control, acts, worker, shot>>

\* The second half of it, after a screenshot, which may fail: the authority is not
\* looked at again.
Match(c) ==
    /\ job[c] = "match"
    /\ \/ binding = base[c] /\ Same(c) /\ Job(c, "valid") /\ Checked(c)
       \/ ~(binding = base[c] /\ Same(c)) /\ Job(c, "stale") /\ UNCHANGED proof
       \/ binding = base[c] /\ Job(c, "failed") /\ UNCHANGED proof
    /\ UNCHANGED <<machine, control, op, seen, landed, worker, shot>>

\* The call of the computer tool begins with the binding there is now.
Execute(c) ==
    /\ pc[c] = "validating"
    /\ \/ job[c] = "stale" /\ Ends(c, "stale") /\ UNCHANGED base
       \/ job[c] = "failed" /\ Ends(c, "error") /\ UNCHANGED base
       \/ /\ job[c] = "valid"
          /\ pc' = [pc EXCEPT ![c] = "approving"] /\ base' = [base EXCEPT ![c] = binding]
          /\ UNCHANGED <<lock, status, proof>>
    /\ UNCHANGED <<machine, cancels, allowed, op, seen, landed, worker, job, shot>>

\* Approval, disclosure and the band, before the worker is submitted.
Approved(c) ==
    /\ pc[c] = "approving"
    /\ \/ Ends(c, "denied") /\ UNCHANGED job
       \/ binding # base[c] /\ Ends(c, "unknown") /\ UNCHANGED job
       \/ /\ binding = base[c]
          /\ pc' = [pc EXCEPT ![c] = "running"] /\ Job(c, "queued")
          /\ UNCHANGED <<lock, status, proof>>
    /\ UNCHANGED <<machine, base, cancels, allowed, op, seen, landed, worker, shot>>

\* The worker of the call, under _announce_lock.
WorkerEnters(c) ==
    /\ job[c] = "queued" /\ worker = None
    /\ IF binding = base[c] /\ pc[c] = "running"
       THEN worker' = c /\ Job(c, "guard")
       ELSE Job(c, "raised") /\ UNCHANGED worker
    /\ UNCHANGED <<machine, control, acts, shot>>

Raises(c, how) == Job(c, how) /\ worker' = None

\* The guard may wait for a human, and it may refuse.
GuardDecides(c) ==
    /\ job[c] = "guard"
    /\ \/ Raises(c, "raised") /\ UNCHANGED seen
       \/ /\ Job(c, "look") /\ seen' = [seen EXCEPT ![c] = screen = proof[c].pixels]
          /\ UNCHANGED worker
    /\ UNCHANGED <<machine, control, op, proof, landed, shot>>

\* Before the first event the whole proof is checked, before a later character its
\* authority; the text changes the screen itself.
Look(c) ==
    /\ job[c] = "look"
    /\ IF landed[c] = 0
       THEN IF Current(c) THEN Job(c, "compare") /\ UNCHANGED worker ELSE Raises(c, "stale")
       ELSE IF Authority(c) THEN Job(c, "send") /\ UNCHANGED worker ELSE Raises(c, "raised")
    /\ UNCHANGED <<machine, control, acts, shot>>

\* The screenshot that the first event waits for, which may fail, and the event next:
\* whether the act was revoked meanwhile is not asked.
Compare(c) ==
    /\ job[c] = "compare"
    /\ \/ Same(c) /\ Job(c, "send") /\ Checked(c) /\ UNCHANGED worker
       \/ ~Same(c) /\ Raises(c, "stale") /\ UNCHANGED proof
       \/ Raises(c, "raised") /\ UNCHANGED proof
    /\ UNCHANGED <<machine, control, op, seen, landed, shot>>

Wanted(c) == IF op[c] = "type" THEN Keys ELSE 1

\* The event, which may raise before or after it has landed.
Send(c) ==
    /\ job[c] = "send"
    /\ \/ /\ landed' = [landed EXCEPT ![c] = @ + 1]
          /\ screen' \in Pixels /\ seen' = [seen EXCEPT ![c] = FALSE]
          /\ \/ landed'[c] < Wanted(c) /\ Job(c, "next") /\ UNCHANGED worker
             \/ landed'[c] = Wanted(c) /\ Raises(c, "sent")
             \/ Raises(c, "raised")
       \/ Raises(c, "raised") /\ UNCHANGED <<screen, seen, landed>>
    /\ UNCHANGED <<changes, binding, observations, control, op, proof, shot>>

\* A text that was cancelled sends no further character.
NextKey(c) ==
    /\ job[c] = "next"
    /\ IF pc[c] = "running" THEN Job(c, "guard") /\ UNCHANGED worker ELSE Raises(c, "raised")
    /\ UNCHANGED <<machine, control, acts, shot>>

ActReturns(c) ==
    /\ pc[c] = "running" /\ job[c] \in {"sent", "stale", "raised"}
    /\ Ends(c, CASE job[c] = "sent" -> "completed" [] job[c] = "stale" -> "stale" [] OTHER -> "unknown")
    /\ UNCHANGED <<machine, base, cancels, allowed, op, seen, landed, worker, job, shot>>

\* The event that nothing stops any more: its authority has been checked.
Granted(c) == IF job[c] \in {"compare", "send"} THEN 1 ELSE 0

\* Mutant: only an act that returns revokes its proof.
CancelKeepsProof(c) ==
    /\ cancels < MaxCancels /\ cancels' = cancels + 1
    /\ pc[c] \in {"disclosing", "observing", "validating", "approving", "running"}
    /\ pc' = [pc EXCEPT ![c] = "ended"] /\ status' = [status EXCEPT ![c] = "cancelled"]
    /\ lock' = None
    /\ allowed' = [allowed EXCEPT ![c] = landed[c] + Granted(c)]
    /\ UNCHANGED <<machine, base, acts, worker, job, shot>>

\* A cancellation ends the coroutine at its await; its thread goes on.
Cancel(c) ==
    /\ cancels < MaxCancels /\ cancels' = cancels + 1
    /\ pc[c] \in {"disclosing", "observing", "validating", "approving", "running"}
    /\ Ends(c, "cancelled")
    /\ allowed' = [allowed EXCEPT ![c] = landed[c] + Granted(c)]
    /\ UNCHANGED <<machine, base, op, seen, landed, worker, job, shot>>

Coroutine(c) ==
    \/ Observe(c) \/ Disclosed(c) \/ ObserveReturns(c)
    \/ Act(c) \/ ActUnknown(c) \/ Execute(c) \/ Approved(c) \/ ActReturns(c)
Thread(c) ==
    \/ Capture(c) \/ Store(c) \/ Validate(c) \/ Match(c)
    \/ WorkerEnters(c) \/ GuardDecides(c) \/ Look(c) \/ Compare(c) \/ Send(c) \/ NextKey(c)

Next ==
    \/ ScreenChanges \/ Expire \/ ReplaceBinding
    \/ \E c \in Calls : Coroutine(c) \/ Thread(c) \/ Cancel(c)

Spec == Init /\ [][Next]_vars

-----------------------------------------------------------------------------
\* Every variable has its type; there is one observation per revision.
TypeOK ==
    /\ screen \in Pixels /\ changes \in 0 .. MaxChanges
    /\ binding \in 1 .. MaxRetargets + 1
    /\ {lock, worker} \subseteq Calls \cup {None}
    /\ observations \in Seq([pixels : Pixels, gen : 1 .. MaxRetargets + 1, old : BOOLEAN])
    /\ Len(observations) <= Remembered
    /\ IsInjective([i \in DOMAIN observations |-> observations[i].pixels])
    /\ pc \in [Calls -> {"new", "disclosing", "observing", "validating", "approving", "running", "ended"}]
    /\ job \in [Calls -> {"none", "capture", "reading", "done", "failed", "validate", "match", "valid",
                          "stale", "queued", "guard", "look", "compare", "send", "next", "sent",
                          "raised"}]
    /\ op \in [Calls -> {None, "click", "type"}] /\ base \in [Calls -> 0 .. MaxRetargets + 1]
    /\ shot \in [Calls -> Pixels \cup {None}]
    /\ proof \in [Calls -> [pixels : Pixels \cup {None}, gen : 0 .. MaxRetargets + 1, old : BOOLEAN,
                            active : BOOLEAN, checked : BOOLEAN]]
    /\ seen \in [Calls -> BOOLEAN] /\ landed \in [Calls -> 0 .. Keys]
    /\ allowed \in [Calls -> 0 .. Keys] /\ cancels \in 0 .. MaxCancels
    /\ status \in [Calls -> Answers \cup {None}]

\* "After approval and presence waits, the executor verifies the same target and
\* screen immediately before input": an input that starts was selected on the
\* binding that is current, and on pixels that were on the screen at some moment
\* after the last of these waits.
AsSelected ==
    \A c \in Calls :
        job[c] = "send" => /\ binding = proof[c].gen
                           /\ landed[c] = 0 => seen[c]

\* "Report unknown, never stale (which could invite a retry of the entire
\* string)": who is told that an act was stale or denied may select anew, since
\* nothing of it has landed or will.
Reported ==
    \A c \in Calls :
        /\ status[c] \in {"stale", "denied"} =>
            landed[c] = 0 /\ job[c] \notin {"guard", "look", "compare", "send", "next"}
        /\ status[c] = "completed" => landed[c] = Wanted(c)

\* A cancelled act sends at most one event more, and only one whose
\* authority had been checked when it was cancelled.
RevokedStays ==
    \A c \in Calls : status[c] = "cancelled" => landed[c] <= allowed[c]

\* "Retargeting or revocation before input stops dispatch": no act whose proof is
\* revoked comes to send an event.  A cancellation during the screenshot of a
\* validation, whose authority check is over, breaks it.
RevokedStartsNothing ==
    [][\A c \in Calls : ~proof[c].active /\ job[c] # "send" => job'[c] # "send"]_vars

\* What an observed action promises whoever selected it.
ObservedSafe == TypeOK /\ AsSelected /\ Reported /\ RevokedStays
=============================================================================
