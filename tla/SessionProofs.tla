------------------------------ MODULE SessionProofs ------------------------------
(***************************************************************************)
(* For any calls, scripts, targets, policies and bounds: a worker that     *)
(* injects does so on the binding it was checked against, the session has  *)
(* one connection, the depth that keeps the band up covers the input and   *)
(* is given back, and a batch reports as completed only what has landed.   *)
(***************************************************************************)
EXTENDS Session, FiniteSetTheorems, SequenceTheorems, WellFoundedInduction, TLAPS

Bindings == [gen : 1 .. MaxRetargets + 1, target : Targets, ver : Nat,
             said : {"no", "yes", "refused"}]
Retargets == [phase : {"none", "built", "swapped"}, target : Targets \cup {None},
              gen : 0 .. MaxRetargets + 1]
Flights == [running : BOOLEAN, outcome : BOOLEAN, cancelled : BOOLEAN, deferred : BOOLEAN]
Places == {"new", "approve", "announce", "band", "step", "gap", "await", "finally", "exit", "ended"}
Jobs == {"idle", "announce", "building", "told", "turned", "band", "entered", "queued", "inside",
         "raised", "acted", "leaving", "done", "failed"}

\* The session's own state ...
TypeShared ==
    /\ binding \in Bindings /\ pin \in [Calls -> Bindings]
    /\ open \subseteq 1 .. MaxRetargets + 1 /\ told \subseteq Targets
    /\ held \in BOOLEAN /\ cleaned \in BOOLEAN
    /\ lock \in Calls \cup {None, "retarget"}
    /\ rt \in Retargets /\ tries \in 0 .. MaxRetargets
    /\ pc \in [Calls -> Places] /\ job \in [Calls -> Jobs]

\* ... and what the band is counted with.
TypeBand ==
    /\ depth \in [Targets -> Nat] /\ token \in [Calls -> Targets \cup {None}]
    /\ exiting \in [Calls -> BOOLEAN] /\ late \in [Calls -> BOOLEAN]
    /\ flight \in [Calls -> Flights]

\* Who holds _announce_lock, and what nobody can do meanwhile.
Locked ==
    /\ \A c \in Calls :
         /\ job[c] \in {"building", "inside"} => lock = c
         /\ job[c] = "building" => binding.said = "no"
         /\ job[c] = "inside" => binding = pin[c] /\ ~cleaned
    /\ rt.phase # "none" => lock = "retarget" /\ ~held

\* Generations are fresh, and the open backends are those of the binding and of a
\* retarget that is under way.
Opened ==
    /\ binding.gen <= 1 + tries
    /\ rt.phase = "built" => /\ rt.gen = 1 + tries /\ binding.gen <= tries
                             /\ rt.gen \in open /\ rt.target \in Targets
    /\ rt.phase = "swapped" => rt.gen # binding.gen
    /\ open \subseteq {binding.gen, rt.gen}
    /\ rt.phase = "none" => open \subseteq {binding.gen}
    /\ binding.said # "refused" => binding.gen \in open \/ cleaned
    /\ binding.said = "yes" => binding.target \in told
    /\ held => binding.said = "yes" /\ ~cleaned

\* A call that was told pins a disclosed binding, and a binding never comes back.
Older(p) ==
    /\ binding.said = "yes"
    /\ \/ p.gen < binding.gen
       \/ p.gen = binding.gen /\ p.target = binding.target /\ p.ver <= binding.ver

Told(c) ==
    \/ pc[c] \in {"band", "step", "gap", "await"}
    \/ job[c] \in {"band", "entered", "queued", "inside"}

Pinned ==
    \A c \in Calls :
        /\ pc[c] \in {"new", "approve"} => job[c] = "idle"
        /\ job[c] = "told" => binding.said = "yes"
        /\ Told(c) => pin[c].said = "yes"
        /\ pin[c].said = "yes" => Older(pin[c])

SessionInv == TypeShared /\ Locked /\ Opened /\ Pinned

\* A worker of the computer tool runs exactly while its flight record says so, and
\* a band is being given back only after its call and its worker.
AtWork == {"queued", "inside", "acted", "leaving", "raised"}

FlightOf(c) ==
    /\ flight[c].running <=> (c \notin Desktops /\ job[c] \in AtWork)
    /\ flight[c].deferred => flight[c].running /\ pc[c] = "ended" /\ token[c] # None
    /\ late[c] => pc[c] \in {"exit", "ended"}
    /\ exiting[c] => /\ pc[c] \in {"exit", "ended"} /\ token[c] # None
                     /\ c \in Desktops \/ job[c] \notin AtWork \cup {"entered"}

TokenOf(c) ==
    /\ token[c] # None => /\ job[c] \notin {"announce", "building", "told", "turned", "band"}
                          /\ pc[c] \notin {"new", "approve", "announce"}
    /\ pc[c] = "band" => job[c] \in {"band", "entered", "turned"}
    /\ job[c] = "band" => pc[c] \in {"band", "ended"}
    /\ c \notin Desktops => /\ job[c] = "band" => pc[c] = "band" \/ late[c]
                            /\ job[c] = "entered" => pc[c] = "band"
                            /\ token[c] # None => Owed(c)

Flying == \A c \in Calls : FlightOf(c) /\ TokenOf(c)

\* Where a call has entered the band, it carries the token of the target it has
\* pinned, as long as that is the session's.
Entered(c) == pc[c] \in {"step", "gap", "await"} \/ job[c] \in {"entered", "queued", "inside"}

Covered ==
    \A c \in Calls \ Desktops :
        Entered(c) /\ binding = pin[c] /\ ~cleaned /\ pin[c].target \in Banded
            => token[c] = pin[c].target

Counted == \A t \in Targets : depth[t] = Cardinality({c \in Calls : token[c] = t})

BandInv == TypeBand /\ Flying /\ Covered /\ Counted

-----------------------------------------------------------------------------
(* The session's binding. *)

LEMMA SharedCoroutine == ASSUME SessionInv, NEW c \in Calls, Coroutine(c) PROVE SessionInv'
<1> USE DEF SessionInv, Goto, Worker, EndEarly, Reported, Stop, Submit, shared, own, band
<1>1. CASE Start(c)
  <2>1. TypeShared' BY <1>1 DEF Start, TypeShared, Places, Jobs
  <2>2. Locked' /\ Opened' /\ Pinned'
    BY <1>1, CallsAssumption
       DEF Start, Bindings, Places, Jobs, TypeShared, Locked, Opened, Pinned, Told, Older
  <2>. QED BY <2>1, <2>2
<1>2. CASE Approve(c)
  <2>1. TypeShared' BY <1>2 DEF Approve, TypeShared, Places, Jobs
  <2>2. Locked' /\ Opened' /\ Pinned'
    BY <1>2, CallsAssumption
       DEF Approve, Bindings, Places, Jobs, TypeShared, Locked, Opened, Pinned, Told, Older, Disclosed
  <2>. QED BY <2>1, <2>2
<1>3. CASE AfterTold(c)
  <2>1. TypeShared' BY <1>3 DEF AfterTold, TypeShared, Places, Jobs
  <2>2. Locked'
    BY <1>3, CallsAssumption DEF AfterTold, TypeShared, Locked, Opened, Pinned, Told, Older
  <2>3. Opened' BY <1>3 DEF AfterTold, TypeShared, Locked, Opened, Pinned, Told, Older
  <2>4. Pinned'
    BY <1>3, CallsAssumption DEF AfterTold, Disclosed, Bindings, Places, Jobs, TypeShared, Locked,
       Opened, Pinned, Told, Older
  <2>. QED BY <2>1, <2>2, <2>3, <2>4
<1>4. CASE AfterBand(c)
  <2>1. TypeShared' BY <1>4 DEF AfterBand, TypeShared, Places, Jobs
  <2>2. Locked' /\ Opened' /\ Pinned'
    BY <1>4, CallsAssumption
       DEF AfterBand, TypeShared, Locked, Opened, Pinned, Told, Older
  <2>. QED BY <2>1, <2>2
<1>5. CASE StepStart(c)
  <2>1. TypeShared' BY <1>5 DEF StepStart, TypeShared, Places, Jobs
  <2>2. Locked' /\ Opened' /\ Pinned'
    BY <1>5, CallsAssumption
       DEF StepStart, TypeShared, Locked, Opened, Pinned, Told, Older
  <2>. QED BY <2>1, <2>2
<1>6. CASE NextPress(c)
  <2>1. TypeShared' BY <1>6 DEF NextPress, TypeShared, Places, Jobs
  <2>2. Locked' /\ Opened' /\ Pinned'
    BY <1>6, CallsAssumption
       DEF NextPress, TypeShared, Locked, Opened, Pinned, Told, Older
  <2>. QED BY <2>1, <2>2
<1>7. CASE Resume(c)
  <2>1. TypeShared' BY <1>7 DEF Resume, TypeShared, Places, Jobs
  <2>2. Locked' /\ Opened' /\ Pinned'
    BY <1>7, CallsAssumption
       DEF Resume, TypeShared, Locked, Opened, Pinned, Told, Older
  <2>. QED BY <2>1, <2>2
<1>8. CASE Exited(c)
  <2>1. TypeShared' BY <1>8 DEF Exited, TypeShared, Places, Jobs
  <2>2. Locked' /\ Opened' /\ Pinned'
    BY <1>8, CallsAssumption
       DEF Exited, TypeShared, Locked, Opened, Pinned, Told, Older
  <2>. QED BY <2>1, <2>2
<1>9. CASE FinallyDeferred(c)
  <2>1. TypeShared' BY <1>9 DEF FinallyDeferred, TypeShared, Places, Jobs
  <2>2. Locked' /\ Opened' /\ Pinned'
    BY <1>9, CallsAssumption
       DEF FinallyDeferred, TypeShared, Locked, Opened, Pinned, Told, Older
  <2>. QED BY <2>1, <2>2
<1>10. CASE ~flight[c].running /\ Finally(c)
  <2>1. TypeShared' BY <1>10 DEF Finally, TypeShared, Places, Jobs
  <2>2. Locked' /\ Opened' /\ Pinned'
    BY <1>10, CallsAssumption
       DEF Finally, TypeShared, Locked, Opened, Pinned, Told, Older
  <2>. QED BY <2>1, <2>2
<1>. QED BY <1>1, <1>2, <1>3, <1>4, <1>5, <1>6, <1>7, <1>8, <1>9, <1>10 DEF Coroutine

LEMMA SharedThread == ASSUME SessionInv, NEW c \in Calls, Thread(c) PROVE SessionInv'
<1> USE DEF SessionInv, Goto, Worker, EndEarly, Reported, Stop, Submit, shared, own, band
<1>1. CASE TellFast(c)
  <2>1. TypeShared' BY <1>1 DEF TellFast, TypeShared, Places, Jobs
  <2>2. Locked' /\ Opened' /\ Pinned'
    BY <1>1, CallsAssumption
       DEF TellFast, Bindings, Places, Jobs, TypeShared, Locked, Opened, Pinned, Told, Older
  <2>. QED BY <2>1, <2>2
<1>2. CASE TellStart(c)
  <2>1. TypeShared' BY <1>2 DEF TellStart, TypeShared, Places, Jobs
  <2>2. Locked' /\ Opened' /\ Pinned'
    BY <1>2, CallsAssumption
       DEF TellStart, TypeShared, Locked, Opened, Pinned, Told, Older
  <2>. QED BY <2>1, <2>2
<1>3. CASE TellEnd(c)
  <2>1. TypeShared' BY <1>3 DEF TellEnd, TypeShared, Bindings, Jobs
  <2>2. Locked'
    BY <1>3, CallsAssumption DEF TellEnd, TypeShared, Locked, Opened, Pinned, Told, Older
  <2>3. Opened' BY <1>3 DEF TellEnd, TypeShared, Bindings, Retargets, Opened, Locked
  <2>4. Pinned'
    BY <1>3, CallsAssumption DEF TellEnd, Bindings, Places, Jobs, TypeShared, Locked, Opened,
       Pinned, Told, Older
  <2>. QED BY <2>1, <2>2, <2>3, <2>4
<1>4. CASE BandEnter(c)
  <2>1. TypeShared' BY <1>4 DEF BandEnter, TypeShared, Places, Jobs
  <2>2. Locked' /\ Opened' /\ Pinned'
    BY <1>4, CallsAssumption
       DEF BandEnter, TypeShared, Locked, Opened, Pinned, Told, Older
  <2>. QED BY <2>1, <2>2
<1>5. CASE WorkerEnter(c)
  <2>1. TypeShared' BY <1>5 DEF WorkerEnter, TypeShared, Places, Jobs
  <2>2. Locked' /\ Opened' /\ Pinned'
    BY <1>5, CallsAssumption
       DEF WorkerEnter, TypeShared, Locked, Opened, Pinned, Told, Older, Admitted
  <2>. QED BY <2>1, <2>2
<1>6. CASE WorkerRefused(c)
  <2>1. TypeShared' BY <1>6 DEF WorkerRefused, TypeShared, Places, Jobs
  <2>2. Locked' /\ Opened' /\ Pinned'
    BY <1>6, CallsAssumption
       DEF WorkerRefused, TypeShared, Locked, Opened, Pinned, Told, Older
  <2>. QED BY <2>1, <2>2
<1>7. CASE WorkerActs(c)
  <2>1. binding' \in Bindings BY <1>7 DEF WorkerActs, TypeShared, Bindings
  <2>2. held' \in BOOLEAN BY <1>7, ZenonT(20) DEF WorkerActs, TypeShared
  <2>3. job' \in [Calls -> Jobs] BY <1>7 DEF WorkerActs, TypeShared, Jobs
  <2>4. lock' = None BY <1>7 DEF WorkerActs
  <2>5. TypeShared' BY <1>7, <2>1, <2>2, <2>3, <2>4, Zenon DEF WorkerActs, TypeShared
  <2>6. Locked' /\ Opened' /\ Pinned'
    BY <1>7, CallsAssumption DEF WorkerActs, Bindings, Places, Jobs, TypeShared, Locked, Opened,
       Pinned, Told, Older
  <2>. QED BY <2>5, <2>6
<1>8. CASE WorkerFails(c)
  <2>1. TypeShared' BY <1>8 DEF WorkerFails, TypeShared, Places, Jobs
  <2>2. Locked' /\ Opened' /\ Pinned'
    BY <1>8, CallsAssumption
       DEF WorkerFails, TypeShared, Locked, Opened, Pinned, Told, Older
  <2>. QED BY <2>1, <2>2
<1>9. CASE WorkerOutcome(c)
  <2>1. TypeShared' BY <1>9 DEF WorkerOutcome, TypeShared, Places, Jobs
  <2>2. Locked' /\ Opened' /\ Pinned'
    BY <1>9, CallsAssumption
       DEF WorkerOutcome, TypeShared, Locked, Opened, Pinned, Told, Older
  <2>. QED BY <2>1, <2>2
<1>10. CASE WorkerLeaves(c)
  <2>1. TypeShared' BY <1>10 DEF WorkerLeaves, TypeShared, Places, Jobs
  <2>2. Locked' /\ Opened' /\ Pinned'
    BY <1>10, CallsAssumption
       DEF WorkerLeaves, TypeShared, Locked, Opened, Pinned, Told, Older
  <2>. QED BY <2>1, <2>2
<1>11. CASE BandExits(c)
  <2>1. TypeShared' BY <1>11 DEF BandExits, TypeShared, Places, Jobs
  <2>2. Locked' /\ Opened' /\ Pinned'
    BY <1>11, CallsAssumption
       DEF BandExits, TypeShared, Locked, Opened, Pinned, Told, Older
  <2>. QED BY <2>1, <2>2
<1>. QED BY <1>1, <1>2, <1>3, <1>4, <1>5, <1>6, <1>7, <1>8, <1>9, <1>10, <1>11 DEF Thread

LEMMA SharedCancel == ASSUME SessionInv, NEW c \in Calls, Cancel(c) PROVE SessionInv'
<1> USE DEF SessionInv, Goto, Worker, EndEarly, Reported, Stop, Submit, shared, own, band
<1>1. CASE CancelEarly(c)
  <2>1. TypeShared' BY <1>1 DEF CancelEarly, TypeShared, Places, Jobs
  <2>2. Locked' /\ Opened' /\ Pinned'
    BY <1>1, CallsAssumption
       DEF CancelEarly, TypeShared, Locked, Opened, Pinned, Told, Older
  <2>. QED BY <2>1, <2>2
<1>2. CASE CancelBand(c)
  <2>1. TypeShared' BY <1>2 DEF CancelBand, TypeShared, Places, Jobs
  <2>2. Locked' /\ Opened' /\ Pinned'
    BY <1>2, CallsAssumption
       DEF CancelBand, TypeShared, Locked, Opened, Pinned, Told, Older
  <2>. QED BY <2>1, <2>2
<1>3. CASE CancelStep(c)
  <2>1. TypeShared' BY <1>3 DEF CancelStep, TypeShared, Places, Jobs
  <2>2. Locked' /\ Opened' /\ Pinned'
    BY <1>3, CallsAssumption
       DEF CancelStep, TypeShared, Locked, Opened, Pinned, Told, Older
  <2>. QED BY <2>1, <2>2
<1>4. CASE CancelQueued(c)
  <2>1. TypeShared' BY <1>4 DEF CancelQueued, TypeShared, Places, Jobs
  <2>2. Locked' /\ Opened' /\ Pinned'
    BY <1>4, CallsAssumption
       DEF CancelQueued, TypeShared, Locked, Opened, Pinned, Told, Older
  <2>. QED BY <2>1, <2>2
<1>5. CASE CancelGap(c)
  <2>1. TypeShared' BY <1>5 DEF CancelGap, TypeShared, Places, Jobs
  <2>2. Locked' /\ Opened' /\ Pinned'
    BY <1>5, CallsAssumption
       DEF CancelGap, TypeShared, Locked, Opened, Pinned, Told, Older
  <2>. QED BY <2>1, <2>2
<1>6. CASE CancelExit(c)
  <2>1. TypeShared' BY <1>6 DEF CancelExit, TypeShared, Places, Jobs
  <2>2. Locked' /\ Opened' /\ Pinned'
    BY <1>6, CallsAssumption
       DEF CancelExit, TypeShared, Locked, Opened, Pinned, Told, Older
  <2>. QED BY <2>1, <2>2
<1>. QED BY <1>1, <1>2, <1>3, <1>4, <1>5, <1>6 DEF Cancel

LEMMA SharedRest ==
    ASSUME SessionInv, Retarget \/ ReplaceApproval \/ Cleanup \/ Deadman PROVE SessionInv'
<1> USE DEF SessionInv, own, band
<1>1. CASE RetargetStart
  <2>1. TypeShared' BY <1>1, TargetsAssumption DEF RetargetStart, TypeShared, Retargets, Bindings
  <2>2. Locked' /\ Opened' /\ Pinned'
    BY <1>1, CallsAssumption DEF RetargetStart, Bindings, Retargets, TypeShared, Locked, Opened,
       Pinned, Told, Older
  <2>. QED BY <2>1, <2>2
<1>2. CASE RetargetGivesUp
  <2>1. rt' \in Retargets BY <1>2, TargetsAssumption DEF RetargetGivesUp, NoRetarget, Retargets
  <2>2. TypeShared' BY <1>2, <2>1, Zenon DEF RetargetGivesUp, TypeShared
  <2>3. Locked' /\ Opened' /\ Pinned'
    BY <1>2, CallsAssumption DEF RetargetGivesUp, NoRetarget, TypeShared, Locked, Opened, Pinned,
       Told, Older
  <2>. QED BY <2>2, <2>3
<1>3. CASE RetargetSwaps
  <2>1. rt' \in Retargets
    BY <1>3, TargetsAssumption DEF RetargetSwaps, TypeShared, Retargets, Bindings
  <2>2. binding' \in Bindings
    BY <1>3, TargetsAssumption DEF RetargetSwaps, TypeShared, Retargets, Bindings, Opened
  <2>3. told' \subseteq Targets BY <1>3 DEF RetargetSwaps, TypeShared, Retargets, Opened
  <2>4. TypeShared' BY <1>3, <2>1, <2>2, <2>3, Zenon DEF RetargetSwaps, TypeShared
  <2>5. Locked' /\ Opened'
    BY <1>3, CallsAssumption, TargetsAssumption, SMTT(30) DEF RetargetSwaps, Bindings, Retargets,
       TypeShared, Locked, Opened, Pinned, Told, Older
  <2>6. binding.gen < binding'.gen /\ binding'.said = "yes"
    BY <1>3 DEF RetargetSwaps, TypeShared, Bindings, Retargets, Opened
  <2>7. \A c \in Calls : pin[c].gen \in Nat /\ binding.gen \in Nat /\ binding'.gen \in Nat
    BY <2>2, TargetsAssumption DEF TypeShared, Bindings
  <2>8. Pinned' BY <1>3, <2>6, <2>7 DEF RetargetSwaps, Pinned, Told, Older
  <2>. QED BY <2>4, <2>5, <2>8
<1>4. CASE RetargetReleases
  <2>1. rt' \in Retargets BY <1>4, TargetsAssumption DEF RetargetReleases, NoRetarget, Retargets
  <2>2. TypeShared' BY <1>4, <2>1, Zenon DEF RetargetReleases, TypeShared
  <2>3. Locked' /\ Opened' /\ Pinned'
    BY <1>4, CallsAssumption DEF RetargetReleases, NoRetarget, TypeShared, Locked, Opened, Pinned,
       Told, Older
  <2>. QED BY <2>2, <2>3
<1>5. CASE ReplaceApproval
  <2>1. TypeShared' BY <1>5, Zenon DEF ReplaceApproval, TypeShared
  <2>2. Locked' /\ Opened' /\ Pinned'
    BY <1>5, CallsAssumption DEF ReplaceApproval, TypeShared, Locked, Opened, Pinned, Told, Older
  <2>. QED BY <2>1, <2>2
<1>6. CASE Cleanup
  <2>1. TypeShared' BY <1>6, Zenon DEF Cleanup, TypeShared
  <2>2. Locked' /\ Opened' /\ Pinned'
    BY <1>6, CallsAssumption DEF Cleanup, TypeShared, Locked, Opened, Pinned, Told, Older
  <2>. QED BY <2>1, <2>2
<1>7. CASE Deadman
  <2>1. TypeShared' BY <1>7, Zenon DEF Deadman, TypeShared
  <2>2. Locked' /\ Opened' /\ Pinned'
    BY <1>7, CallsAssumption DEF Deadman, TypeShared, Locked, Opened, Pinned, Told, Older
  <2>. QED BY <2>1, <2>2
<1>. QED BY <1>1, <1>2, <1>3, <1>4, <1>5, <1>6, <1>7 DEF Retarget

LEMMA SharedStep == SessionInv /\ [Next]_vars => SessionInv'
<1> SUFFICES ASSUME SessionInv, [Next]_vars PROVE SessionInv'
  OBVIOUS
<1>1. ASSUME NEW c \in Calls, Coroutine(c) \/ Thread(c) \/ Cancel(c) PROVE SessionInv'
  BY <1>1, SharedCoroutine, SharedThread, SharedCancel
<1>2. CASE Retarget \/ ReplaceApproval \/ Cleanup \/ Deadman
  BY <1>2, SharedRest
<1>3. CASE UNCHANGED vars
  BY <1>3 DEF vars, shared, own, SessionInv, TypeShared, Locked, Opened, Pinned, Told, Older
<1>. QED BY <1>1, <1>2, <1>3 DEF Next

LEMMA SharedInit == Init => SessionInv
<1> SUFFICES ASSUME Init PROVE SessionInv
  OBVIOUS
<1>1. binding \in Bindings /\ pin \in [Calls -> Bindings]
  BY TargetsAssumption DEF Init, Bindings
<1>2. rt \in Retargets BY TargetsAssumption DEF Init, NoRetarget, Retargets
<1>3. open \subseteq 1 .. MaxRetargets + 1 /\ tries \in 0 .. MaxRetargets
  BY TargetsAssumption DEF Init
<1>4. pc \in [Calls -> Places] /\ job \in [Calls -> Jobs] BY DEF Init, Places, Jobs
<1>5. TypeShared BY <1>1, <1>2, <1>3, <1>4 DEF Init, TypeShared
<1>6. Locked /\ Opened /\ Pinned BY DEF Init, NoRetarget, Locked, Opened, Pinned, Told, Older
<1>. QED BY <1>5, <1>6 DEF SessionInv

\* While a worker is in the backend, its binding is the session's, open and told.
THEOREM Pinning == Spec => []InputPinned
<1>1. SessionInv => InputPinned
  BY DEF SessionInv, TypeShared, Locked, Opened, Pinned, Told, Older, InputPinned
<1>. QED BY <1>1, SharedInit, SharedStep, PTL DEF Spec

-----------------------------------------------------------------------------
(* The band. *)

\* A call that takes a token raises the count of its target by one ...
LEMMA TokenTaken ==
    ASSUME TypeBand, Counted, NEW c \in Calls, token[c] = None, NEW t \in Targets,
           token' = [token EXCEPT ![c] = t], depth' = [depth EXCEPT ![t] = @ + 1]
    PROVE  Counted' /\ depth' \in [Targets -> Nat]
<1> DEFINE With(u) == {d \in Calls : token[d] = u}
           Then(u) == {d \in Calls : token'[d] = u}
<1>1. \A u \in Targets : IsFiniteSet(With(u))
  BY CallsAssumption, FS_Subset
<1>2. ASSUME NEW u \in Targets, u # t PROVE depth'[u] = Cardinality(Then(u))
  <2>1. Then(u) = With(u) BY <1>2, CallsAssumption DEF TypeBand
  <2>. QED BY <1>2, <2>1 DEF Counted, TypeBand
<1>3. depth'[t] = Cardinality(Then(t))
  <2>1. Then(t) = With(t) \cup {c} /\ c \notin With(t) BY CallsAssumption DEF TypeBand
  <2>2. Cardinality(Then(t)) = Cardinality(With(t)) + 1 BY <1>1, <2>1, FS_AddElement
  <2>. QED BY <2>2 DEF Counted, TypeBand
<1>4. depth' \in [Targets -> Nat] BY DEF TypeBand
<1>. QED BY <1>2, <1>3, <1>4 DEF Counted

\* ... and one that gives it back lowers it by one.
LEMMA TokenGiven ==
    ASSUME TypeBand, Counted, NEW c \in Calls, token[c] # None,
           token' = [token EXCEPT ![c] = None], depth' = [depth EXCEPT ![token[c]] = @ - 1]
    PROVE  Counted' /\ depth' \in [Targets -> Nat]
<1> DEFINE t == token[c]
           With(u) == {d \in Calls : token[d] = u}
           Then(u) == {d \in Calls : token'[d] = u}
<1>1. \A u \in Targets : IsFiniteSet(With(u))
  BY CallsAssumption, FS_Subset
<1>2. t \in Targets /\ None \notin Targets BY CallsAssumption DEF TypeBand
<1>3. ASSUME NEW u \in Targets, u # t PROVE depth'[u] = Cardinality(Then(u))
  <2>1. Then(u) = With(u) BY <1>2, <1>3 DEF TypeBand
  <2>. QED BY <1>3, <2>1 DEF Counted, TypeBand
<1>4. depth'[t] = Cardinality(Then(t)) /\ depth'[t] \in Nat
  <2>1. Then(t) = With(t) \ {c} /\ c \in With(t) BY <1>2 DEF TypeBand
  <2>2. /\ Cardinality(Then(t)) = Cardinality(With(t)) - 1
        /\ Cardinality(Then(t)) \in Nat
    BY <1>1, <1>2, <2>1, FS_RemoveElement, FS_CardinalityType, FS_Subset
  <2>. QED BY <1>2, <2>2 DEF Counted, TypeBand
<1>. QED BY <1>2, <1>3, <1>4 DEF Counted, TypeBand

\* What a step that is submitted does to its flight record.
LEMMA Submitted ==
    ASSUME TypeBand, NEW c \in Calls, Submit(c)
    PROVE  /\ flight' \in [Calls -> Flights]
           /\ flight'[c].running <=> c \notin Desktops
           /\ flight'[c].deferred = flight[c].deferred
           /\ \A d \in Calls : d # c => flight'[d] = flight[d]
<1>1. flight[c] \in Flights BY DEF TypeBand
<1>2. flight' = [flight EXCEPT ![c].running = c \notin Desktops, ![c].outcome = FALSE]
  BY DEF Submit
<1>3. flight' \in [Calls -> Flights] BY <1>1, <1>2, Zenon DEF TypeBand, Flights
<1>4. flight'[c].running = (c \notin Desktops) BY <1>1, <1>2, Zenon DEF TypeBand, Flights
<1>5. flight'[c].deferred = flight[c].deferred BY <1>1, <1>2, Zenon DEF TypeBand, Flights
<1>6. \A d \in Calls : d # c => flight'[d] = flight[d] BY <1>2, Zenon DEF TypeBand
<1>. QED BY <1>3, <1>4, <1>5, <1>6

LEMMA BandCoroutine == ASSUME SessionInv, BandInv, NEW c \in Calls, Coroutine(c) PROVE BandInv'
<1> USE DEF SessionInv, BandInv, Goto, Worker, EndEarly, Reported, Stop, Submit, shared, own, band
<1>1. CASE Start(c)
  <2>1. TypeBand' BY <1>1 DEF Start, TypeBand
  <2>2. Flying'
    BY <1>1 DEF Start, TypeShared, Places, Jobs, TypeBand, Flights, Flying, FlightOf, TokenOf,
       AtWork, Owed, Pinned
  <2>3. Covered'
    BY <1>1 DEF Start, TypeShared, TypeBand, Flying, FlightOf, AtWork, Covered, Entered, Pinned
  <2>4. Counted' BY <1>1 DEF Start, Counted
  <2>. QED BY <2>1, <2>2, <2>3, <2>4
<1>2. CASE Approve(c)
  <2>1. TypeBand' BY <1>2 DEF Approve, TypeBand
  <2>2. Flying'
    BY <1>2 DEF Approve, TypeShared, Places, Jobs, TypeBand, Flights, Flying, FlightOf, TokenOf,
       AtWork, Owed, Disclosed, Pinned
  <2>3. Covered'
    BY <1>2 DEF Approve, TypeShared, TypeBand, Flying, FlightOf, AtWork, Covered, Entered,
       Disclosed
  <2>4. Counted' BY <1>2 DEF Approve, Counted
  <2>. QED BY <2>1, <2>2, <2>3, <2>4
<1>3. CASE AfterTold(c)
  <2>1. TypeBand' BY <1>3 DEF AfterTold, TypeBand
  <2>2. Flying'
    BY <1>3 DEF AfterTold, TypeShared, Places, Jobs, TypeBand, Flights, Flying, FlightOf, TokenOf,
       AtWork, Owed, Disclosed
  <2>3. Covered'
    BY <1>3 DEF AfterTold, TypeShared, TypeBand, Flying, FlightOf, AtWork, Covered, Entered,
       Disclosed
  <2>4. Counted' BY <1>3 DEF AfterTold, Counted
  <2>. QED BY <2>1, <2>2, <2>3, <2>4
<1>4. CASE AfterBand(c)
  <2>1. TypeBand' BY <1>4 DEF AfterBand, TypeBand
  <2>2. Flying'
    BY <1>4 DEF AfterBand, TypeShared, Places, Jobs, TypeBand, Flights, Flying, FlightOf, TokenOf,
       AtWork, Owed
  <2>3. Covered'
    BY <1>4 DEF AfterBand, TypeShared, TypeBand, Flying, FlightOf, AtWork, Covered, Entered
  <2>4. Counted' BY <1>4 DEF AfterBand, Counted
  <2>. QED BY <2>1, <2>2, <2>3, <2>4
<1>5. CASE StepStart(c)
  <2>1. CASE Submit(c) /\ UNCHANGED <<shared, band, pin>> /\ pc[c] = "step"
    <3>1. TypeBand' BY <2>1, Submitted DEF TypeBand
    <3>2. Flying'
      <4>1. /\ pc' = [pc EXCEPT ![c] = "await"] /\ job' = [job EXCEPT ![c] = "queued"]
            /\ UNCHANGED <<token, late, exiting>>
        BY <2>1
      <4>2. /\ flight'[c].running <=> c \notin Desktops
            /\ flight'[c].deferred = flight[c].deferred
            /\ \A d \in Calls : d # c => flight'[d] = flight[d]
        BY <2>1, Submitted
      <4>3. pc[c] = "step" BY <2>1
      <4>. QED
        BY <4>1, <4>2, <4>3 DEF TypeShared, Places, Jobs, TypeBand, Flights, Flying, FlightOf,
           TokenOf, AtWork, Owed
    <3>3. Covered' BY <2>1 DEF TypeShared, TypeBand, Flying, FlightOf, AtWork, Covered, Entered
    <3>4. Counted' BY <2>1 DEF Counted
    <3>. QED BY <3>1, <3>2, <3>3, <3>4
  <2>2. CASE pc[c] = "step" /\ Stop(c, prog[c], FALSE) /\ UNCHANGED <<shared, band, pin, job, flight>>
    BY <2>2 DEF TypeShared, Places, Jobs, TypeBand, Flights, Flying, FlightOf, TokenOf, AtWork,
       Owed, Covered, Entered, Counted
  <2>. QED BY <1>5, <2>1, <2>2 DEF StepStart
<1>6. CASE NextPress(c)
  <2>1. CASE Submit(c) /\ UNCHANGED <<shared, band, pin>> /\ pc[c] = "gap"
    <3>1. TypeBand' BY <2>1, Submitted DEF TypeBand
    <3>2. Flying'
      <4>1. /\ pc' = [pc EXCEPT ![c] = "await"] /\ job' = [job EXCEPT ![c] = "queued"]
            /\ UNCHANGED <<token, late, exiting>>
        BY <2>1
      <4>2. /\ flight'[c].running <=> c \notin Desktops
            /\ flight'[c].deferred = flight[c].deferred
            /\ \A d \in Calls : d # c => flight'[d] = flight[d]
        BY <2>1, Submitted
      <4>3. pc[c] = "gap" BY <2>1
      <4>. QED
        BY <4>1, <4>2, <4>3 DEF TypeShared, Places, Jobs, TypeBand, Flights, Flying, FlightOf,
           TokenOf, AtWork, Owed
    <3>3. Covered' BY <2>1 DEF TypeShared, TypeBand, Flying, FlightOf, AtWork, Covered, Entered
    <3>4. Counted' BY <2>1 DEF Counted
    <3>. QED BY <3>1, <3>2, <3>3, <3>4
  <2>. QED BY <1>6, <2>1 DEF NextPress
<1>7. CASE Resume(c)
  <2>1. TypeBand' BY <1>7 DEF Resume, TypeBand
  <2>2. Flying'
    BY <1>7 DEF Resume, TypeShared, Places, Jobs, TypeBand, Flights, Flying, FlightOf, TokenOf,
       AtWork, Owed
  <2>3. Covered'
    BY <1>7 DEF Resume, TypeShared, TypeBand, Flying, FlightOf, AtWork, Covered, Entered
  <2>4. Counted' BY <1>7 DEF Resume, Counted
  <2>. QED BY <2>1, <2>2, <2>3, <2>4
<1>8. CASE Exited(c)
  <2>1. TypeBand' BY <1>8 DEF Exited, TypeBand
  <2>2. Flying'
    BY <1>8 DEF Exited, TypeShared, Places, Jobs, TypeBand, Flights, Flying, FlightOf, TokenOf,
       AtWork, Owed
  <2>3. Covered'
    BY <1>8 DEF Exited, TypeShared, TypeBand, Flying, FlightOf, AtWork, Covered, Entered
  <2>4. Counted' BY <1>8 DEF Exited, Counted
  <2>. QED BY <2>1, <2>2, <2>3, <2>4
<1>9. CASE FinallyDeferred(c)
  <2>1. flight[c] \in Flights BY DEF TypeBand
  <2>2. flight' \in [Calls -> Flights] BY <1>9, <2>1, Zenon DEF FinallyDeferred, TypeBand, Flights
  <2>3. TypeBand' BY <1>9, <2>2, Zenon DEF FinallyDeferred, TypeBand
  <2>4. Flying'
    BY <1>9 DEF FinallyDeferred, TypeShared, Places, Jobs, TypeBand, Flights, Flying, FlightOf,
       TokenOf, AtWork, Owed
  <2>5. Covered'
    BY <1>9 DEF FinallyDeferred, TypeShared, TypeBand, Flying, FlightOf, AtWork, Covered, Entered
  <2>6. Counted' BY <1>9 DEF FinallyDeferred, Counted
  <2>. QED BY <2>3, <2>4, <2>5, <2>6
<1>10. CASE ~flight[c].running /\ Finally(c)
  <2>1. TypeBand' BY <1>10, Zenon DEF Finally, TypeBand
  <2>2. Flying'
    BY <1>10 DEF Finally, TypeShared, Places, Jobs, TypeBand, Flights, Flying, FlightOf, TokenOf,
       AtWork, Owed
  <2>3. Covered'
    BY <1>10 DEF Finally, TypeShared, TypeBand, Flying, FlightOf, AtWork, Covered, Entered
  <2>4. Counted' BY <1>10 DEF Finally, Counted
  <2>. QED BY <2>1, <2>2, <2>3, <2>4
<1>. QED BY <1>1, <1>2, <1>3, <1>4, <1>5, <1>6, <1>7, <1>8, <1>9, <1>10 DEF Coroutine

LEMMA BandThread == ASSUME SessionInv, BandInv, NEW c \in Calls, Thread(c) PROVE BandInv'
<1> USE DEF SessionInv, BandInv, Goto, Worker, EndEarly, Reported, Stop, Submit, shared, own, band
<1>1. CASE TellFast(c)
  <2>1. TypeBand' BY <1>1 DEF TellFast, TypeBand
  <2>2. Flying'
    BY <1>1 DEF TellFast, TypeShared, Places, Jobs, TypeBand, Flights, Flying, FlightOf, TokenOf,
       AtWork, Owed
  <2>3. Covered'
    BY <1>1 DEF TellFast, TypeShared, TypeBand, Flying, FlightOf, AtWork, Covered, Entered
  <2>4. Counted' BY <1>1 DEF TellFast, Counted
  <2>. QED BY <2>1, <2>2, <2>3, <2>4
<1>2. CASE TellStart(c)
  <2>1. TypeBand' BY <1>2 DEF TellStart, TypeBand
  <2>2. Flying'
    BY <1>2 DEF TellStart, TypeShared, Places, Jobs, TypeBand, Flights, Flying, FlightOf, TokenOf,
       AtWork, Owed
  <2>3. Covered'
    BY <1>2 DEF TellStart, TypeShared, TypeBand, Flying, FlightOf, AtWork, Covered, Entered
  <2>4. Counted' BY <1>2 DEF TellStart, Counted
  <2>. QED BY <2>1, <2>2, <2>3, <2>4
<1>3. CASE TellEnd(c)
  <2>1. TypeBand' BY <1>3 DEF TellEnd, TypeBand
  <2>2. Flying'
    BY <1>3 DEF TellEnd, TypeShared, Places, Jobs, TypeBand, Flights, Flying, FlightOf, TokenOf,
       AtWork, Owed
  <2>3. Covered'
    BY <1>3 DEF TellEnd, TypeShared, TypeBand, Flying, FlightOf, AtWork, Covered, Entered, Pinned,
       Locked, Told, Older, Bindings
  <2>4. Counted' BY <1>3 DEF TellEnd, Counted
  <2>. QED BY <2>1, <2>2, <2>3, <2>4
<1>4. CASE BandEnter(c)
  <2>0. PICK raises \in BOOLEAN :
          /\ raises => ~cleaned /\ binding.target \in Banded
          /\ depth' = IF raises THEN [depth EXCEPT ![binding.target] = @ + 1] ELSE depth
          /\ token' = IF raises THEN [token EXCEPT ![c] = binding.target] ELSE token
          /\ exiting' = [exiting EXCEPT ![c] = raises /\ late[c]]
          /\ job' = [job EXCEPT ![c] = IF late[c] THEN "idle"
               ELSE IF raises \/ (~cleaned /\ binding.target \notin Banded) THEN "entered"
               ELSE "turned"]
    BY <1>4, Zenon DEF BandEnter, Worker
  <2>a. job[c] = "band" /\ lock = None /\ UNCHANGED <<shared, own, late, pc, cancels>>
    BY <1>4 DEF BandEnter
  <2>1. exiting'[c] <=> raises /\ late[c] BY <2>0, Zenon DEF TypeBand
  <2>2. token[c] = None /\ binding.target \in Targets
    BY <2>a DEF Flying, TokenOf, TypeShared, Bindings
  <2>3. Counted' /\ depth' \in [Targets -> Nat]
    <3>1. CASE raises BY <2>0, <2>2, <3>1, TokenTaken
    <3>2. CASE ~raises BY <2>0, <3>2 DEF Counted, TypeBand
    <3>. QED BY <3>1, <3>2
  <2>4. token' = [token EXCEPT ![c] = IF raises THEN binding.target ELSE None]
    BY <2>0, <2>2 DEF TypeBand
  <2>5. exiting' \in [Calls -> BOOLEAN] BY <2>0, Zenon DEF TypeBand
  <2>6. TypeBand' BY <2>0, <2>a, <2>2, <2>3, <2>4, <2>5 DEF TypeBand, own
  <2>7. \A d \in Calls : d # c => exiting'[d] = exiting[d] BY <2>0, Zenon DEF TypeBand
  <2>8. Flying'
    <3>1. ASSUME NEW d \in Calls, d # c PROVE FlightOf(d)' /\ TokenOf(d)'
      BY <2>0, <2>a, <2>4, <2>7, <3>1 DEF TypeShared, Places, Jobs, TypeBand, Flights, Flying,
         FlightOf, TokenOf, AtWork, Owed, shared, own
    <3>2. FlightOf(c)'
      BY <2>0, <2>a, <2>1, <2>2, <2>4, CallsAssumption DEF TypeShared, Places, Jobs,
         TypeBand, Flights, Flying, FlightOf, TokenOf, AtWork, Owed, shared, own
    <3>3. TokenOf(c)'
      BY <2>0, <2>a, <2>1, <2>2, <2>4 DEF TypeShared, Places, Jobs, TypeBand, Flights,
         Flying, FlightOf, TokenOf, AtWork, Owed, shared, own
    <3>. QED BY <3>1, <3>2, <3>3 DEF Flying
  <2>9. Covered'
    BY <2>0, <2>a, <2>2, <2>4 DEF TypeShared, TypeBand, Flying, FlightOf, AtWork, Covered, Entered,
       Bindings, shared, own
  <2>. QED BY <2>3, <2>6, <2>8, <2>9
<1>5. CASE WorkerEnter(c)
  <2>1. TypeBand' BY <1>5 DEF WorkerEnter, TypeBand
  <2>2. Flying'
    BY <1>5 DEF WorkerEnter, TypeShared, Places, Jobs, TypeBand, Flights, Flying, FlightOf,
       TokenOf, AtWork, Owed, Admitted
  <2>3. Covered'
    BY <1>5 DEF WorkerEnter, TypeShared, TypeBand, Flying, FlightOf, AtWork, Covered, Entered,
       Admitted
  <2>4. Counted' BY <1>5 DEF WorkerEnter, Counted
  <2>. QED BY <2>1, <2>2, <2>3, <2>4
<1>6. CASE WorkerRefused(c)
  <2>1. TypeBand' BY <1>6 DEF WorkerRefused, TypeBand
  <2>2. Flying'
    BY <1>6 DEF WorkerRefused, TypeShared, Places, Jobs, TypeBand, Flights, Flying, FlightOf,
       TokenOf, AtWork, Owed
  <2>3. Covered'
    BY <1>6 DEF WorkerRefused, TypeShared, TypeBand, Flying, FlightOf, AtWork, Covered, Entered
  <2>4. Counted' BY <1>6 DEF WorkerRefused, Counted
  <2>. QED BY <2>1, <2>2, <2>3, <2>4
<1>7. CASE WorkerActs(c)
  <2>1. TypeBand' BY <1>7 DEF WorkerActs, TypeBand
  <2>2. Flying'
    BY <1>7 DEF WorkerActs, TypeShared, Places, Jobs, TypeBand, Flights, Flying, FlightOf,
       TokenOf, AtWork, Owed
  <2>3. Covered'
    BY <1>7, TargetsAssumption DEF WorkerActs, TypeShared, TypeBand, Flying, AtWork, Covered,
       Entered, Pinned, Told, Older, Bindings
  <2>4. Counted' BY <1>7 DEF WorkerActs, Counted
  <2>. QED BY <2>1, <2>2, <2>3, <2>4
<1>8. CASE WorkerFails(c)
  <2>1. TypeBand' BY <1>8 DEF WorkerFails, TypeBand
  <2>2. Flying'
    BY <1>8 DEF WorkerFails, TypeShared, Places, Jobs, TypeBand, Flights, Flying, FlightOf,
       TokenOf, AtWork, Owed
  <2>3. Covered'
    BY <1>8 DEF WorkerFails, TypeShared, TypeBand, Flying, FlightOf, AtWork, Covered, Entered
  <2>4. Counted' BY <1>8 DEF WorkerFails, Counted
  <2>. QED BY <2>1, <2>2, <2>3, <2>4
<1>9. CASE WorkerOutcome(c)
  <2>1. flight[c] \in Flights BY DEF TypeBand
  <2>2. flight' \in [Calls -> Flights] BY <1>9, <2>1, Zenon DEF WorkerOutcome, TypeBand, Flights
  <2>3. TypeBand' BY <1>9, <2>2, Zenon DEF WorkerOutcome, TypeBand
  <2>4. Flying'
    BY <1>9 DEF WorkerOutcome, TypeShared, Places, Jobs, TypeBand, Flights, Flying, FlightOf,
       TokenOf, AtWork, Owed
  <2>5. Covered'
    BY <1>9 DEF WorkerOutcome, TypeShared, TypeBand, Flying, FlightOf, AtWork, Covered, Entered
  <2>6. Counted' BY <1>9 DEF WorkerOutcome, Counted
  <2>. QED BY <2>3, <2>4, <2>5, <2>6
<1>10. CASE WorkerLeaves(c)
  <2>1. flight[c] \in Flights BY DEF TypeBand
  <2>2. flight' \in [Calls -> Flights] BY <1>10, <2>1, Zenon DEF WorkerLeaves, TypeBand, Flights
  <2>3. TypeBand' BY <1>10, <2>2, Zenon DEF WorkerLeaves, TypeBand
  <2>4. Flying'
    BY <1>10 DEF WorkerLeaves, TypeShared, Places, Jobs, TypeBand, Flights, Flying, FlightOf,
       TokenOf, AtWork, Owed
  <2>5. Covered'
    BY <1>10 DEF WorkerLeaves, TypeShared, TypeBand, Flying, FlightOf, AtWork, Covered, Entered
  <2>6. Counted' BY <1>10 DEF WorkerLeaves, Counted
  <2>. QED BY <2>3, <2>4, <2>5, <2>6
<1>11. CASE BandExits(c)
  <2>1. token[c] # None BY <1>11 DEF BandExits, Flying, FlightOf
  <2>2. Counted' /\ depth' \in [Targets -> Nat] BY <1>11, <2>1, TokenGiven DEF BandExits
  <2>3. TypeBand' BY <1>11, <2>2 DEF BandExits, TypeBand
  <2>4. Flying'
    BY <1>11 DEF BandExits, TypeShared, Places, Jobs, TypeBand, Flights, Flying, FlightOf,
       TokenOf, AtWork, Owed
  <2>5. Covered'
    BY <1>11 DEF BandExits, TypeShared, TypeBand, Flying, FlightOf, AtWork, Covered, Entered
  <2>. QED BY <2>2, <2>3, <2>4, <2>5
<1>. QED BY <1>1, <1>2, <1>3, <1>4, <1>5, <1>6, <1>7, <1>8, <1>9, <1>10, <1>11 DEF Thread

LEMMA BandCancel == ASSUME SessionInv, BandInv, NEW c \in Calls, Cancel(c) PROVE BandInv'
<1> USE DEF SessionInv, BandInv, Goto, Worker, EndEarly, Reported, Stop, Submit, shared, own, band
<1>1. CASE CancelEarly(c)
  <2>1. TypeBand' BY <1>1 DEF CancelEarly, TypeBand
  <2>2. Flying'
    BY <1>1 DEF CancelEarly, TypeShared, Places, Jobs, TypeBand, Flights, Flying, FlightOf,
       TokenOf, AtWork, Owed
  <2>3. Covered'
    BY <1>1 DEF CancelEarly, TypeShared, TypeBand, Flying, FlightOf, AtWork, Covered, Entered
  <2>4. Counted' BY <1>1 DEF CancelEarly, Counted
  <2>. QED BY <2>1, <2>2, <2>3, <2>4
<1>2. CASE CancelBand(c)
  <2>1. TypeBand' BY <1>2, Zenon DEF CancelBand, TypeBand
  <2>2. Flying'
    <3>1. CASE c \in Desktops
      BY <1>2, <3>1 DEF CancelBand, TypeShared, Places, Jobs, TypeBand, Flights, Flying, FlightOf,
         TokenOf, AtWork, Owed
    <3>2. CASE c \notin Desktops
      <4>1. exiting'[c] <=> token[c] # None BY <1>2, <3>2, Zenon DEF CancelBand, TypeBand
      <4>2. \A d \in Calls : d # c => exiting'[d] = exiting[d]
        BY <1>2, <3>2, Zenon DEF CancelBand, TypeBand
      <4>3. ASSUME NEW d \in Calls, d # c PROVE FlightOf(d)' /\ TokenOf(d)'
        BY <1>2, <3>2, <4>2, <4>3 DEF CancelBand, TypeShared, Places, Jobs, TypeBand, Flights,
           Flying, FlightOf, TokenOf, AtWork, Owed
      <4>4. FlightOf(c)' /\ TokenOf(c)'
        BY <1>2, <3>2, <4>1 DEF CancelBand, TypeShared, Places, Jobs, TypeBand, Flights, Flying,
           FlightOf, TokenOf, AtWork, Owed
      <4>. QED BY <4>3, <4>4 DEF Flying
    <3>. QED BY <3>1, <3>2
  <2>3. Covered'
    BY <1>2 DEF CancelBand, TypeShared, TypeBand, Flying, FlightOf, AtWork, Covered, Entered
  <2>4. Counted' BY <1>2 DEF CancelBand, Counted
  <2>. QED BY <2>1, <2>2, <2>3, <2>4
<1>3. CASE CancelStep(c)
  <2>1. flight[c] \in Flights BY DEF TypeBand
  <2>2. flight' \in [Calls -> Flights] BY <1>3, <2>1, Zenon DEF CancelStep, TypeBand, Flights
  <2>3. TypeBand' BY <1>3, <2>2, Zenon DEF CancelStep, TypeBand
  <2>4. Flying'
    BY <1>3 DEF CancelStep, TypeShared, Places, Jobs, TypeBand, Flights, Flying, FlightOf,
       TokenOf, AtWork, Owed
  <2>5. Covered'
    BY <1>3 DEF CancelStep, TypeShared, TypeBand, Flying, FlightOf, AtWork, Covered, Entered
  <2>6. Counted' BY <1>3 DEF CancelStep, Counted
  <2>. QED BY <2>3, <2>4, <2>5, <2>6
<1>4. CASE CancelQueued(c)
  <2>1. TypeBand' BY <1>4 DEF CancelQueued, TypeBand
  <2>2. Flying'
    BY <1>4 DEF CancelQueued, TypeShared, Places, Jobs, TypeBand, Flights, Flying, FlightOf,
       TokenOf, AtWork, Owed
  <2>3. Covered'
    BY <1>4 DEF CancelQueued, TypeShared, TypeBand, Flying, FlightOf, AtWork, Covered, Entered
  <2>4. Counted' BY <1>4 DEF CancelQueued, Counted
  <2>. QED BY <2>1, <2>2, <2>3, <2>4
<1>5. CASE CancelGap(c)
  <2>1. TypeBand' BY <1>5 DEF CancelGap, TypeBand
  <2>2. Flying'
    BY <1>5 DEF CancelGap, TypeShared, Places, Jobs, TypeBand, Flights, Flying, FlightOf, TokenOf,
       AtWork, Owed
  <2>3. Covered'
    BY <1>5 DEF CancelGap, TypeShared, TypeBand, Flying, FlightOf, AtWork, Covered, Entered
  <2>4. Counted' BY <1>5 DEF CancelGap, Counted
  <2>. QED BY <2>1, <2>2, <2>3, <2>4
<1>6. CASE CancelExit(c)
  <2>1. TypeBand' BY <1>6 DEF CancelExit, TypeBand
  <2>2. Flying'
    BY <1>6 DEF CancelExit, TypeShared, Places, Jobs, TypeBand, Flights, Flying, FlightOf,
       TokenOf, AtWork, Owed
  <2>3. Covered'
    BY <1>6 DEF CancelExit, TypeShared, TypeBand, Flying, FlightOf, AtWork, Covered, Entered
  <2>4. Counted' BY <1>6 DEF CancelExit, Counted
  <2>. QED BY <2>1, <2>2, <2>3, <2>4
<1>. QED BY <1>1, <1>2, <1>3, <1>4, <1>5, <1>6 DEF Cancel

LEMMA BandRest ==
    ASSUME SessionInv, BandInv, Retarget \/ ReplaceApproval \/ Cleanup \/ Deadman PROVE BandInv'
<1> USE DEF SessionInv, BandInv, own, band
<1>1. CASE RetargetStart
  <2>1. TypeBand' /\ Flying' /\ Counted'
    BY <1>1 DEF RetargetStart, TypeBand, Flying, FlightOf, TokenOf, Owed, Counted
  <2>2. Covered' BY <1>1 DEF RetargetStart, TypeShared, Covered, Entered
  <2>. QED BY <2>1, <2>2
<1>2. CASE RetargetGivesUp
  <2>1. TypeBand' /\ Flying' /\ Counted'
    BY <1>2 DEF RetargetGivesUp, TypeBand, Flying, FlightOf, TokenOf, Owed, Counted
  <2>2. Covered' BY <1>2 DEF RetargetGivesUp, TypeShared, Covered, Entered
  <2>. QED BY <2>1, <2>2
<1>3. CASE RetargetSwaps
  <2>1. TypeBand' /\ Flying' /\ Counted'
    BY <1>3 DEF RetargetSwaps, TypeBand, Flying, FlightOf, TokenOf, Owed, Counted
  <2>2. Covered'
    BY <1>3, TargetsAssumption DEF RetargetSwaps, TypeShared, Bindings, Covered, Entered, Pinned,
       Told, Older, Opened
  <2>. QED BY <2>1, <2>2
<1>4. CASE RetargetReleases
  <2>1. TypeBand' /\ Flying' /\ Counted'
    BY <1>4 DEF RetargetReleases, TypeBand, Flying, FlightOf, TokenOf, Owed, Counted
  <2>2. Covered' BY <1>4 DEF RetargetReleases, TypeShared, Covered, Entered
  <2>. QED BY <2>1, <2>2
<1>5. CASE ReplaceApproval
  <2>1. TypeBand' /\ Flying' /\ Counted'
    BY <1>5 DEF ReplaceApproval, TypeBand, Flying, FlightOf, TokenOf, Owed, Counted
  <2>2. Covered' BY <1>5 DEF ReplaceApproval, TypeShared, Covered, Entered
  <2>. QED BY <2>1, <2>2
<1>6. CASE Cleanup
  <2>1. TypeBand' /\ Flying' /\ Counted'
    BY <1>6 DEF Cleanup, TypeBand, Flying, FlightOf, TokenOf, Owed, Counted
  <2>2. Covered' BY <1>6 DEF Cleanup, TypeShared, Covered, Entered
  <2>. QED BY <2>1, <2>2
<1>7. CASE Deadman
  <2>1. TypeBand' /\ Flying' /\ Counted'
    BY <1>7 DEF Deadman, TypeBand, Flying, FlightOf, TokenOf, Owed, Counted
  <2>2. Covered' BY <1>7 DEF Deadman, TypeShared, Covered, Entered
  <2>. QED BY <2>1, <2>2
<1>. QED BY <1>1, <1>2, <1>3, <1>4, <1>5, <1>6, <1>7 DEF Retarget

LEMMA BandStep == SessionInv /\ BandInv /\ [Next]_vars => BandInv'
<1> SUFFICES ASSUME SessionInv, BandInv, [Next]_vars PROVE BandInv'
  OBVIOUS
<1>1. ASSUME NEW c \in Calls, Coroutine(c) \/ Thread(c) \/ Cancel(c) PROVE BandInv'
  BY <1>1, BandCoroutine, BandThread, BandCancel
<1>2. CASE Retarget \/ ReplaceApproval \/ Cleanup \/ Deadman
  BY <1>2, BandRest
<1>3. CASE UNCHANGED vars
  BY <1>3 DEF vars, shared, own, band, BandInv, TypeBand, Flying, FlightOf, TokenOf, Owed,
     Covered,
              Entered, Counted
<1>. QED BY <1>1, <1>2, <1>3 DEF Next

LEMMA BandInit == Init => BandInv
<1> SUFFICES ASSUME Init PROVE BandInv
  OBVIOUS
<1>1. TypeBand BY DEF Init, Idle, TypeBand, Flights
<1>2. Flying BY CallsAssumption DEF Init, Idle, Flying, FlightOf, TokenOf, AtWork
<1>3. Covered BY DEF Init, Covered, Entered
<1>4. Counted
  <2>1. \A t \in Targets : {c \in Calls : token[c] = t} = {} BY CallsAssumption DEF Init
  <2>. QED BY <2>1, FS_EmptySet DEF Init, Counted
<1>. QED BY <1>1, <1>2, <1>3, <1>4 DEF BandInv

LEMMA Inductive == Spec => [](SessionInv /\ BandInv)
BY SharedInit, SharedStep, BandInit, BandStep, PTL DEF Spec

\* The session has one connection, and a button it holds can be let go.
THEOREM Connection == Spec => []Connected
<1>1. SessionInv /\ BandInv => TypeOK
  BY DEF SessionInv, TypeShared, Bindings, Jobs, BandInv, TypeBand, Flights, TypeOK
<1>2. SessionInv => HeldReachable /\ OneBackend
  BY DEF SessionInv, Opened, HeldReachable, OneBackend
<1>3. SessionInv /\ BandInv => Connected BY <1>1, <1>2 DEF Connected
<1>. QED BY <1>3, Inductive, PTL

\* The depth of a target is counted while a worker injects, and given back once.
THEOREM BandDepth == Spec => []BandKept
<1> SUFFICES ASSUME SessionInv, BandInv PROVE BandKept
  BY Inductive, PTL
<1>1. ASSUME NEW c \in Calls \ Desktops, job[c] = "inside", binding.target \in Banded
      PROVE  token[c] = binding.target /\ depth[binding.target] > 0
  <2>1. token[c] = binding.target
    BY <1>1 DEF SessionInv, Locked, BandInv, Covered, Entered
  <2>2. binding.target \in Targets BY DEF SessionInv, TypeShared, Bindings
  <2> DEFINE S == {d \in Calls : token[d] = binding.target}
  <2>3. IsFiniteSet(S) /\ S # {} BY <2>1, CallsAssumption, FS_Subset
  <2>4. Cardinality(S) \in Nat /\ Cardinality(S) # 0 BY <2>3, FS_EmptySet, FS_CardinalityType
  <2>. QED BY <2>1, <2>2, <2>4 DEF BandInv, Counted
<1>2. DepthReturned BY DEF BandInv, Counted, Flying, TokenOf, DepthReturned
<1>. QED BY <1>1, <1>2 DEF BandKept, BandCoversInput

----------------------------------------------------------------------------------
(* The progress of a batch: what it reports against what has landed. *)

\* A set of numbers that is not empty has a least one.
LEMMA Least ==
    ASSUME NEW T \in SUBSET Nat, T # {}
    PROVE  \E n \in T : \A m \in T : n <= m
<1>1. PICK n \in T : \A m \in T : ~(<<m, n>> \in OpToRel(<, Nat))
  BY NatLessThanWellFounded, WFMin
<1>2. ASSUME NEW m \in T, m < n PROVE FALSE
  <2>1. <<m, n>> \in Nat \X Nat /\ <<m, n>>[1] < <<m, n>>[2] BY <1>2
  <2>2. <<m, n>> \in OpToRel(<, Nat) BY <2>1 DEF OpToRel
  <2>. QED BY <1>1, <2>2
<1>3. \A m \in T : n \in Nat /\ m \in Nat /\ ~(m < n) BY <1>2
<1>4. \A m \in T : n <= m BY <1>3
<1>. QED BY <1>4

\* A running sum up to n of what f says of each step.
Sums(f, n, g) ==
    DOMAIN g = 0 .. n /\ g[0] = 0 /\ \A i \in 1 .. n : g[i] = f[i] + g[i - 1]

LEMMA SumsAgree ==
    ASSUME NEW f, NEW n \in Nat, NEW m \in Nat, NEW g, NEW h, Sums(f, n, g), Sums(f, m, h),
           NEW i \in 0 .. n, i \in 0 .. m
    PROVE  g[i] = h[i]
<1> DEFINE T == {j \in 0 .. n : j \in 0 .. m /\ g[j] # h[j]}
<1> SUFFICES ASSUME g[i] # h[i] PROVE FALSE
  OBVIOUS
<1>1. i \in T /\ T \in SUBSET Nat OBVIOUS
<1>2. PICK j \in T : \A k \in T : j <= k BY <1>1, Least
<1>3. j # 0 BY DEF Sums
<1>4. j - 1 \in 0 .. n /\ j - 1 \in 0 .. m /\ j \in 1 .. n /\ j \in 1 .. m /\ j - 1 < j
  BY <1>2, <1>3
<1>5. j - 1 \notin T BY <1>2, <1>4
<1>6. g[j - 1] = h[j - 1] BY <1>4, <1>5
<1>7. g[j] = f[j] + g[j - 1] /\ h[j] = f[j] + h[j - 1] BY <1>4 DEF Sums
<1>. QED BY <1>2, <1>6, <1>7

LEMMA SumsExist == ASSUME NEW f, NEW n \in Nat PROVE \E g : Sums(f, n, g)
<1> DEFINE T == {j \in Nat : ~ \E g : Sums(f, j, g)}
<1>1. SUFFICES ASSUME T # {} PROVE FALSE
  OBVIOUS
<1>2. PICK j \in T : \A k \in T : j <= k BY <1>1, Least
<1>3. Sums(f, 0, [i \in 0 .. 0 |-> 0]) BY DEF Sums
<1>4. j # 0 /\ j \in Nat BY <1>3
<1>5. j - 1 \in Nat /\ j - 1 < j /\ j - 1 \notin T BY <1>2, <1>4
<1>6. PICK g : Sums(f, j - 1, g) BY <1>5
<1> DEFINE h == [i \in 0 .. j |-> IF i = j THEN f[j] + g[j - 1] ELSE g[i]]
<1>7. Sums(f, j, h)
  <2>1. DOMAIN h = 0 .. j /\ h[0] = 0 BY <1>4, <1>6 DEF Sums
  <2>2. ASSUME NEW i \in 1 .. j PROVE h[i] = f[i] + h[i - 1]
    <3>1. i \in 0 .. j /\ i - 1 \in 0 .. j /\ i - 1 # j BY <1>4, <2>2
    <3>2. h[i - 1] = g[i - 1] BY <3>1
    <3>3. CASE i = j BY <3>1, <3>2, <3>3
    <3>4. CASE i # j
      <4>1. i \in 1 .. j - 1 BY <1>4, <2>2, <3>4
      <4>. QED BY <1>6, <3>1, <3>2, <3>4, <4>1 DEF Sums
    <3>. QED BY <3>3, <3>4
  <2>. QED BY <2>1, <2>2 DEF Sums
<1>. QED BY <1>2, <1>7

LEMMA SumExists ==
    ASSUME NEW f
    PROVE  \E s : s = [i \in Nat |-> IF i = 0 THEN 0 ELSE f[i] + s[i - 1]]
<1> DEFINE G(n) == CHOOSE g : Sums(f, n, g)
           s == [n \in Nat |-> G(n)[n]]
<1>1. \A n \in Nat : Sums(f, n, G(n)) BY SumsExist
<1>2. ASSUME NEW n \in Nat PROVE s[n] = IF n = 0 THEN 0 ELSE f[n] + s[n - 1]
  <2>1. s[n] = G(n)[n] OBVIOUS
  <2> HIDE DEF G
  <2>2. CASE n = 0
    <3>1. G(0)[0] = 0 BY <1>1 DEF Sums
    <3>. QED BY <2>1, <2>2, <3>1
  <2>3. CASE n # 0
    <3>1. n - 1 \in Nat /\ n \in 1 .. n /\ n - 1 \in 0 .. n /\ n - 1 \in 0 .. n - 1 BY <2>3
    <3>2. s[n - 1] = G(n - 1)[n - 1] BY <3>1
    <3>3. G(n)[n] = f[n] + G(n)[n - 1]
      <4>1. Sums(f, n, G(n)) BY <1>1
      <4>. QED BY <3>1, <4>1 DEF Sums
    <3>4. G(n)[n - 1] = G(n - 1)[n - 1]
      <4>1. Sums(f, n, G(n)) /\ Sums(f, n - 1, G(n - 1)) BY <1>1, <3>1
      <4>. QED BY <3>1, <4>1, SumsAgree
    <3>. QED BY <2>1, <2>3, <3>2, <3>3, <3>4
  <2>. QED BY <2>2, <2>3
<1> HIDE DEF s
<1>3. s = [n \in Nat |-> s[n]] BY DEF s
<1>4. s = [i \in Nat |-> IF i = 0 THEN 0 ELSE f[i] + s[i - 1]] BY <1>2, <1>3
<1>. QED BY <1>4

Amount(c, i) == IF Script[c][i].kind \in Writes THEN Script[c][i].times ELSE 0

LEMMA PressesStep ==
    ASSUME NEW c, NEW n \in Nat
    PROVE  Presses(c, 0) = 0 /\ Presses(c, n + 1) = Amount(c, n + 1) + Presses(c, n)
<1> DEFINE f == [i \in Nat |-> Amount(c, i)]
           sum == CHOOSE s : s = [i \in Nat |-> IF i = 0 THEN 0 ELSE Amount(c, i) + s[i - 1]]
<1>1. \E s : s = [i \in Nat |-> IF i = 0 THEN 0 ELSE f[i] + s[i - 1]] BY SumExists
<1>2. sum = [i \in Nat |-> IF i = 0 THEN 0 ELSE Amount(c, i) + sum[i - 1]]
  <2>1. PICK s : s = [i \in Nat |-> IF i = 0 THEN 0 ELSE f[i] + s[i - 1]] BY <1>1
  <2> HIDE DEF f
  <2>2. \A i \in Nat : f[i] = Amount(c, i) BY DEF f
  <2>3. s = [i \in Nat |-> IF i = 0 THEN 0 ELSE Amount(c, i) + s[i - 1]] BY <2>1, <2>2
  <2>. QED BY <2>3
<1>3. \A m : Presses(c, m) = sum[m] BY DEF Presses, Amount
<1> HIDE DEF sum
<1>4. sum[0] = 0 BY <1>2
<1>5. sum[n + 1] = Amount(c, n + 1) + sum[n]
  <2>1. n + 1 \in Nat /\ n + 1 # 0 /\ (n + 1) - 1 = n OBVIOUS
  <2>. QED BY <1>2, <2>1
<1>. QED BY <1>3, <1>4, <1>5

Sent(c) == Presses(c, prog[c].done) + prog[c].press
Claimed(c) == Presses(c, report[c].done) + report[c].press

\* The press of a worker that has returned and is not counted yet.
Uncounted(c) ==
    IF job[c] \in {"acted", "leaving", "done"} /\ Step(c).kind \in Writes THEN 1 ELSE 0

\* A place in a script: a capture after the batch is no completed step.
Place(c, p) ==
    /\ p \in [done : Nat, at : 1 .. Len(Script[c]) + 1, press : Nat]
    /\ Presses(c, p.done) \in Nat
    /\ IF p.at <= Len(Script[c])
       THEN p.done = p.at - 1 /\ p.press < Script[c][p.at].times
       ELSE p.press = 0

Early == {"new", "approve", "announce", "band"}
Over == {"finally", "exit", "ended"}
InStep == AtWork \cup {"done", "failed"}

\* What has landed by where the coroutine is; only while it waits for a worker there
\* can be a press it has not counted.
Underway(c) ==
    /\ pc[c] \in Early =>
        job[c] \notin InStep /\ landed[c] = 0 /\ prog[c] = [done |-> 0, at |-> 1, press |-> 0]
    /\ pc[c] \in {"step", "gap"} => job[c] = "idle" /\ landed[c] = Sent(c)
    /\ pc[c] = "gap" => prog[c].at <= Len(Script[c])
    /\ pc[c] = "await" =>
        /\ prog[c].at <= Len(Script[c]) /\ job[c] \in InStep
        /\ landed[c] = Sent(c) + Uncounted(c)
        /\ flight[c].outcome <=> job[c] \in {"leaving", "done"}

\* What a batch has returned, and what a worker it left behind may still do.
Returned(c) ==
    pc[c] \in Over =>
        /\ Presses(c, report[c].done) \in Nat /\ report[c].press \in Nat
        /\ Claimed(c) <= landed[c]
        /\ landed[c] <= Claimed(c) + (IF report[c].uncertain THEN 1 ELSE 0)
        /\ job[c] = "queued" => flight[c].cancelled
        /\ job[c] = "inside" =>
            landed[c] = Claimed(c) /\ (report[c].uncertain \/ Step(c).kind \notin Writes)

ReportOf(c) ==
    /\ landed[c] \in Nat /\ Place(c, prog[c]) /\ Underway(c) /\ Returned(c)
    /\ report[c] # None => pc[c] \in Over

ReportInv ==
    /\ DOMAIN prog = Calls /\ DOMAIN landed = Calls /\ DOMAIN report = Calls
    /\ \A c \in Batches : ReportOf(c)

\* The step that was at work counts one press more, if it is a write.
LEMMA AdvancedPlace ==
    ASSUME NEW c \in Calls, Place(c, prog[c]), prog[c].at <= Len(Script[c])
    PROVE  /\ Place(c, Advanced(c))
           /\ Presses(c, Advanced(c).done) + Advanced(c).press
                = Sent(c) + (IF Step(c).kind \in Writes THEN 1 ELSE 0)
           /\ Advanced(c).press > 0 => Advanced(c).at = prog[c].at
<1> DEFINE p == prog[c]
           len == Len(Script[c])
           step == Script[c][p.at]
<1>1. /\ p.done \in Nat /\ p.at \in 1 .. len + 1 /\ p.press \in Nat /\ Presses(c, p.done) \in Nat
      /\ p.done = p.at - 1 /\ p.press < step.times /\ p.at \in 1 .. len /\ len \in Nat
  BY CallsAssumption, LenProperties DEF Place
<1>2. step.kind \in Kinds /\ step.times \in Nat \ {0}
  <2>1. Script[c] \in Seq([kind : Kinds, times : Nat \ {0}]) BY CallsAssumption
  <2>2. step \in [kind : Kinds, times : Nat \ {0}] BY <1>1, <2>1, ElementOfSeq
  <2>. QED BY <2>2
<1>3. /\ step.kind \notin Writes => step.times = 1
      /\ step.kind = "final" => p.at = len
  <2>1. p.at \in DOMAIN Script[c] BY <1>1, CallsAssumption, LenProperties
  <2>. QED BY <2>1, ScriptAssumption
<1>4. Step(c) = step BY DEF Step
<1>5. CASE p.press + 1 < step.times
  <2>1. Advanced(c) = [p EXCEPT !.press = @ + 1] BY <1>4, <1>5 DEF Advanced
  <2>2. Place(c, Advanced(c)) BY <1>1, <1>5, <2>1 DEF Place
  <2>3. step.kind \in Writes BY <1>1, <1>3, <1>5
  <2>4. Advanced(c).done = p.done /\ Advanced(c).press = p.press + 1 /\ Advanced(c).at = p.at
    BY <2>1 DEF Place
  <2>. QED BY <1>1, <1>4, <2>2, <2>3, <2>4 DEF Sent
<1>6. CASE ~(p.press + 1 < step.times)
  <2>1. Advanced(c) = [done |-> IF step.kind = "final" THEN p.done ELSE p.done + 1,
                       at |-> p.at + 1, press |-> 0]
    BY <1>4, <1>6, Zenon DEF Advanced
  <2>2. p.press = step.times - 1
    <3> DEFINE n == p.press
               m == step.times
    <3>1. n \in Nat /\ m \in Nat /\ n < m /\ ~(n + 1 < m) BY <1>1, <1>2, <1>6
    <3> HIDE DEF n, m
    <3>2. n = m - 1 BY <3>1
    <3>. QED BY <3>2 DEF n, m
  <2>3. Presses(c, p.done + 1) = Amount(c, p.done + 1) + Presses(c, p.done) BY <1>1, PressesStep
  <2>4. Amount(c, p.done + 1) = IF step.kind \in Writes THEN step.times ELSE 0
    BY <1>1 DEF Amount
  <2>5. Presses(c, p.done + 1) \in Nat BY <1>1, <1>2, <2>3, <2>4
  <2>6. p.at + 1 <= len => 1 <= Script[c][p.at + 1].times
                           /\ Script[c][p.at + 1].times \in Nat
    <3> SUFFICES ASSUME p.at + 1 <= len PROVE Script[c][p.at + 1].times \in Nat \ {0}
      OBVIOUS
    <3>1. p.at + 1 \in 1 .. len BY <1>1
    <3>2. Script[c] \in Seq([kind : Kinds, times : Nat \ {0}]) BY CallsAssumption
    <3> DEFINE R == [kind : Kinds, times : Nat \ {0}]
               next == p.at + 1
    <3>3. Script[c] \in Seq(R) /\ next \in 1 .. len BY <3>1, <3>2
    <3> HIDE DEF R, next
    <3>4. Script[c][next] \in R BY <3>3, ElementOfSeq
    <3>. QED BY <3>4 DEF R, next
  <2>7. Place(c, Advanced(c))
    <3> DEFINE a == Advanced(c)
    <3>1. /\ a = [done |-> a.done, at |-> a.at, press |-> a.press]
          /\ a.done = (IF step.kind = "final" THEN p.done ELSE p.done + 1)
          /\ a.at = p.at + 1 /\ a.press = 0
      BY <2>1
    <3> HIDE DEF a
    <3>2. a.done \in Nat /\ a.at \in 1 .. len + 1 BY <1>1, <3>1
    <3>3. Presses(c, a.done) \in Nat BY <1>1, <2>5, <3>1
    <3>4. a.at <= len => a.done = a.at - 1 /\ a.press < Script[c][a.at].times
      <4> SUFFICES ASSUME a.at <= len PROVE a.done = a.at - 1 /\ a.press < Script[c][a.at].times
        OBVIOUS
      <4>1. step.kind # "final" BY <1>1, <1>3, <3>1
      <4>2. a.done = a.at - 1 BY <1>1, <3>1, <4>1
      <4>3. 1 <= Script[c][p.at + 1].times BY <2>6, <3>1
      <4>4. Script[c][p.at + 1].times \in Nat BY <2>6, <3>1
      <4>5. a.press < Script[c][p.at + 1].times BY <3>1, <4>3, <4>4
      <4>. QED BY <3>1, <4>2, <4>5
    <3>5. a \in [done : Nat, at : 1 .. len + 1, press : Nat] BY <3>1, <3>2
    <3>6. Place(c, a) BY <3>1, <3>3, <3>4, <3>5, Zenon DEF Place
    <3>. QED BY <3>6 DEF a
  <2>8. "final" \notin Writes BY DEF Writes
  <2>9. Advanced(c).press = 0 /\ Advanced(c).done = IF step.kind = "final" THEN p.done ELSE p.done + 1
    BY <2>1
  <2>10. step.kind = "final" => p.press = 0 BY <1>2, <1>3, <2>2, <2>8
  <2>11. Presses(c, Advanced(c).done) + Advanced(c).press
          = Sent(c) + (IF step.kind \in Writes THEN 1 ELSE 0)
    <3>1. CASE step.kind = "final" BY <1>1, <2>8, <2>9, <2>10, <3>1 DEF Sent
    <3>2. CASE step.kind # "final" /\ step.kind \in Writes
      <4> DEFINE n == p.press
                 m == step.times
                 k == Presses(c, p.done)
      <4>1. n \in Nat /\ m \in Nat /\ k \in Nat /\ n = m - 1 BY <1>1, <1>2, <2>2
      <4>2. Presses(c, Advanced(c).done) + Advanced(c).press = (m + k) + 0
        BY <2>3, <2>4, <2>9, <3>2
      <4>3. Sent(c) = k + n BY DEF Sent
      <4> HIDE DEF n, m, k
      <4>4. (m + k) + 0 = (k + n) + 1 BY <4>1
      <4>. QED BY <3>2, <4>2, <4>3, <4>4
    <3>3. CASE step.kind # "final" /\ step.kind \notin Writes
      <4>1. p.press = 0 BY <1>2, <1>3, <2>2, <3>3
      <4>. QED BY <1>1, <2>3, <2>4, <2>9, <3>3, <4>1 DEF Sent
    <3>. QED BY <3>1, <3>2, <3>3
  <2>. QED BY <1>4, <2>7, <2>9, <2>11
<1>. QED BY <1>5, <1>6

\* A batch that has not come to its steps, ...
LEMMA StillEarly ==
    ASSUME NEW c \in Batches, ReportOf(c), pc[c] \in Early, pc'[c] \in Early, job'[c] \notin InStep,
           prog'[c] = prog[c], landed'[c] = landed[c], report'[c] = report[c]
    PROVE  ReportOf(c)'
BY DEF ReportOf, Place, Underway, Returned, Early, Over

\* ... one that returns before them, ...
LEMMA EndedEarly ==
    ASSUME NEW c \in Batches, ReportOf(c), pc[c] \in Early, pc'[c] \in Over, job'[c] \notin InStep,
           prog'[c] = prog[c], landed'[c] = landed[c],
           report'[c] = [done |-> 0, press |-> 0, uncertain |-> FALSE]
    PROVE  ReportOf(c)'
<1>1. Presses(c, 0) = 0 BY PressesStep
<1>2. landed[c] = 0 BY DEF ReportOf, Underway
<1>3. Returned(c)' BY <1>1, <1>2 DEF Returned, Claimed, InStep, AtWork
<1>4. Place(c, prog[c])' BY DEF ReportOf, Place
<1>5. Underway(c)' BY DEF Underway, Early, Over
<1>. QED BY <1>2, <1>3, <1>4, <1>5 DEF ReportOf

\* ... one that leaves its loop with the place it has reached, ...
LEMMA StoppedAt ==
    ASSUME NEW c \in Batches, landed[c] \in Nat, NEW p, Place(c, p), NEW u \in BOOLEAN,
           Presses(c, p.done) + p.press <= landed[c],
           landed[c] <= Presses(c, p.done) + p.press + (IF u THEN 1 ELSE 0),
           pc'[c] = "finally", prog'[c] = p, landed'[c] = landed[c],
           report'[c] = [done |-> p.done, press |-> p.press, uncertain |-> u],
           job'[c] = "queued" => flight'[c].cancelled,
           job'[c] = "inside" => /\ landed[c] = Presses(c, p.done) + p.press
                                 /\ u \/ Script[c][p.at].kind \notin Writes
    PROVE  ReportOf(c)'
<1>1. p.press \in Nat /\ Presses(c, p.done) \in Nat BY DEF Place
<1>2. Claimed(c)' = Presses(c, p.done) + p.press BY DEF Claimed
<1>3. Returned(c)' BY <1>1, <1>2 DEF Returned, Step
<1>4. Underway(c)' BY DEF Underway, Early
<1>. QED BY <1>3, <1>4 DEF ReportOf, Over

LEMMA StoppedSure ==
    ASSUME NEW c \in Batches, landed[c] \in Nat, NEW p, Place(c, p),
           Presses(c, p.done) + p.press = landed[c],
           pc'[c] = "finally", prog'[c] = p, landed'[c] = landed[c],
           report'[c] = [done |-> p.done, press |-> p.press, uncertain |-> FALSE],
           job'[c] \notin {"queued", "inside"}
    PROVE  ReportOf(c)'
<1>1. landed[c] <= landed[c] /\ landed[c] <= landed[c] + 0 OBVIOUS
<1>2. FALSE \in BOOLEAN /\ (IF FALSE THEN 1 ELSE 0) = 0 OBVIOUS
<1>. QED BY <1>1, <1>2, StoppedAt

\* ... and one that has returned.
LEMMA StillOver ==
    ASSUME NEW c \in Batches, ReportOf(c), pc[c] \in Over, pc'[c] \in Over,
           prog'[c] = prog[c], landed'[c] = landed[c], report'[c] = report[c],
           \/ job'[c] \notin {"queued", "inside"}
           \/ job'[c] = job[c] /\ flight'[c].cancelled = flight[c].cancelled
    PROVE  ReportOf(c)'
<1>1. Claimed(c)' = Claimed(c) /\ Step(c)' = Step(c) BY DEF Claimed, Step
<1>2. Returned(c)' BY <1>1 DEF ReportOf, Returned
<1>3. Place(c, prog[c])' BY DEF ReportOf, Place
<1>4. Underway(c)' BY DEF Underway, Early, Over
<1>. QED BY <1>2, <1>3, <1>4 DEF ReportOf

\* A step that is none of a batch's own leaves it as it is.
LEMMA ReportFrame ==
    ASSUME NEW c \in Batches, ReportOf(c), pc'[c] = pc[c], job'[c] = job[c], prog'[c] = prog[c],
           landed'[c] = landed[c], report'[c] = report[c], flight'[c] = flight[c]
    PROVE  ReportOf(c)'
<1>1. Claimed(c)' = Claimed(c) /\ Sent(c)' = Sent(c) /\ Step(c)' = Step(c)
  BY DEF Claimed, Sent, Step
<1>2. Returned(c)' BY <1>1 DEF ReportOf, Returned
<1>3. Place(c, prog[c])' BY DEF ReportOf, Place
<1>4. Underway(c)' BY <1>1 DEF ReportOf, Underway, Uncounted
<1>. QED BY <1>2, <1>3, <1>4 DEF ReportOf

LEMMA ReportCoroutine ==
    ASSUME SessionInv, BandInv, ReportInv, NEW c \in Batches, Coroutine(c) PROVE ReportOf(c)'
<1> USE DEF Goto, Worker
<1>0. /\ c \in Calls /\ c \notin Desktops /\ ReportOf(c)
      /\ DOMAIN prog = Calls /\ DOMAIN landed = Calls /\ DOMAIN report = Calls
      /\ DOMAIN pc = Calls /\ DOMAIN job = Calls /\ DOMAIN flight = Calls
  BY CallsAssumption DEF Calls, ReportInv, SessionInv, TypeShared, BandInv, TypeBand
<1>s. "announce" \notin InStep /\ "idle" \notin InStep /\ "band" \notin InStep
  BY DEF InStep, AtWork
<1>1. CASE Start(c)
  <2>1. pc[c] \in Early /\ job[c] \notin InStep BY <1>0, <1>1 DEF Start, Early, ReportOf, Underway
  <2>2. prog' = prog /\ landed' = landed BY <1>1 DEF Start
  <2>3. CASE EndEarly(c) /\ job' = job
    BY <1>0, <2>1, <2>2, <2>3, EndedEarly DEF EndEarly, Reported, Over
  <2>4. CASE report' = report /\ pc'[c] \in {"approve", "announce"} /\ job'[c] \in {job[c], "announce"}
    BY <1>0, <1>s, <2>1, <2>2, <2>4, StillEarly DEF Early
  <2>. QED BY <1>0, <1>1, <2>3, <2>4 DEF Start
<1>2. CASE Approve(c)
  <2>1. pc[c] \in Early /\ job[c] \notin InStep BY <1>0, <1>2 DEF Approve, Early, ReportOf, Underway
  <2>2. prog' = prog /\ landed' = landed BY <1>2 DEF Approve
  <2>3. CASE EndEarly(c) /\ job' = job
    BY <1>0, <2>1, <2>2, <2>3, EndedEarly DEF EndEarly, Reported, Over
  <2>4. CASE report' = report /\ pc'[c] = "announce" /\ job'[c] = "announce"
    BY <1>0, <1>s, <2>1, <2>2, <2>4, StillEarly DEF Early
  <2>. QED BY <1>0, <1>2, <2>3, <2>4 DEF Approve
<1>3. CASE AfterTold(c)
  <2>1. pc[c] \in Early BY <1>3 DEF AfterTold, Early
  <2>2. prog' = prog /\ landed' = landed BY <1>3 DEF AfterTold
  <2>3. CASE EndEarly(c) /\ job'[c] = "idle"
    BY <1>0, <1>s, <2>1, <2>2, <2>3, EndedEarly DEF EndEarly, Reported, Over
  <2>4. CASE report' = report /\ pc'[c] = "band" /\ job'[c] = "band"
    BY <1>0, <1>s, <2>1, <2>2, <2>4, StillEarly DEF Early
  <2>. QED BY <1>0, <1>3, <2>3, <2>4 DEF AfterTold
<1>4. CASE AfterBand(c)
  <2>1. pc[c] \in Early /\ job'[c] = "idle" BY <1>0, <1>4 DEF AfterBand, Early
  <2>2. prog' = prog /\ landed' = landed BY <1>4 DEF AfterBand
  <2>3. CASE EndEarly(c)
    BY <1>0, <1>s, <2>1, <2>2, <2>3, EndedEarly DEF EndEarly, Reported, Over
  <2>4. CASE report' = report /\ pc'[c] = "step"
    <3>1. landed[c] = 0 /\ prog[c] = [done |-> 0, at |-> 1, press |-> 0]
      BY <1>0, <2>1 DEF ReportOf, Underway
    <3>2. Sent(c)' = 0
      <4>1. Presses(c, 0) = 0 BY PressesStep
      <4>. QED BY <2>2, <3>1, <4>1 DEF Sent
    <3>3. Underway(c)' BY <2>1, <2>2, <2>4, <3>1, <3>2 DEF Underway, Early
    <3>4. Returned(c)' BY <2>4 DEF Returned, Over
    <3>5. report'[c] = None
      BY <1>0, <2>1, <2>4 DEF ReportOf, Early, Over
    <3>. QED BY <1>0, <2>2, <3>3, <3>4, <3>5 DEF ReportOf, Place
  <2>. QED BY <1>0, <1>4, <2>3, <2>4 DEF AfterBand
<1>5. CASE StepStart(c)
  <2>1. pc[c] = "step" /\ job[c] = "idle" /\ landed[c] = Sent(c) /\ landed' = landed
    BY <1>0, <1>5 DEF StepStart, ReportOf, Underway
  <2>2. Sent(c) \in Nat /\ landed[c] \in Nat BY <1>0 DEF ReportOf, Place, Sent
  <2>3. CASE Stop(c, prog[c], FALSE) /\ job' = job
    <3>1. /\ pc'[c] = "finally" /\ prog'[c] = prog[c] /\ job'[c] = "idle"
          /\ report'[c] = [done |-> prog[c].done, press |-> prog[c].press, uncertain |-> FALSE]
      BY <1>0, <2>1, <2>3 DEF Stop, Reported
    <3>2. Presses(c, prog[c].done) + prog[c].press = landed[c] BY <2>1 DEF Sent
    <3>3. Place(c, prog[c]) BY <1>0 DEF ReportOf
    <3>. QED BY <2>1, <2>2, <3>1, <3>2, <3>3, StoppedSure
  <2>4. CASE prog[c].at <= Len(Script[c]) /\ Submit(c) /\ UNCHANGED <<prog, report>>
    <3>1. /\ pc'[c] = "await" /\ job'[c] = "queued" /\ flight'[c].outcome = FALSE
          /\ prog' = prog /\ report' = report
      BY <1>0, <2>4 DEF Submit, BandInv, TypeBand, Flights
    <3>2. Uncounted(c)' = 0 /\ Sent(c)' = Sent(c) BY <3>1 DEF Uncounted, Sent
    <3>3. Underway(c)' BY <2>1, <2>2, <2>4, <3>1, <3>2 DEF Underway, Early, InStep, AtWork
    <3>4. Returned(c)' BY <3>1 DEF Returned, Over
    <3>5. report'[c] = None BY <1>0, <2>1, <3>1 DEF ReportOf, Over
    <3>. QED BY <1>0, <2>1, <3>1, <3>3, <3>4, <3>5 DEF ReportOf, Place
  <2>. QED BY <1>5, <2>3, <2>4 DEF StepStart
<1>6. CASE NextPress(c)
  <2>1. pc[c] = "gap" /\ landed[c] = Sent(c) /\ landed' = landed /\ prog[c].at <= Len(Script[c])
    BY <1>0, <1>6 DEF NextPress, ReportOf, Underway
  <2>2. Sent(c) \in Nat /\ landed[c] \in Nat BY <1>0 DEF ReportOf, Place, Sent
  <2>3. /\ pc'[c] = "await" /\ job'[c] = "queued" /\ flight'[c].outcome = FALSE
        /\ prog' = prog /\ report' = report
    BY <1>0, <1>6 DEF NextPress, Submit, BandInv, TypeBand, Flights
  <2>4. Uncounted(c)' = 0 /\ Sent(c)' = Sent(c) BY <2>3 DEF Uncounted, Sent
  <2>5. Underway(c)' BY <2>1, <2>2, <2>3, <2>4 DEF Underway, Early, InStep, AtWork
  <2>6. Returned(c)' BY <2>3 DEF Returned, Over
  <2>7. report'[c] = None BY <1>0, <2>1, <2>3 DEF ReportOf, Over
  <2>. QED BY <1>0, <2>1, <2>3, <2>5, <2>6, <2>7 DEF ReportOf, Place
<1>7. CASE Resume(c)
  <2>1. /\ pc[c] = "await" /\ job[c] \in {"done", "failed"} /\ job'[c] = "idle" /\ landed' = landed
        /\ prog[c].at <= Len(Script[c]) /\ Place(c, prog[c]) /\ landed[c] \in Nat
        /\ landed[c] = Sent(c) + Uncounted(c)
    BY <1>0, <1>7 DEF Resume, ReportOf, Underway
  <2>2. Sent(c) \in Nat BY <2>1 DEF Place, Sent
  <2>3. CASE job[c] = "failed" /\ Stop(c, prog[c], Step(c).kind # "final")
    <3> DEFINE u == Step(c).kind # "final"
    <3>1. /\ pc'[c] = "finally" /\ prog'[c] = prog[c]
          /\ report'[c] = [done |-> prog[c].done, press |-> prog[c].press, uncertain |-> u]
      BY <1>0, <2>3 DEF Stop, Reported
    <3> HIDE DEF u
    <3>2. Presses(c, prog[c].done) + prog[c].press = landed[c] /\ Sent(c) <= Sent(c) + 1
      BY <2>1, <2>2, <2>3 DEF Sent, Uncounted
    <3>3. u \in BOOLEAN BY DEF u
    <3>. QED BY <2>1, <3>1, <3>2, <3>3, StoppedAt
  <2> DEFINE a == Advanced(c)
  <2>4. ASSUME job[c] = "done"
        PROVE  /\ Place(c, a) /\ Presses(c, a.done) + a.press = landed[c]
               /\ a.press > 0 => a.at = prog[c].at
    <3>1. Uncounted(c) = IF Step(c).kind \in Writes THEN 1 ELSE 0 BY <2>4 DEF Uncounted
    <3>. QED BY <1>0, <2>1, <3>1, AdvancedPlace
  <2>5. CASE job[c] = "done" /\ Stop(c, a, FALSE)
    <3> HIDE DEF a
    <3>1. /\ pc'[c] = "finally" /\ prog'[c] = a
          /\ report'[c] = [done |-> a.done, press |-> a.press, uncertain |-> FALSE]
      BY <1>0, <2>5 DEF Stop, Reported
    <3>. QED BY <2>1, <2>4, <2>5, <3>1, StoppedSure
  <2>6. CASE /\ job[c] = "done" /\ prog' = [prog EXCEPT ![c] = a] /\ report' = report
             /\ pc' = [pc EXCEPT ![c] = IF a.press > 0 THEN "gap" ELSE "step"]
    <3> HIDE DEF a
    <3>1. prog'[c] = a /\ pc'[c] = (IF a.press > 0 THEN "gap" ELSE "step") BY <1>0, <2>6
    <3>2. Place(c, prog[c])' /\ Sent(c)' = landed[c] BY <2>4, <2>6, <3>1 DEF Sent, Place
    <3>3. Underway(c)' BY <2>1, <2>4, <2>6, <3>1, <3>2 DEF Underway, Early
    <3>4. Returned(c)' BY <3>1 DEF Returned, Over
    <3>5. report'[c] = None BY <1>0, <2>1, <2>6 DEF ReportOf, Over
    <3>. QED BY <2>1, <3>2, <3>3, <3>4, <3>5 DEF ReportOf
  <2>. QED BY <1>7, <2>1, <2>3, <2>5, <2>6 DEF Resume
<1>8. CASE Exited(c) \/ FinallyDeferred(c) \/ Finally(c)
  <2>1. pc[c] \in Over /\ pc'[c] \in Over
    BY <1>0, <1>8 DEF Exited, FinallyDeferred, Finally, Over
  <2>2. prog' = prog /\ landed' = landed /\ report' = report /\ job' = job
    BY <1>8 DEF Exited, FinallyDeferred, Finally, own
  <2>3. flight'[c].cancelled = flight[c].cancelled
    BY <1>0, <1>8 DEF Exited, FinallyDeferred, Finally, own, BandInv, TypeBand, Flights
  <2>. QED BY <1>0, <2>1, <2>2, <2>3, StillOver
<1>. QED BY <1>1, <1>2, <1>3, <1>4, <1>5, <1>6, <1>7, <1>8 DEF Coroutine

LEMMA ReportThread ==
    ASSUME SessionInv, BandInv, ReportInv, NEW c \in Batches, Thread(c) PROVE ReportOf(c)'
<1> USE DEF Worker
<1>0. /\ c \in Calls /\ c \notin Desktops /\ ReportOf(c)
      /\ DOMAIN prog = Calls /\ DOMAIN landed = Calls /\ DOMAIN report = Calls
      /\ DOMAIN pc = Calls /\ DOMAIN job = Calls /\ DOMAIN flight = Calls
      /\ pc[c] \in Places
  BY CallsAssumption DEF Calls, ReportInv, SessionInv, TypeShared, BandInv, TypeBand
<1>s. pc[c] \in Early \cup {"step", "gap", "await"} \cup Over BY <1>0 DEF Places, Early, Over
\* A thread of the disclosure or the band: the batch has not come to its steps, or
\* was cancelled before them.
<1>1. ASSUME job[c] \notin InStep, job'[c] \notin InStep, job[c] # "idle",
             UNCHANGED <<pc, prog, landed, report>>
      PROVE  ReportOf(c)'
  <2>1. pc[c] \in Early \/ pc[c] \in Over
    BY <1>0, <1>s, <1>1 DEF ReportOf, Underway
  <2>2. job'[c] \notin {"queued", "inside"} BY <1>1 DEF InStep, AtWork
  <2>. QED BY <1>0, <1>1, <2>1, <2>2, StillEarly, StillOver
<1>2. CASE TellFast(c) \/ TellStart(c) \/ TellEnd(c) \/ BandEnter(c)
  <2>1. UNCHANGED <<pc, prog, landed, report>>
    BY <1>2 DEF TellFast, TellStart, TellEnd, BandEnter, own
  <2>2. /\ job[c] \in {"announce", "building", "band"}
        /\ job'[c] \in {"turned", "told", "building", "idle", "entered"}
    BY <1>0, <1>2 DEF TellFast, TellStart, TellEnd, BandEnter
  <2>. QED BY <1>1, <2>1, <2>2 DEF InStep, AtWork
\* A worker of a step: the batch waits for it, or has returned.
<1>3. job[c] \in InStep => pc[c] = "await" \/ pc[c] \in Over
  BY <1>0, <1>s DEF ReportOf, Underway, InStep, AtWork
<1>4. CASE WorkerEnter(c)
  <2>1. /\ job[c] = "queued" /\ ~flight[c].cancelled /\ job'[c] = "inside"
        /\ UNCHANGED <<pc, prog, landed, report, flight>>
    BY <1>0, <1>4 DEF WorkerEnter, own
  <2>2. pc[c] = "await" BY <1>0, <1>3, <2>1 DEF ReportOf, Returned, InStep, AtWork
  <2>3. Uncounted(c)' = Uncounted(c) /\ Sent(c)' = Sent(c) BY <2>1 DEF Uncounted, Sent
  <2>4. Underway(c)'
    BY <1>0, <2>1, <2>2, <2>3 DEF ReportOf, Underway, Early, InStep, AtWork
  <2>5. Returned(c)' BY <2>1, <2>2 DEF Returned, Over
  <2>. QED BY <1>0, <2>1, <2>4, <2>5 DEF ReportOf, Place
<1>5. CASE WorkerRefused(c) \/ WorkerFails(c)
  <2>1. /\ job[c] \in {"queued", "inside"} /\ job'[c] = "raised"
        /\ UNCHANGED <<pc, prog, landed, report, flight>>
    BY <1>0, <1>5 DEF WorkerRefused, WorkerFails, own
  <2>2. CASE pc[c] = "await"
    <3>1. Uncounted(c)' = Uncounted(c) /\ Sent(c)' = Sent(c) BY <2>1 DEF Uncounted, Sent
    <3>2. Underway(c)'
      BY <1>0, <2>1, <2>2, <3>1 DEF ReportOf, Underway, Early, InStep, AtWork
    <3>3. Returned(c)' BY <2>1, <2>2 DEF Returned, Over
    <3>. QED BY <1>0, <2>1, <3>2, <3>3 DEF ReportOf, Place
  <2>3. CASE pc[c] \in Over BY <1>0, <2>1, <2>3, StillOver
  <2>. QED BY <1>3, <2>1, <2>2, <2>3 DEF InStep, AtWork
<1>6. CASE WorkerActs(c)
  <2>1. /\ job[c] = "inside" /\ job'[c] = "acted" /\ UNCHANGED <<pc, prog, report, flight>>
        /\ landed'[c] = IF Step(c).kind \in Writes THEN landed[c] + 1 ELSE landed[c]
    BY <1>0, <1>6 DEF WorkerActs
  <2>2. landed[c] \in Nat /\ Place(c, prog[c]) BY <1>0 DEF ReportOf
  <2>3. Sent(c) \in Nat /\ Sent(c)' = Sent(c) /\ Step(c)' = Step(c)
    BY <2>1, <2>2 DEF Sent, Place, Step
  <2>4. landed'[c] \in Nat BY <2>1, <2>2
  <2>5. CASE pc[c] = "await"
    <3>1. Uncounted(c) = 0 /\ Uncounted(c)' = IF Step(c).kind \in Writes THEN 1 ELSE 0
      BY <2>1, <2>3 DEF Uncounted
    <3>2. landed[c] = Sent(c)
      <4>1. landed[c] = Sent(c) + 0 BY <1>0, <2>5, <3>1 DEF ReportOf, Underway
      <4>. QED BY <2>3, <4>1
    <3>3. landed'[c] = Sent(c)' + Uncounted(c)' BY <2>1, <2>3, <3>1, <3>2
    <3>4. Underway(c)'
      BY <1>0, <2>1, <2>5, <3>3 DEF ReportOf, Underway, Early, InStep, AtWork
    <3>5. Returned(c)' BY <2>1, <2>5 DEF Returned, Over
    <3>. QED BY <1>0, <2>1, <2>2, <2>4, <2>5, <3>4, <3>5 DEF ReportOf, Place, Over
  <2>6. CASE pc[c] \in Over
    <3>1. /\ landed[c] = Claimed(c) /\ (report[c].uncertain \/ Step(c).kind \notin Writes)
          /\ Presses(c, report[c].done) \in Nat /\ report[c].press \in Nat
      BY <1>0, <2>1, <2>6 DEF ReportOf, Returned
    <3>2. Claimed(c)' = Claimed(c) BY <2>1 DEF Claimed
    <3>3. /\ Claimed(c)' <= landed'[c]
          /\ landed'[c] <= Claimed(c)' + (IF report'[c].uncertain THEN 1 ELSE 0)
      BY <2>1, <2>2, <3>1, <3>2
    <3>4. Returned(c)' BY <2>1, <3>1, <3>3 DEF Returned
    <3>5. Underway(c)' BY <2>1, <2>6 DEF Underway, Early, Over
    <3>. QED BY <1>0, <2>1, <2>2, <2>4, <2>6, <3>4, <3>5 DEF ReportOf, Place
  <2>. QED BY <1>3, <2>1, <2>5, <2>6 DEF InStep, AtWork
<1>7. CASE WorkerOutcome(c)
  <2>1. /\ job[c] = "acted" /\ job'[c] = "leaving" /\ UNCHANGED <<pc, prog, landed, report>>
        /\ flight'[c].outcome /\ flight'[c].cancelled = flight[c].cancelled
    BY <1>0, <1>7 DEF WorkerOutcome, shared, BandInv, TypeBand, Flights
  <2>2. CASE pc[c] = "await"
    <3>1. Uncounted(c)' = Uncounted(c) /\ Sent(c)' = Sent(c) BY <2>1 DEF Uncounted, Sent, Step
    <3>2. Underway(c)'
      BY <1>0, <2>1, <2>2, <3>1 DEF ReportOf, Underway, Early, InStep, AtWork
    <3>3. Returned(c)' BY <2>1, <2>2 DEF Returned, Over
    <3>. QED BY <1>0, <2>1, <3>2, <3>3 DEF ReportOf, Place
  <2>3. CASE pc[c] \in Over BY <1>0, <2>1, <2>3, StillOver
  <2>. QED BY <1>3, <2>1, <2>2, <2>3 DEF InStep, AtWork
<1>8. CASE WorkerLeaves(c)
  <2>1. /\ UNCHANGED <<pc, prog, landed, report>>
        /\ \/ job[c] = "leaving" /\ job'[c] = "done"
           \/ job[c] = "raised" /\ job'[c] = "failed"
        /\ flight'[c].outcome = flight[c].outcome
    BY <1>0, <1>8 DEF WorkerLeaves, shared, BandInv, TypeBand, Flights
  <2>2. CASE pc[c] = "await"
    <3>1. Uncounted(c)' = Uncounted(c) /\ Sent(c)' = Sent(c) BY <2>1 DEF Uncounted, Sent, Step
    <3>2. Underway(c)'
      BY <1>0, <2>1, <2>2, <3>1 DEF ReportOf, Underway, Early, InStep, AtWork
    <3>3. Returned(c)' BY <2>1, <2>2 DEF Returned, Over
    <3>. QED BY <1>0, <2>1, <3>2, <3>3 DEF ReportOf, Place
  <2>3. CASE pc[c] \in Over BY <1>0, <2>1, <2>3, StillOver
  <2>. QED BY <1>3, <2>1, <2>2, <2>3 DEF InStep, AtWork
<1>9. CASE BandExits(c) BY <1>0, <1>9, ReportFrame DEF BandExits, own
<1>. QED BY <1>2, <1>4, <1>5, <1>6, <1>7, <1>8, <1>9 DEF Thread

LEMMA ReportCancel ==
    ASSUME SessionInv, BandInv, ReportInv, NEW c \in Batches, Cancel(c) PROVE ReportOf(c)'
<1> USE DEF Goto, Worker
<1>0. /\ c \in Calls /\ c \notin Desktops /\ ReportOf(c)
      /\ DOMAIN prog = Calls /\ DOMAIN landed = Calls /\ DOMAIN report = Calls
      /\ DOMAIN pc = Calls /\ DOMAIN job = Calls /\ flight \in [Calls -> Flights]
      /\ landed[c] \in Nat /\ Place(c, prog[c])
  BY CallsAssumption DEF Calls, ReportInv, ReportOf, SessionInv, TypeShared, BandInv, TypeBand
<1>1. CASE CancelEarly(c)
  <2>1. pc[c] \in Early /\ job[c] \notin InStep
    BY <1>0, <1>1 DEF CancelEarly, Early, ReportOf, Underway
  <2>. QED BY <1>0, <1>1, <2>1, EndedEarly DEF CancelEarly, EndEarly, Reported, Over
<1>2. CASE CancelBand(c)
  <2>1. pc[c] \in Early /\ job[c] \notin InStep
    BY <1>0, <1>2 DEF CancelBand, Early, ReportOf, Underway
  <2>2. job'[c] \in {job[c], "idle"} /\ pc'[c] \in {"exit", "ended"}
    BY <1>0, <1>2 DEF CancelBand
  <2>3. job'[c] \notin InStep BY <2>1, <2>2 DEF InStep, AtWork
  <2>. QED BY <1>0, <1>2, <2>1, <2>2, <2>3, EndedEarly DEF CancelBand, Reported, Over
<1>3. CASE CancelStep(c)
  <2> DEFINE p == IF flight[c].outcome THEN Advanced(c) ELSE prog[c]
             u == flight[c].running /\ ~flight[c].outcome /\ Step(c).kind # "final"
  <2>1. /\ pc[c] = "await" /\ job' = job /\ landed' = landed
        /\ pc'[c] = "finally" /\ prog'[c] = p /\ flight'[c].cancelled
        /\ report'[c] = [done |-> p.done, press |-> p.press, uncertain |-> u]
    BY <1>0, <1>3 DEF CancelStep, Stop, Reported, Flights
  <2>2. /\ prog[c].at <= Len(Script[c]) /\ job[c] \in InStep /\ landed[c] = Sent(c) + Uncounted(c)
        /\ flight[c].outcome <=> job[c] \in {"leaving", "done"}
    BY <1>0, <2>1 DEF ReportOf, Underway
  <2>3. Sent(c) \in Nat BY <1>0 DEF Place, Sent
  <2>4. CASE flight[c].outcome
    <3>1. p = Advanced(c) /\ u = FALSE BY <2>4
    <3>2. Uncounted(c) = IF Step(c).kind \in Writes THEN 1 ELSE 0 BY <2>2, <2>4 DEF Uncounted
    <3>3. Place(c, p) /\ Presses(c, p.done) + p.press = landed[c]
      BY <1>0, <2>2, <3>1, <3>2, AdvancedPlace
    <3>4. job'[c] \notin {"queued", "inside"} BY <2>1, <2>2, <2>4
    <3> HIDE DEF p, u
    <3>. QED BY <1>0, <2>1, <3>1, <3>3, <3>4, StoppedSure
  <2>5. CASE ~flight[c].outcome
    <3>1. p = prog[c] BY <2>5
    <3>2. job[c] \notin {"leaving", "done"} BY <2>2, <2>5
    <3>3. Uncounted(c) = 1 => job[c] = "acted" /\ Step(c).kind \in Writes
      BY <3>2 DEF Uncounted
    <3>4. job[c] \in {"acted", "inside"} => flight[c].running
      BY <1>0 DEF BandInv, Flying, FlightOf, AtWork
    <3>5. Step(c).kind \in Writes => Step(c).kind # "final" BY DEF Writes
    <3>6. Uncounted(c) \in {0, 1} /\ (Uncounted(c) = 1 => u) BY <2>5, <3>3, <3>4, <3>5 DEF Uncounted
    <3>7. Presses(c, p.done) + p.press = Sent(c) BY <3>1 DEF Sent
    <3>8. u \in BOOLEAN BY Zenon
    <3>9. job[c] = "inside" => u \/ Script[c][p.at].kind \notin Writes
      BY <2>5, <3>1, <3>4, <3>5 DEF Step
    <3>10. job[c] = "inside" => Uncounted(c) = 0 BY DEF Uncounted
    <3> HIDE DEF p, u
    <3>11. /\ Sent(c) <= landed[c]
           /\ landed[c] <= Sent(c) + (IF u THEN 1 ELSE 0)
           /\ job[c] = "inside" => landed[c] = Sent(c)
      BY <2>2, <2>3, <3>6, <3>10
    <3>12. Place(c, p) BY <1>0, <3>1
    <3>. QED BY <1>0, <2>1, <3>7, <3>8, <3>9, <3>11, <3>12, StoppedAt
  <2>. QED BY <2>4, <2>5
<1>4. CASE CancelQueued(c) BY <1>0, <1>4 DEF CancelQueued
<1>5. CASE CancelGap(c)
  <2>1. pc[c] = "gap" /\ job[c] = "idle" /\ landed[c] = Sent(c) /\ landed' = landed /\ job' = job
    BY <1>0, <1>5 DEF CancelGap, ReportOf, Underway
  <2>2. /\ pc'[c] = "finally" /\ prog'[c] = prog[c]
        /\ report'[c] = [done |-> prog[c].done, press |-> prog[c].press, uncertain |-> FALSE]
    BY <1>0, <1>5 DEF CancelGap, Stop, Reported
  <2>. QED BY <1>0, <2>1, <2>2, StoppedSure DEF Sent
<1>6. CASE CancelExit(c)
  <2>1. pc[c] \in Over /\ pc'[c] \in Over BY <1>0, <1>6 DEF CancelExit, Over
  <2>. QED BY <1>0, <1>6, <2>1, StillOver DEF CancelExit, own
<1>. QED BY <1>1, <1>2, <1>3, <1>4, <1>5, <1>6 DEF Cancel

\* Nothing but its own coroutine and worker touches what a batch counts.
LEMMA OwnSteps ==
    ASSUME SessionInv, BandInv, ReportInv, NEW d \in Calls, Coroutine(d) \/ Thread(d) \/ Cancel(d)
    PROVE  /\ DOMAIN prog' = Calls /\ DOMAIN landed' = Calls /\ DOMAIN report' = Calls
           /\ \A c \in Calls \ {d} :
                /\ pc'[c] = pc[c] /\ job'[c] = job[c] /\ flight'[c] = flight[c]
                /\ prog'[c] = prog[c] /\ landed'[c] = landed[c] /\ report'[c] = report[c]
<1> USE DEF Goto, Worker, EndEarly, Reported, Stop, Submit, shared, own, band
<1>0. /\ DOMAIN prog = Calls /\ DOMAIN landed = Calls /\ DOMAIN report = Calls
      /\ DOMAIN pc = Calls /\ DOMAIN job = Calls /\ DOMAIN flight = Calls
  BY DEF ReportInv, SessionInv, TypeShared, BandInv, TypeBand
<1> DEFINE Kept == /\ DOMAIN prog' = Calls /\ DOMAIN landed' = Calls /\ DOMAIN report' = Calls
                   /\ \A c \in Calls \ {d} :
                        /\ pc'[c] = pc[c] /\ job'[c] = job[c] /\ flight'[c] = flight[c]
                        /\ prog'[c] = prog[c] /\ landed'[c] = landed[c] /\ report'[c] = report[c]
<1>1. CASE Start(d) \/ Approve(d) \/ AfterTold(d) \/ AfterBand(d)
  <2>1. CASE Start(d) BY <1>0, <2>1 DEF Start
  <2>2. CASE Approve(d) BY <1>0, <2>2 DEF Approve
  <2>3. CASE AfterTold(d) BY <1>0, <2>3 DEF AfterTold
  <2>4. CASE AfterBand(d) BY <1>0, <2>4 DEF AfterBand
  <2>. QED BY <1>1, <2>1, <2>2, <2>3, <2>4
<1>2. CASE StepStart(d) \/ NextPress(d) \/ Resume(d)
  <2>1. CASE StepStart(d) BY <1>0, <2>1 DEF StepStart
  <2>2. CASE NextPress(d) BY <1>0, <2>2 DEF NextPress
  <2>3. CASE Resume(d) BY <1>0, <2>3 DEF Resume
  <2>. QED BY <1>2, <2>1, <2>2, <2>3
<1>3. CASE Exited(d) \/ FinallyDeferred(d) \/ Finally(d)
  BY <1>0, <1>3 DEF Exited, FinallyDeferred, Finally
<1>4. CASE TellFast(d) \/ TellStart(d) \/ TellEnd(d) \/ BandEnter(d) \/ BandExits(d)
  BY <1>0, <1>4 DEF TellFast, TellStart, TellEnd, BandEnter, BandExits
<1>5. CASE WorkerEnter(d) \/ WorkerRefused(d) \/ WorkerActs(d) \/ WorkerFails(d)
  BY <1>0, <1>5 DEF WorkerEnter, WorkerRefused, WorkerActs, WorkerFails
<1>6. CASE WorkerOutcome(d) \/ WorkerLeaves(d)
  BY <1>0, <1>6 DEF WorkerOutcome, WorkerLeaves
<1>7. CASE CancelEarly(d) \/ CancelBand(d)
  BY <1>0, <1>7 DEF CancelEarly, CancelBand
<1>8. CASE CancelStep(d)
  BY <1>0, <1>8 DEF CancelStep
<1>9. CASE CancelQueued(d) \/ CancelGap(d) \/ CancelExit(d)
  BY <1>0, <1>9 DEF CancelQueued, CancelGap, CancelExit
<1>. QED BY <1>1, <1>2, <1>3, <1>4, <1>5, <1>6, <1>7, <1>8, <1>9 DEF Coroutine, Thread, Cancel

LEMMA ReportStep == SessionInv /\ BandInv /\ ReportInv /\ [Next]_vars => ReportInv'
<1> SUFFICES ASSUME SessionInv, BandInv, ReportInv, [Next]_vars PROVE ReportInv'
  OBVIOUS
<1>1. ASSUME NEW d \in Calls, Coroutine(d) \/ Thread(d) \/ Cancel(d) PROVE ReportInv'
  <2>1. ASSUME NEW c \in Batches PROVE ReportOf(c)'
    <3>1. CASE c = d BY <1>1, <2>1, <3>1, ReportCoroutine, ReportThread, ReportCancel
    <3>2. CASE c # d
      <4>1. c \in Calls \ {d} /\ ReportOf(c) BY <2>1, <3>2 DEF Calls, ReportInv
      <4>. QED BY <1>1, <2>1, <4>1, OwnSteps, ReportFrame
    <3>. QED BY <3>1, <3>2
  <2>. QED BY <1>1, <2>1, OwnSteps DEF ReportInv
<1>2. ASSUME UNCHANGED <<pc, job, prog, landed, report, flight>> PROVE ReportInv'
  <2>1. ASSUME NEW c \in Batches PROVE ReportOf(c)' BY <1>2, <2>1, ReportFrame DEF ReportInv
  <2>. QED BY <1>2, <2>1 DEF ReportInv
<1>3. CASE Retarget \/ ReplaceApproval \/ Cleanup \/ Deadman \/ UNCHANGED vars
  BY <1>2, <1>3 DEF Retarget, RetargetStart, RetargetGivesUp, RetargetSwaps, RetargetReleases,
     ReplaceApproval, Cleanup, Deadman, vars, shared, own, band
<1>. QED BY <1>1, <1>3 DEF Next

LEMMA ReportInit == Init => ReportInv
<1> SUFFICES ASSUME Init, NEW c \in Batches PROVE ReportOf(c)
  BY DEF Init, ReportInv
<1>1. c \in Calls BY DEF Calls
<1>2. /\ prog[c] = [done |-> 0, at |-> 1, press |-> 0] /\ landed[c] = 0 /\ report[c] = None
      /\ pc[c] = "new" /\ job[c] = "idle"
  BY <1>1 DEF Init
<1>3. Place(c, prog[c])
  <2>1. Script[c] \in Seq([kind : Kinds, times : Nat \ {0}]) BY <1>1, CallsAssumption
  <2>2. Len(Script[c]) \in Nat BY <2>1, LenProperties
  <2>3. Presses(c, 0) = 0 BY PressesStep
  <2>4. 1 <= Len(Script[c]) => Script[c][1].times \in Nat \ {0}
    <3> SUFFICES ASSUME 1 <= Len(Script[c]) PROVE Script[c][1].times \in Nat \ {0}
      OBVIOUS
    <3> DEFINE R == [kind : Kinds, times : Nat \ {0}]
    <3>1. Script[c] \in Seq(R) /\ 1 \in 1 .. Len(Script[c]) BY <2>1, <2>2
    <3> HIDE DEF R
    <3>2. Script[c][1] \in R BY <3>1, ElementOfSeq
    <3>. QED BY <3>2 DEF R
  <2>5. 1 <= Len(Script[c]) => 0 = 1 - 1 /\ 0 < Script[c][1].times BY <2>4
  <2>6. prog[c] \in [done : Nat, at : 1 .. Len(Script[c]) + 1, press : Nat] BY <1>2, <2>2
  <2>. QED BY <1>2, <2>3, <2>5, <2>6 DEF Place
<1>4. Underway(c) /\ Returned(c) BY <1>2 DEF Underway, Returned, InStep, AtWork, Over
<1>. QED BY <1>2, <1>3, <1>4 DEF ReportOf

\* The progress a batch returns stays true: what it calls completed has landed, and at
\* most the press it calls uncertain lands beyond that, whatever its worker still does.
THEOREM TruthfulReports == Spec => []Truthful
<1>1. ReportInv => Truthful BY DEF ReportInv, ReportOf, Returned, Claimed, Truthful
<1>2. SessionInv /\ BandInv /\ ReportInv /\ [Next]_vars => (SessionInv /\ BandInv /\ ReportInv)'
  BY SharedStep, BandStep, ReportStep
<1>. QED BY <1>1, <1>2, SharedInit, BandInit, ReportInit, PTL DEF Spec

=============================================================================
