----------------------------- MODULE ControllerProofs -----------------------------
(***************************************************************************)
(* The four parts of MCController for any activations, handles, results    *)
(* and mounts.  The custody of the backend: every open one has one owner,  *)
(* and a cleanup that has succeeded is final.  The window process: the one *)
(* a handle knows of is the only one it keeps.  Screenshots: a request     *)
(* shows what the tool issued.  Wrapping: a request is projected once.     *)
(* Each part has an inductive invariant of its own.                        *)
(***************************************************************************)
EXTENDS MCController, SequenceTheorems, FiniteSetTheorems, WellFoundedInduction, TLAPS

-----------------------------------------------------------------------------
(***************************************************************************)
(* The custody of the backend.                                             *)
(***************************************************************************)

Dead(b) == backend[b] # "open" /\ thread[b] \notin {"selecting", "building"}

(* A backend follows its builder thread until its tool closes it.          *)
Built_by(b) ==
    /\ thread[b] \in {"none", "selecting"} => backend[b] = "none" /\ closes[b] = 0
    /\ thread[b] = "building" => backend[b] = "open" /\ closes[b] = 0
    /\ thread[b] = "gone" => backend[b] \in {"none", "closed"}
    /\ thread[b] = "ready" /\ tool[b].closed => backend[b] \in {"closed", "unknown"}
    /\ thread[b] = "ready" /\ ~tool[b].closed => backend[b] = "open" /\ closes[b] = 0
    /\ tool[b].closed => thread[b] = "ready"
    /\ thread[b] \in {"selecting", "building"} => pc[b] = "building" \/ b \in orphans

(* Where a coroutine stands says what its thread has done and who owns the *)
(* backend now.                                                            *)
Placed(b) ==
    /\ pc[b] \in {"idle", "refused"} => thread[b] = "none"
    /\ pc[b] \in {"computer", "desktop", "undo", "mounted", "tidy"} => thread[b] = "ready"
    /\ pc[b] = "failed" => Dead(b)
    /\ pc[b] = "cancelled" => b \in orphans \/ b = active
    /\ pc[b] = "tidy" => b = active
    /\ pc[b] = "returned" =>
        b \in orphans \/ b = active \/ (b = First /\ result = "tools") \/ Dead(b)
    /\ tool[b].held => pc[b] \in {"tidy", "returned", "cancelled"}

(* What mount returned, and what the stub takes it for.                    *)
Returned ==
    /\ active # None => active # First /\ thread[active] = "ready" /\ result = "stub"
    /\ result = "none" <=> pc[First] # "returned"
    /\ result = "tools" => thread[First] = "ready"
    /\ result = "stub" => Dead(First)
    /\ stub => result = "stub"
    /\ \A b \in Builds \ {First} : pc[b] # "idle" => result = "stub"

(* An activation holds the stub's lock, and while it works nothing is      *)
(* active and nobody has fenced it.                                        *)
Working == {"building", "computer", "desktop", "undo", "mounted"}
Exclusive ==
    \A b \in Builds \ {First} :
        /\ pc[b] \notin {"idle", "returned"} => lifecycle = b
        /\ pc[b] \in Working => active = None /\ ~fenced

(* A cleanup that closes keeps activations out, and what has been cleaned  *)
(* stays closed.                                                           *)
Cleaned ==
    /\ \A k \in Callers :
        /\ call[k] # "no" => result \in {"tools", "stub"}
        /\ call[k] = "closing" /\ result = "stub" => lifecycle = k /\ fenced
    /\ done =>
        /\ result \in {"tools", "stub"}
        /\ result = "stub" => fenced
        /\ Custodian # None => backend[Custodian] = "closed"

PerBuild == \A b \in Builds : Built_by(b) /\ Placed(b)

MountInv == TypeOK /\ PerBuild /\ Returned /\ Exclusive /\ Cleaned

-----------------------------------------------------------------------------
(* The invariant implies the properties.                                   *)

LEMMA InvCustody == MountInv => OpenIsOwned /\ OneOwnedBackend
<1> SUFFICES ASSUME MountInv PROVE OpenIsOwned /\ OneOwnedBackend
    OBVIOUS
<1>1. OpenIsOwned
      BY DEF MountInv, TypeOK, PerBuild, Built_by, Placed, Dead, OpenIsOwned, Owned
<1>2. ASSUME NEW b \in Builds \ orphans, backend[b] = "open", Owned(b), b # First
      PROVE  result = "stub" /\ (b = active \/ (lifecycle = b /\ active = None))
      BY <1>2 DEF MountInv, TypeOK, PerBuild, Built_by, Placed, Returned, Exclusive, Working, Owned
<1>3. ASSUME result = "stub" PROVE backend[First] # "open"
      BY <1>3 DEF MountInv, Returned, Dead
<1>4. OneOwnedBackend
      BY <1>2, <1>3, MountAssumption DEF MountInv, Returned, OneOwnedBackend
<1> QED
    BY <1>1, <1>4

LEMMA InvClean == MountInv => CleanIsFinal
<1> SUFFICES ASSUME MountInv, done, NEW b \in Builds \ orphans
             PROVE  /\ Owned(b) => backend[b] \in {"none", "closed"}
                    /\ thread[b] \notin {"selecting", "building"}
    BY DEF CleanIsFinal
<1>1. result \in {"tools", "stub"} /\ (result = "stub" => fenced)
      BY DEF MountInv, Cleaned
<1>2. b # First => pc[b] \notin Working
      BY <1>1 DEF MountInv, Returned, Exclusive, Working
<1>3. b = First => pc[b] = "returned"
      BY <1>1 DEF MountInv, Returned
<1>4. thread[b] \notin {"selecting", "building"}
      BY <1>2, <1>3 DEF MountInv, PerBuild, Built_by, Working
<1>5. Owned(b) => b = Custodian \/ (b = First /\ result = "tools")
      BY <1>1, <1>2, <1>3, <1>4, MountAssumption DEF Owned, Custodian, Working, MountInv, Returned
<1> QED
    BY <1>4, <1>5, MountAssumption DEF MountInv, Cleaned, Custodian

-----------------------------------------------------------------------------
LEMMA InitMount == Init => MountInv
<1> SUFFICES ASSUME Init PROVE MountInv
    OBVIOUS
<1>1. TypeOK
  <2>1. Fresh \in [held : BOOLEAN, cleanup : BOOLEAN, closed : BOOLEAN]
        BY DEF Fresh
  <2>2. tool \in [Builds -> [held : BOOLEAN, cleanup : BOOLEAN, closed : BOOLEAN]]
        BY <2>1 DEF Init
  <2>3. First \in Builds /\ MaxCancels \in Nat
        BY MountAssumption
  <2>4. stub \in BOOLEAN /\ fenced \in BOOLEAN /\ done \in BOOLEAN
        BY DEF Init
  <2>5. closes \in [Builds -> 0 .. 1] /\ cancels \in 0 .. MaxCancels
        BY <2>3 DEF Init
  <2> QED
      BY <2>2, <2>4, <2>5 DEF Init, TypeOK
<1>2. PerBuild
      BY DEF Init, Fresh, PerBuild, Built_by, Placed
<1>3. Returned /\ Exclusive /\ Cleaned
      BY MountAssumption DEF Init, Returned, Exclusive, Working, Cleaned
<1> QED
    BY <1>1, <1>2, <1>3 DEF MountInv

(* The builder thread, which nobody can stop.                              *)
LEMMA BuilderInv ==
    ASSUME MountInv, NEW b \in Builds, Builder(b)
    PROVE  MountInv'
<1>1. /\ thread[b] \in {"selecting", "building"}
      /\ UNCHANGED <<pc, tool, names, custody, call, orphans, cancels>>
      BY DEF Builder, Select, Build
<1>2. TypeOK'
  <2>1. CASE Select(b)
        BY <2>1, <1>1 DEF Select, Thread, names, custody, MountInv, TypeOK
  <2>2. CASE Build(b)
    <3>1. closes[b] = 0
          BY <2>2 DEF Build, MountInv, PerBuild, Built_by
    <3> QED
        BY <2>2, <1>1, <3>1 DEF Build, Thread, names, custody, MountInv, TypeOK
  <2> QED
      BY <2>1, <2>2 DEF Builder
<1>3. PerBuild'
  <2>1. CASE Select(b)
        BY <2>1, <1>1
        DEF Select, Thread, names, custody, MountInv, TypeOK, PerBuild, Built_by, Placed, Dead
  <2>2. CASE Build(b)
        BY <2>2, <1>1
        DEF Build, Thread, names, custody, MountInv, TypeOK, PerBuild, Built_by, Placed, Dead
  <2> QED
      BY <2>1, <2>2 DEF Builder
<1>4. /\ \A c \in Builds : c # b => thread'[c] = thread[c] /\ backend'[c] = backend[c]
      /\ b # First \/ result # "stub"
      BY DEF Builder, Select, Build, Thread, MountInv, TypeOK, Returned, Dead
<1>5. Returned'
      BY <1>1, <1>4, MountAssumption DEF names, custody, MountInv, TypeOK, Returned, Dead
<1>6. Exclusive'
      BY <1>1 DEF names, custody, MountInv, Exclusive, Working
<1>7. Custodian # None => Custodian \in Builds /\ Custodian # b
      BY <1>1, MountAssumption DEF Custodian, MountInv, TypeOK, Returned
<1>8. Custodian' = Custodian
      BY <1>1 DEF names, custody, Custodian
<1>9. Cleaned'
      BY <1>1, <1>4, <1>7, <1>8 DEF names, custody, MountInv, Cleaned
<1> QED
    BY <1>2, <1>3, <1>5, <1>6, <1>9 DEF MountInv

(* What CloseBinding does to the tool and the backend of b.                *)
LEMMA Closing ==
    ASSUME MountInv, NEW b \in Builds, thread[b] = "ready", CloseBinding(b)
    PROVE  /\ backend' \in [Builds -> {"none", "open", "closed", "unknown"}]
           /\ closes' \in [Builds -> 0 .. 1]
           /\ tool' \in [Builds -> [held : BOOLEAN, cleanup : BOOLEAN, closed : BOOLEAN]]
           /\ \A c \in Builds : c # b =>
                backend'[c] = backend[c] /\ closes'[c] = closes[c] /\ tool'[c] = tool[c]
           /\ \A c \in Builds : tool'[c].held = tool[c].held
           /\ tool'[b].held \/ tool'[b].closed
           /\ tool'[b].closed => backend'[b] \in {"closed", "unknown"}
           /\ ~tool'[b].closed => backend'[b] = "open" /\ closes'[b] = 0
           /\ backend[b] = "closed" => backend'[b] = "closed"
<1>1. /\ tool[b] \in [held : BOOLEAN, cleanup : BOOLEAN, closed : BOOLEAN]
      /\ tool[b].closed => backend[b] \in {"closed", "unknown"}
      /\ ~tool[b].closed => backend[b] = "open" /\ closes[b] = 0
      BY DEF MountInv, TypeOK, PerBuild, Built_by
<1>2. CASE tool[b].closed \/ tool[b].held
  <2>1. UNCHANGED <<tool, backend, closes>>
        BY <1>2 DEF CloseBinding
  <2>2. tool[b].held \/ tool[b].closed
        BY <1>2
  <2> QED
      BY <1>1, <2>1, <2>2 DEF MountInv, TypeOK
<1>3. CASE ~(tool[b].closed \/ tool[b].held)
  <2>1. tool' = [tool EXCEPT ![b] = [@ EXCEPT !.cleanup = TRUE, !.closed = TRUE]]
        BY <1>3 DEF CloseBinding
  <2>2. tool'[b].closed /\ tool'[b].held = tool[b].held
        BY <1>1, <2>1 DEF MountInv, TypeOK
  <2>3. /\ tool' \in [Builds -> [held : BOOLEAN, cleanup : BOOLEAN, closed : BOOLEAN]]
        /\ \A c \in Builds : c # b => tool'[c] = tool[c]
        BY <1>1, <2>1 DEF MountInv, TypeOK
  <2>4. /\ closes' = [closes EXCEPT ![b] = @ + 1]
        /\ \E outcome \in {"closed", "unknown"} : backend' = [backend EXCEPT ![b] = outcome]
        BY <1>3 DEF CloseBinding
  <2>5. PICK outcome \in {"closed", "unknown"} : backend' = [backend EXCEPT ![b] = outcome]
        BY <2>4
  <2>6. closes[b] = 0
        BY <1>1, <1>3
  <2>7. closes' \in [Builds -> 0 .. 1] /\ \A c \in Builds : c # b => closes'[c] = closes[c]
        BY <2>4, <2>6 DEF MountInv, TypeOK
  <2>8. /\ backend' \in [Builds -> {"none", "open", "closed", "unknown"}]
        /\ backend'[b] \in {"closed", "unknown"}
        /\ \A c \in Builds : c # b => backend'[c] = backend[c]
        BY <2>5 DEF MountInv, TypeOK
  <2>9. backend[b] # "closed"
        BY <1>1, <1>3
  <2> QED
      BY <2>2, <2>3, <2>7, <2>8, <2>9
<1> QED
    BY <1>2, <1>3

(* The steps of a coroutine.                                               *)
(* A new attempt starts with its thread and, for an activation, the lock.*)
LEMMA BeginInv ==
    ASSUME MountInv, NEW b \in Builds, Begin(b)
    PROVE  MountInv'
<1>1. TypeOK'
      BY MountAssumption DEF Begin, Goto, Thread, names, MountInv, TypeOK
<1>2. PerBuild'
      BY MountAssumption
      DEF Begin, Goto, Thread, names, MountInv, TypeOK, PerBuild, Built_by, Placed, Dead, Returned,
      Exclusive, Working
<1>3. Returned'
      BY MountAssumption
      DEF Begin, Goto, Thread, names, MountInv, TypeOK, PerBuild, Placed, Returned, Dead, Exclusive,
      Working
<1>4. Exclusive'
      BY MountAssumption
      DEF Begin, Goto, Thread, names, MountInv, TypeOK, Returned, Exclusive, Working, Cleaned
<1>5. Cleaned'
      BY MountAssumption
      DEF Begin, Goto, Thread, names, MountInv, TypeOK, Returned, Exclusive, Working, Cleaned, Custodian
<1> QED
    BY <1>1, <1>2, <1>3, <1>4, <1>5 DEF MountInv

(* The coroutine goes on with what its thread has built.                 *)
LEMMA BuiltInv ==
    ASSUME MountInv, NEW b \in Builds, Built(b)
    PROVE  MountInv'
<1>1. TypeOK'
      BY MountAssumption DEF Built, Goto, threads, names, custody, MountInv, TypeOK
<1>2. PerBuild'
      BY MountAssumption
      DEF Built, Goto, threads, names, custody, MountInv, TypeOK, PerBuild, Built_by, Placed, Dead,
      Returned, Exclusive, Working
<1>3. Returned'
      BY MountAssumption
      DEF Built, Goto, threads, names, custody, MountInv, TypeOK, PerBuild, Placed, Returned, Dead,
      Exclusive, Working
<1>4. Exclusive'
      BY MountAssumption
      DEF Built, Goto, threads, names, custody, MountInv, TypeOK, Returned, Exclusive, Working, Cleaned
<1>5. Cleaned'
      BY MountAssumption
      DEF Built, Goto, threads, names, custody, MountInv, TypeOK, Returned, Exclusive, Working, Cleaned,
      Custodian
<1> QED
    BY <1>1, <1>2, <1>3, <1>4, <1>5 DEF MountInv

(* The registrations, which change only what is served.                  *)
LEMMA MountComputerInv ==
    ASSUME MountInv, NEW b \in Builds, MountComputer(b)
    PROVE  MountInv'
<1>1. TypeOK'
      BY MountAssumption DEF MountComputer, Goto, threads, custody, MountInv, TypeOK
<1>2. PerBuild'
      BY MountAssumption
      DEF MountComputer, Goto, threads, custody, MountInv, TypeOK, PerBuild, Built_by, Placed, Dead,
      Returned, Exclusive, Working
<1>3. Returned'
      BY MountAssumption
      DEF MountComputer, Goto, threads, custody, MountInv, TypeOK, PerBuild, Placed, Returned, Dead,
      Exclusive, Working
<1>4. Exclusive'
      BY MountAssumption
      DEF MountComputer, Goto, threads, custody, MountInv, TypeOK, Returned, Exclusive, Working, Cleaned
<1>5. Cleaned'
      BY MountAssumption
      DEF MountComputer, Goto, threads, custody, MountInv, TypeOK, Returned, Exclusive, Working, Cleaned,
      Custodian
<1> QED
    BY <1>1, <1>2, <1>3, <1>4, <1>5 DEF MountInv

LEMMA MountDesktopInv ==
    ASSUME MountInv, NEW b \in Builds, MountDesktop(b)
    PROVE  MountInv'
<1>1. TypeOK'
      BY MountAssumption DEF MountDesktop, Goto, threads, custody, MountInv, TypeOK
<1>2. PerBuild'
      BY MountAssumption
      DEF MountDesktop, Goto, threads, custody, MountInv, TypeOK, PerBuild, Built_by, Placed, Dead,
      Returned, Exclusive, Working
<1>3. Returned'
      BY MountAssumption
      DEF MountDesktop, Goto, threads, custody, MountInv, TypeOK, PerBuild, Placed, Returned, Dead,
      Exclusive, Working
<1>4. Exclusive'
      BY MountAssumption
      DEF MountDesktop, Goto, threads, custody, MountInv, TypeOK, Returned, Exclusive, Working, Cleaned
<1>5. Cleaned'
      BY MountAssumption
      DEF MountDesktop, Goto, threads, custody, MountInv, TypeOK, Returned, Exclusive, Working, Cleaned,
      Custodian
<1> QED
    BY <1>1, <1>2, <1>3, <1>4, <1>5 DEF MountInv

(* mount hands its backend to the core, or has none.                     *)
LEMMA MountReturnsInv ==
    ASSUME MountInv, MountReturns
    PROVE  MountInv'
<1>1. TypeOK'
      BY MountAssumption DEF MountReturns, Goto, threads, MountInv, TypeOK
<1>2. PerBuild'
      BY MountAssumption
      DEF MountReturns, Goto, threads, MountInv, TypeOK, PerBuild, Built_by, Placed, Dead, Returned,
      Exclusive, Working
<1>3. Returned'
      BY MountAssumption
      DEF MountReturns, Goto, threads, MountInv, TypeOK, PerBuild, Placed, Returned, Dead, Exclusive,
      Working
<1>4. Exclusive'
      BY MountAssumption
      DEF MountReturns, Goto, threads, MountInv, TypeOK, Returned, Exclusive, Working, Cleaned
<1>5. Cleaned'
      BY MountAssumption
      DEF MountReturns, Goto, threads, MountInv, TypeOK, Returned, Exclusive, Working, Cleaned, Custodian
<1> QED
    BY <1>1, <1>2, <1>3, <1>4, <1>5 DEF MountInv

(* An activation becomes the one the stub's cleanup stands for.          *)
LEMMA ActivateTakesInv ==
    ASSUME MountInv, NEW b \in Builds, ActivateTakes(b)
    PROVE  MountInv'
<1>1. TypeOK'
      BY MountAssumption DEF ActivateTakes, Goto, threads, names, MountInv, TypeOK
<1>2. PerBuild'
      BY MountAssumption
      DEF ActivateTakes, Goto, threads, names, MountInv, TypeOK, PerBuild, Built_by, Placed, Dead,
      Returned, Exclusive, Working
<1>3. Returned'
      BY MountAssumption
      DEF ActivateTakes, Goto, threads, names, MountInv, TypeOK, PerBuild, Placed, Returned, Dead,
      Exclusive, Working
<1>4. Exclusive'
      BY MountAssumption
      DEF ActivateTakes, Goto, threads, names, MountInv, TypeOK, Returned, Exclusive, Working, Cleaned
<1>5. Cleaned'
      BY MountAssumption
      DEF ActivateTakes, Goto, threads, names, MountInv, TypeOK, Returned, Exclusive, Working, Cleaned,
      Custodian
<1> QED
    BY <1>1, <1>2, <1>3, <1>4, <1>5 DEF MountInv

LEMMA ActivateReturnsInv ==
    ASSUME MountInv, NEW b \in Builds, ActivateReturns(b)
    PROVE  MountInv'
<1>1. TypeOK'
      BY MountAssumption DEF ActivateReturns, Goto, threads, MountInv, TypeOK
<1>2. PerBuild'
      BY MountAssumption
      DEF ActivateReturns, Goto, threads, MountInv, TypeOK, PerBuild, Built_by, Placed, Dead, Returned,
      Exclusive, Working
<1>3. Returned'
      BY MountAssumption
      DEF ActivateReturns, Goto, threads, MountInv, TypeOK, PerBuild, Placed, Returned, Dead, Exclusive,
      Working
<1>4. Exclusive'
      BY MountAssumption
      DEF ActivateReturns, Goto, threads, MountInv, TypeOK, Returned, Exclusive, Working, Cleaned
<1>5. Cleaned'
      BY MountAssumption
      DEF ActivateReturns, Goto, threads, MountInv, TypeOK, Returned, Exclusive, Working, Cleaned,
      Custodian
<1> QED
    BY <1>1, <1>2, <1>3, <1>4, <1>5 DEF MountInv

(* A cancelled await leaves the thread behind, or the tool to be closed. *)
LEMMA CancelInv ==
    ASSUME MountInv, NEW b \in Builds, Cancel(b)
    PROVE  MountInv'
<1>1. TypeOK'
      BY MountAssumption DEF Cancel, Goto, threads, names, custody, MountInv, TypeOK
<1>2. PerBuild'
      BY MountAssumption
      DEF Cancel, Goto, threads, names, custody, MountInv, TypeOK, PerBuild, Built_by, Placed, Dead,
      Returned, Exclusive, Working
<1>3. Returned'
      BY MountAssumption
      DEF Cancel, Goto, threads, names, custody, MountInv, TypeOK, PerBuild, Placed, Returned, Dead,
      Exclusive, Working
<1>4. Exclusive'
      BY MountAssumption
      DEF Cancel, Goto, threads, names, custody, MountInv, TypeOK, Returned, Exclusive, Working, Cleaned
<1>5. Cleaned'
      BY MountAssumption
      DEF Cancel, Goto, threads, names, custody, MountInv, TypeOK, Returned, Exclusive, Working, Cleaned,
      Custodian
<1> QED
    BY <1>1, <1>2, <1>3, <1>4, <1>5 DEF MountInv

(* A tool in use only changes what it holds.                             *)
LEMMA PressInv ==
    ASSUME MountInv, NEW b \in Builds, Press(b) \/ ReleaseHeld(b)
    PROVE  MountInv'
<1>1. TypeOK'
  <2>1. PICK h \in BOOLEAN : tool' = [tool EXCEPT ![b].held = h]
        BY DEF Press, ReleaseHeld
  <2>2. tool[b] \in [held : BOOLEAN, cleanup : BOOLEAN, closed : BOOLEAN]
        BY DEF MountInv, TypeOK
  <2>3. [tool[b] EXCEPT !.held = h] \in [held : BOOLEAN, cleanup : BOOLEAN, closed : BOOLEAN]
        BY <2>2
  <2>4. tool' \in [Builds -> [held : BOOLEAN, cleanup : BOOLEAN, closed : BOOLEAN]]
        BY <2>1, <2>3 DEF MountInv, TypeOK
  <2> QED
      BY <2>4 DEF Press, ReleaseHeld, threads, names, custody, MountInv, TypeOK
<1>2. PerBuild'
      BY MountAssumption
      DEF Press, ReleaseHeld, Goto, threads, names, custody, MountInv, TypeOK, PerBuild, Built_by,
      Placed, Dead, Returned, Exclusive, Working
<1>3. Returned'
      BY MountAssumption
      DEF Press, ReleaseHeld, Goto, threads, names, custody, MountInv, TypeOK, PerBuild, Placed,
      Returned, Dead, Exclusive, Working
<1>4. Exclusive'
      BY MountAssumption
      DEF Press, ReleaseHeld, Goto, threads, names, custody, MountInv, TypeOK, Returned, Exclusive,
      Working, Cleaned
<1>5. Cleaned'
      BY MountAssumption
      DEF Press, ReleaseHeld, Goto, threads, names, custody, MountInv, TypeOK, Returned, Exclusive,
      Working, Cleaned, Custodian
<1> QED
    BY <1>1, <1>2, <1>3, <1>4, <1>5 DEF MountInv

(* The cleanup: its callers, its fence, and its close.                   *)
LEMMA CallInv ==
    ASSUME MountInv, NEW k \in Callers, CallCleanup(k) \/ CleanupEnters(k)
    PROVE  MountInv'
<1>1. TypeOK'
      BY MountAssumption DEF CallCleanup, CleanupEnters, Goto, threads, names, custody, MountInv, TypeOK
<1>2. PerBuild'
      BY MountAssumption
      DEF CallCleanup, CleanupEnters, Goto, threads, names, custody, MountInv, TypeOK, PerBuild,
      Built_by, Placed, Dead, Returned, Exclusive, Working
<1>3. Returned'
      BY MountAssumption
      DEF CallCleanup, CleanupEnters, Goto, threads, names, custody, MountInv, TypeOK, PerBuild, Placed,
      Returned, Dead, Exclusive, Working
<1>4. Exclusive'
      BY MountAssumption
      DEF CallCleanup, CleanupEnters, Goto, threads, names, custody, MountInv, TypeOK, Returned,
      Exclusive, Working, Cleaned
<1>5. Cleaned'
      BY MountAssumption
      DEF CallCleanup, CleanupEnters, Goto, threads, names, custody, MountInv, TypeOK, Returned,
      Exclusive, Working, Cleaned, Custodian
<1> QED
    BY <1>1, <1>2, <1>3, <1>4, <1>5 DEF MountInv

LEMMA FenceInv ==
    ASSUME MountInv, NEW k \in Callers, Fence(k)
    PROVE  MountInv'
<1>1. TypeOK'
      BY MountAssumption DEF Fence, Goto, threads, names, MountInv, TypeOK
<1>2. PerBuild'
      BY MountAssumption
      DEF Fence, Goto, threads, names, MountInv, TypeOK, PerBuild, Built_by, Placed, Dead, Returned,
      Exclusive, Working
<1>3. Returned'
      BY MountAssumption
      DEF Fence, Goto, threads, names, MountInv, TypeOK, PerBuild, Placed, Returned, Dead, Exclusive,
      Working
<1>4. Exclusive'
      BY MountAssumption
      DEF Fence, Goto, threads, names, MountInv, TypeOK, Returned, Exclusive, Working, Cleaned
<1>5. Cleaned'
      BY MountAssumption
      DEF Fence, Goto, threads, names, MountInv, TypeOK, Returned, Exclusive, Working, Cleaned, Custodian
<1> QED
    BY <1>1, <1>2, <1>3, <1>4, <1>5 DEF MountInv

LEMMA UndoInv ==
    ASSUME MountInv, NEW b \in Builds, Undo(b)
    PROVE  MountInv'
<1>1. thread[b] = "ready" /\ ~tool[b].held /\ pc[b] = "undo"
      BY DEF Undo, MountInv, PerBuild, Placed
<1>2. /\ UNCHANGED <<thread, names, custody, call, orphans, cancels>>
      /\ pc' = [pc EXCEPT ![b] = "failed"] /\ CloseBinding(b)
      BY DEF Undo, Goto
<1>3. TypeOK'
      BY <1>1, <1>2, Closing DEF names, custody, MountInv, TypeOK
<1>4. tool'[b].closed /\ backend'[b] \in {"closed", "unknown"}
      BY <1>1, <1>2, Closing
<1>5. \A c \in Builds : c # b =>
        backend'[c] = backend[c] /\ closes'[c] = closes[c] /\ tool'[c] = tool[c] /\ pc'[c] = pc[c]
      BY <1>1, <1>2, Closing DEF MountInv, TypeOK
<1>6. PerBuild'
  <2>1. Built_by(b)' /\ Placed(b)'
        BY <1>1, <1>2, <1>4, Closing DEF names, custody, MountInv, TypeOK, Built_by, Placed, Dead
  <2>2. ASSUME NEW c \in Builds, c # b PROVE Built_by(c)' /\ Placed(c)'
        BY <1>2, <1>5, <2>2 DEF names, custody, MountInv, PerBuild, Built_by, Placed, Dead
  <2> QED
      BY <2>1, <2>2 DEF PerBuild
<1>7. result # "stub" \/ b # First
      BY <1>1 DEF MountInv, Returned
<1>8. Returned'
      BY <1>1, <1>2, <1>5, <1>7, MountAssumption DEF names, custody, MountInv, TypeOK, Returned, Dead
<1>9. Exclusive'
      BY <1>1, <1>2 DEF names, custody, MountInv, TypeOK, Exclusive, Working
<1>10. Custodian # None => Custodian \in Builds /\ Custodian # b
      BY <1>1, MountAssumption DEF Custodian, MountInv, TypeOK, Returned, Exclusive, Working
<1>11. Cleaned'
      BY <1>1, <1>2, <1>5, <1>10 DEF names, custody, MountInv, Cleaned, Custodian
<1> QED
    BY <1>3, <1>6, <1>8, <1>9, <1>11 DEF MountInv

LEMMA CleanupClosesInv ==
    ASSUME MountInv, NEW k \in Callers, CleanupCloses(k)
    PROVE  MountInv'
<1>1. /\ UNCHANGED <<pc, thread, names, result, active, fenced, orphans, cancels>>
      /\ call[k] = "closing" /\ result \in {"tools", "stub"}
      BY DEF CleanupCloses, MountInv, Cleaned
<1>2. Custodian # None =>
        /\ Custodian \in Builds /\ thread[Custodian] = "ready"
        /\ Custodian = First => result = "tools"
      BY <1>1, MountAssumption DEF Custodian, MountInv, TypeOK, Returned
<1>3. CASE Custodian = None
  <2>1. UNCHANGED <<tool, backend, closes>> /\ done' = TRUE /\ call' = [call EXCEPT ![k] = "ok"]
        BY <1>3 DEF CleanupCloses
  <2>2. lifecycle' = IF lifecycle = k THEN None ELSE lifecycle
        BY DEF CleanupCloses
  <2>3. TypeOK'
        BY <1>1, <2>1, <2>2 DEF names, MountInv, TypeOK
  <2>4. PerBuild' /\ Returned'
        BY <1>1, <2>1 DEF names, MountInv, PerBuild, Built_by, Placed, Dead, Returned
  <2>5. Exclusive'
        BY <1>1, <2>2, MountAssumption DEF MountInv, Exclusive, Working
  <2>6. Cleaned'
        BY <1>1, <1>3, <2>1, <2>2 DEF MountInv, TypeOK, Cleaned, Custodian
  <2> QED
      BY <2>3, <2>4, <2>5, <2>6 DEF MountInv
<1>4. CASE Custodian # None
  <2>1. CloseBinding(Custodian)
        BY <1>4 DEF CleanupCloses
  <2>2. /\ lifecycle' = IF lifecycle = k THEN None ELSE lifecycle
        /\ \/ call' = [call EXCEPT ![k] = "raised"] /\ done' = done
           \/ /\ call' = [call EXCEPT ![k] = "ok"] /\ done' = TRUE
              /\ ~tool'[Custodian].held /\ backend'[Custodian] # "unknown"
        BY <1>4 DEF CleanupCloses, CloseRaises
  <2>3. TypeOK'
    <3>1. done' \in BOOLEAN
          BY <2>2 DEF MountInv, TypeOK
    <3>2. call' \in [Callers -> {"no", "waiting", "inside", "closing", "ok", "raised"}]
          BY <2>2 DEF MountInv, TypeOK
    <3> QED
        BY <1>1, <1>2, <1>4, <2>1, <2>2, <3>1, <3>2, Closing DEF names, MountInv, TypeOK
  <2>4. PerBuild'
    <3>1. PICK c \in Builds : c = Custodian
          BY <1>2, <1>4
    <3>2. /\ Built_by(c) /\ Placed(c) /\ thread[c] = "ready" /\ CloseBinding(c)
          /\ thread' = thread /\ pc' = pc /\ orphans' = orphans
                  /\ active' = active /\ result' = result
          BY <1>1, <1>2, <1>4, <2>1, <3>1 DEF MountInv, PerBuild
    <3>3. /\ tool'[c].closed => backend'[c] \in {"closed", "unknown"}
          /\ ~tool'[c].closed => backend'[c] = "open" /\ closes'[c] = 0
          /\ tool'[c].held = tool[c].held
          /\ \A d \in Builds : d # c =>
               backend'[d] = backend[d] /\ closes'[d] = closes[d] /\ tool'[d] = tool[d]
          /\ backend[c] # "open" => backend'[c] # "open"
      <4>1. /\ tool'[c].closed => backend'[c] \in {"closed", "unknown"}
            /\ ~tool'[c].closed => backend'[c] = "open" /\ closes'[c] = 0
            /\ \A d \in Builds : d # c =>
                 backend'[d] = backend[d] /\ closes'[d] = closes[d] /\ tool'[d] = tool[d]
            BY <3>2, Closing
      <4>2. tool'[c].held = tool[c].held
            BY <3>2, Closing
      <4>3. backend[c] # "open" => backend'[c] # "open"
        <5>1. backend[c] # "open" => tool[c].closed
              BY <3>2 DEF Built_by
        <5>2. tool[c].closed => backend' = backend
              BY <3>2 DEF CloseBinding
        <5> QED
            BY <5>1, <5>2
      <4> QED
          BY <4>1, <4>2, <4>3
    <3>4. Built_by(c)'
          BY <3>2, <3>3 DEF Built_by
    <3>5. Placed(c)'
          BY <3>2, <3>3 DEF Placed, Dead
    <3>6. ASSUME NEW d \in Builds, d # c PROVE Built_by(d)' /\ Placed(d)'
          BY <3>2, <3>3, <3>6 DEF MountInv, PerBuild, Built_by, Placed, Dead
    <3> QED
        BY <3>4, <3>5, <3>6 DEF PerBuild
  <2>5. Returned'
        BY <1>1, <1>2, <1>4, <2>1, Closing, MountAssumption DEF names, MountInv, Returned, Dead
  <2>6. Exclusive'
        BY <1>1, <2>2, MountAssumption DEF MountInv, Exclusive, Working
  <2>7. done' => backend'[Custodian] = "closed"
        BY <1>2, <1>4, <2>1, <2>2, Closing DEF MountInv, Cleaned
  <2>8. Custodian' = Custodian
        BY <1>1 DEF Custodian
  <2>9. Cleaned'
        BY <1>1, <2>2, <2>7, <2>8 DEF MountInv, TypeOK, Cleaned
  <2> QED
      BY <2>3, <2>4, <2>5, <2>6, <2>9 DEF MountInv
<1> QED
    BY <1>3, <1>4

-----------------------------------------------------------------------------
LEMMA NextMount == MountInv /\ [Next]_vars => MountInv'
<1> SUFFICES ASSUME MountInv, [Next]_vars PROVE MountInv'
    OBVIOUS
<1>1. CASE \E b \in Builds :
             Begin(b) \/ Builder(b) \/ Coroutine(b) \/ Cancel(b) \/ Press(b) \/ ReleaseHeld(b)
      BY <1>1, BeginInv, BuilderInv, BuiltInv, MountComputerInv, MountDesktopInv, UndoInv,
         ActivateTakesInv, ActivateReturnsInv, CancelInv, PressInv DEF Coroutine
<1>2. CASE MountReturns
      BY <1>2, MountReturnsInv
<1>3. CASE \E k \in Callers : CallCleanup(k) \/ Cleaning(k)
      BY <1>3, CallInv, FenceInv, CleanupClosesInv DEF Cleaning
<1>4. CASE UNCHANGED vars
      BY <1>4
      DEF vars, threads, names, custody, MountInv, TypeOK, PerBuild, Built_by, Placed, Dead, Returned,
          Exclusive, Working, Cleaned, Custodian
<1> QED
    BY <1>1, <1>2, <1>3, <1>4 DEF Next

THEOREM MountInductive == Spec => []MountInv
BY InitMount, NextMount, PTL DEF Spec

(* mount and every activation: types, each open backend owned by a thread, *)
(* a coroutine or a cleanup unless its await was cancelled, one such       *)
(* backend at most, and none closed twice.                                 *)
THEOREM CustodyKept == Spec => []Custody
<1>1. MountInv => Custody
      BY InvCustody DEF MountInv, Custody
<1> QED
    BY MountInductive, <1>1, PTL

(* A cleanup that has returned without raising has closed what it stands   *)
(* for, and no later activation of the same stub builds a backend.         *)
THEOREM CleanupFinal == Spec => []CleanIsFinal
BY MountInductive, InvClean, PTL

-----------------------------------------------------------------------------
(***************************************************************************)
(* The window process of the Windows band.                                 *)
(***************************************************************************)

(* The lines of the events file: a click has a number from 1.              *)
Told == {x \in Overlay!Lines : x.event = "click" => x.n # 0}

(* A window process that was started has its handle, one that was not has  *)
(* nothing, and nothing waits to be handled but for a running thread.      *)
Started ==
    /\ slice \in [Overlay!Launches -> Seq(Told)]
    /\ \A l \in Overlay!Launches :
         /\ win[l] # "no" => owner[l] \in Handles
         /\ win[l] = "no" => ~pipe[l] /\ poll[l] = "no" /\ \A h \in Handles : proc[h] # l

(* What a handle that lives knows of its window process, by where its show *)
(* or hide is.                                                             *)
Holding ==
    \A h \in Handles :
        /\ host[h] /\ at[h] = "idle" /\ ~shown[h] => proc[h] = 0
        /\ at[h] = "waiting" => host[h] /\ ~shown[h] /\ proc[h] # 0 /\ poll[proc[h]] = "no"
        /\ at[h] = "stopping" => host[h] /\ shown[h] /\ ~pipe[proc[h]]
        /\ shown[h] => proc[h] # 0
        /\ proc[h] # 0 => owner[proc[h]] = h

(* An open pipe is that of the window process its living handle holds.     *)
Piped ==
    \A l \in Overlay!Launches :
        pipe[l] => host[owner[l]] /\ proc[owner[l]] = l /\ rects[owner[l]]

(* A window process with a poll thread had been ready: until it ends, its  *)
(* handle, while it lives, holds and shows it, or has closed its input and *)
(* had a Stop-Process return for it.                                       *)
Polled ==
    \A l \in Overlay!Launches :
        win[l] # "gone" /\ poll[l] # "no" /\ host[owner[l]] =>
            \/ shown[owner[l]] /\ proc[owner[l]] = l
            \/ ~pipe[l] /\ l \in asked

OverlayInv == Overlay!TypeOK /\ file \in Seq(Told) /\ Started /\ Holding /\ Piped /\ Polled

-----------------------------------------------------------------------------
LEMMA OverlayInvAccounted == OverlayInv => Overlay!BandAccounted
BY
   DEF OverlayInv, Started, Piped, Polled, Overlay!BandAccounted, Overlay!NoneLeftBehind,
       Overlay!ButtonsRegistered,
       Overlay!LetGo, Overlay!Running

LEMMA ToldLines == Seq(Told) \subseteq Seq(Overlay!Lines) /\ Told \subseteq Overlay!Lines
BY DEF Told
-----------------------------------------------------------------------------
LEMMA InitOverlay == Overlay!OverlayAssumption /\ Overlay!Init => OverlayInv
<1> SUFFICES ASSUME Overlay!OverlayAssumption, Overlay!Init PROVE OverlayInv
    OBVIOUS
<1>1. <<>> \in Seq(Told)
      BY EmptySeq
<1>2. slice \in [Overlay!Launches -> Seq(Told)]
      BY <1>1 DEF Overlay!Init
<1> QED
    BY <1>1, <1>2, ToldLines
       DEF Overlay!Init, OverlayInv, Overlay!TypeOK, Started, Holding, Piped, Polled,
       Overlay!OverlayAssumption, Overlay!Launches

LEMMA ShowOverlay ==
    ASSUME Overlay!OverlayAssumption, OverlayInv, NEW h \in Handles, Overlay!Show(h)
    PROVE  OverlayInv'
<1>1. PICK l \in Overlay!Launches :
        /\ Overlay!Unused(l)
        /\ win' = [win EXCEPT ![l] = "starting"] /\ pipe' = [pipe EXCEPT ![l] = TRUE]
        /\ owner' = [owner EXCEPT ![l] = h] /\ proc' = [proc EXCEPT ![h] = l]
        /\ at' = [at EXCEPT ![h] = "waiting"] /\ rects' = [rects EXCEPT ![h] = TRUE]
      BY DEF Overlay!Show
<1>2. l \in Nat \ {0} /\ l \in 0 .. MaxLaunches /\ win[l] = "no" /\ h # None /\ proc[h] = 0
      BY <1>1
         DEF Overlay!Unused, Overlay!Launches, Overlay!OverlayAssumption, OverlayInv, Holding,
             Overlay!Show
<1>3. UNCHANGED <<host, shown, asked, Overlay!reader, file, clicks>>
          /\ host[h] /\ at[h] = "idle" /\ ~shown[h]
      BY DEF Overlay!Show
<1>4. Overlay!TypeOK'
      BY <1>1, <1>2, <1>3 DEF OverlayInv, Overlay!TypeOK, Overlay!reader
<1>5. Started'
      BY <1>1, <1>2, <1>3
         DEF OverlayInv, Overlay!TypeOK, Started, Overlay!reader, Told, Overlay!Lines
<1>6. Holding'
      BY <1>1, <1>2, <1>3 DEF OverlayInv, Overlay!TypeOK, Started, Holding, Overlay!reader
<1>7. Piped'
      BY <1>1, <1>2, <1>3
         DEF OverlayInv, Overlay!TypeOK, Started, Holding, Piped, Overlay!reader, Overlay!Launches
<1>8. Polled'
      BY <1>1, <1>2, <1>3 DEF OverlayInv, Overlay!TypeOK, Started, Holding, Polled, Overlay!reader
<1> QED
    BY <1>3, <1>4, <1>5, <1>6, <1>7, <1>8 DEF OverlayInv, Told, Overlay!Lines

LEMMA ReadyOverlay ==
    ASSUME Overlay!OverlayAssumption, OverlayInv, NEW h \in Handles, Overlay!Ready(h)
    PROVE  OverlayInv'
<1> DEFINE l == proc[h]
<1>1. l \in Overlay!Launches /\ l # 0 /\ owner[l] = h /\ ~shown[h] /\ win[l] # "no"
      BY
         DEF Overlay!Ready, OverlayInv, Overlay!TypeOK, Started, Holding, Overlay!Launches,
             Overlay!OverlayAssumption
<1>2. Overlay!TypeOK'
      BY <1>1 DEF Overlay!Ready, OverlayInv, Overlay!TypeOK, Overlay!window
<1>3. Started'
  <2>1. slice' \in [Overlay!Launches -> Seq(Told)]
        BY DEF Overlay!Ready, OverlayInv, Started
  <2>2. poll' = [poll EXCEPT ![l] = "on"] /\ UNCHANGED <<win, owner, pipe, proc>>
        BY DEF Overlay!Ready, Overlay!window
  <2> HIDE DEF l
  <2> QED
      BY <1>1, <2>1, <2>2 DEF OverlayInv, Overlay!TypeOK, Started, Told, Overlay!Lines
<1>4. Holding'
      BY <1>1 DEF Overlay!Ready, OverlayInv, Overlay!TypeOK, Started, Holding, Overlay!window
<1>5. Piped'
      BY <1>1 DEF Overlay!Ready, OverlayInv, Overlay!TypeOK, Piped, Overlay!window
<1>6. Polled'
      BY <1>1 DEF Overlay!Ready, OverlayInv, Overlay!TypeOK, Started, Polled, Overlay!window
<1> QED
    BY <1>2, <1>3, <1>4, <1>5, <1>6 DEF Overlay!Ready, OverlayInv, Told, Overlay!Lines

LEMMA GiveUpOverlay ==
    ASSUME Overlay!OverlayAssumption, OverlayInv, NEW h \in Handles, Overlay!GiveUp(h)
    PROVE  OverlayInv'
<1> DEFINE l == proc[h]
<1>1. l \in Overlay!Launches /\ l # 0 /\ owner[l] = h /\ ~shown[h]
          /\ win[l] # "no" /\ poll[l] = "no"
      BY
         DEF Overlay!GiveUp, OverlayInv, Overlay!TypeOK, Started, Holding, Overlay!Launches,
             Overlay!OverlayAssumption
<1>2. PICK end \in {win[l], "gone"} : win' = [win EXCEPT ![l] = end]
      BY DEF Overlay!GiveUp
<1>3. Overlay!TypeOK'
  <2>1. win' \in [Overlay!Launches -> {"no", "starting", "cleared", "up", "gone"}]
        BY <1>1, <1>2 DEF OverlayInv, Overlay!TypeOK
  <2>2. proc' \in [Handles -> 0 .. MaxLaunches]
        BY DEF Overlay!GiveUp, OverlayInv, Overlay!TypeOK, Overlay!OverlayAssumption
  <2> QED
      BY <2>1, <2>2 DEF Overlay!GiveUp, OverlayInv, Overlay!TypeOK, Overlay!reader
<1>4. Started'
      BY <1>1, <1>2
         DEF Overlay!GiveUp, OverlayInv, Overlay!TypeOK, Started, Overlay!reader, Told,
             Overlay!Lines, Overlay!Launches
<1>5. Holding'
      BY <1>1 DEF Overlay!GiveUp, OverlayInv, Overlay!TypeOK, Started, Holding, Overlay!reader
<1>6. Piped'
      BY <1>1
         DEF Overlay!GiveUp, OverlayInv, Overlay!TypeOK, Piped, Overlay!reader, Overlay!Launches
<1>7. Polled'
      BY <1>1, <1>2 DEF Overlay!GiveUp, OverlayInv, Overlay!TypeOK, Started, Polled, Overlay!reader
<1> QED
    BY <1>3, <1>4, <1>5, <1>6, <1>7 DEF Overlay!GiveUp, OverlayInv, Told, Overlay!Lines

LEMMA HideOverlay ==
    ASSUME Overlay!OverlayAssumption, OverlayInv, NEW h \in Handles, Overlay!Hide(h)
    PROVE  OverlayInv'
<1> DEFINE l == proc[h]
<1>1. l \in Overlay!Launches /\ l # 0 /\ owner[l] = h
      BY
         DEF Overlay!Hide, OverlayInv, Overlay!TypeOK, Holding, Overlay!Launches,
             Overlay!OverlayAssumption
<1>2. Overlay!TypeOK'
      BY <1>1 DEF Overlay!Hide, OverlayInv, Overlay!TypeOK
<1>3. Started'
      BY <1>1 DEF Overlay!Hide, OverlayInv, Overlay!TypeOK, Started, Told, Overlay!Lines
<1>4. Holding'
      BY <1>1 DEF Overlay!Hide, OverlayInv, Overlay!TypeOK, Holding
<1>5. Piped'
      BY <1>1 DEF Overlay!Hide, OverlayInv, Overlay!TypeOK, Piped
<1>6. Polled'
      BY DEF Overlay!Hide, OverlayInv, Overlay!TypeOK, Polled
<1> QED
    BY <1>2, <1>3, <1>4, <1>5, <1>6 DEF Overlay!Hide, OverlayInv, Told, Overlay!Lines

LEMMA StopEndsOverlay ==
    ASSUME Overlay!OverlayAssumption, OverlayInv, NEW h \in Handles, Overlay!StopEnds(h)
    PROVE  OverlayInv'
<1> DEFINE l == proc[h]
<1>1. l \in Overlay!Launches /\ l # 0 /\ owner[l] = h /\ win[l] # "no" /\ shown[h] /\ ~pipe[l]
      BY
         DEF Overlay!StopEnds, OverlayInv, Overlay!TypeOK, Started, Holding, Overlay!Launches,
             Overlay!OverlayAssumption
<1>2. /\ at' = [at EXCEPT ![h] = "idle"] /\ host[h] /\ at[h] = "stopping"
      /\ UNCHANGED <<host, stop, seen, poll, slice, heard, owner, pipe, file, clicks>>
      BY DEF Overlay!StopEnds, Overlay!reader
<1>3. PICK end \in {win[l], "gone"} : win' = [win EXCEPT ![l] = end]
      BY DEF Overlay!StopEnds
<1>4. win' \in [Overlay!Launches -> {"no", "starting", "cleared", "up", "gone"}]
          /\ \A k \in Overlay!Launches : (win'[k] = "no" <=> win[k] = "no")
                                         /\ (win'[k] # "gone" => win[k] # "gone")
      BY <1>1, <1>3 DEF OverlayInv, Overlay!TypeOK
<1> HIDE DEF l
<1>5. CASE UNCHANGED <<shown, proc, rects, asked>>
  <2>1. Overlay!TypeOK'
        BY <1>2, <1>4, <1>5 DEF OverlayInv, Overlay!TypeOK
  <2>2. Started'
        BY <1>2, <1>4, <1>5 DEF OverlayInv, Started, Told, Overlay!Lines
  <2>3. Piped' /\ Polled'
        BY <1>2, <1>4, <1>5 DEF OverlayInv, Piped, Polled
  <2>4. Holding'
        BY <1>1, <1>2, <1>5 DEF OverlayInv, Overlay!TypeOK, Holding, l
  <2> QED
      BY <1>2, <2>1, <2>2, <2>3, <2>4 DEF OverlayInv, Told, Overlay!Lines
<1>6. CASE /\ shown' = [shown EXCEPT ![h] = FALSE] /\ proc' = [proc EXCEPT ![h] = 0]
           /\ rects' = [rects EXCEPT ![h] = FALSE] /\ asked' = asked \cup {l}
  <2>1. proc' \in [Handles -> 0 .. MaxLaunches]
        BY <1>6 DEF OverlayInv, Overlay!TypeOK, Overlay!OverlayAssumption
  <2>2. /\ shown' \in [Handles -> BOOLEAN] /\ rects' \in [Handles -> BOOLEAN]
        /\ asked' \subseteq Overlay!Launches
        BY <1>1, <1>6 DEF OverlayInv, Overlay!TypeOK
  <2>3. Overlay!TypeOK'
        BY <1>2, <1>4, <2>1, <2>2 DEF OverlayInv, Overlay!TypeOK
  <2>4. Started'
        BY <1>1, <1>2, <1>4, <1>6
           DEF OverlayInv, Overlay!TypeOK, Started, Told, Overlay!Lines, Overlay!Launches
  <2>5. Holding'
        BY <1>1, <1>2, <1>6 DEF OverlayInv, Overlay!TypeOK, Holding
  <2>6. Piped'
    <3>1. \A k \in Overlay!Launches : pipe[k] => owner[k] # h
          BY <1>1 DEF OverlayInv, Piped, l
    <3> QED
        BY <1>2, <1>6, <3>1 DEF OverlayInv, Overlay!TypeOK, Piped
  <2>7. Polled'
    <3>1. \A k \in Overlay!Launches :
            win[k] # "gone" /\ poll[k] # "no" /\ owner[k] = h /\ k # l => ~pipe[k] /\ k \in asked
          BY <1>1, <1>2 DEF OverlayInv, Polled, l
    <3>2. \A k \in Overlay!Launches :
            win[k] # "gone" /\ poll[k] # "no" /\ owner[k] = h => ~pipe[k] /\ k \in asked'
          BY <1>1, <1>6, <3>1
    <3> QED
        BY <1>2, <1>4, <1>6, <3>2 DEF OverlayInv, Overlay!TypeOK, Started, Polled
  <2> QED
      BY <1>2, <2>3, <2>4, <2>5, <2>6, <2>7 DEF OverlayInv, Told, Overlay!Lines
<1> QED
    BY <1>5, <1>6 DEF Overlay!StopEnds, Overlay!Hidden, l

LEMMA DieOverlay ==
    ASSUME Overlay!OverlayAssumption, OverlayInv, NEW h \in Handles, Overlay!Die(h)
    PROVE  OverlayInv'
<1>1. <<>> \in Seq(Told) /\ <<>> \in Seq(Overlay!Lines)
      BY EmptySeq
<1>2. slice' \in [Overlay!Launches -> Seq(Told)]
          /\ \A l \in Overlay!Launches : slice'[l] \in Seq(Overlay!Lines)
      BY <1>1, ToldLines DEF Overlay!Die, OverlayInv, Started
<1>3. pipe' \in [Overlay!Launches -> BOOLEAN]
  <2>1. \A l \in Overlay!Launches : (pipe[l] /\ owner[l] # h) \in BOOLEAN
        OBVIOUS
  <2> QED
      BY <2>1, Zenon DEF Overlay!Die
<1>4. Overlay!TypeOK'
      BY <1>2, <1>3 DEF Overlay!Die, OverlayInv, Overlay!TypeOK
<1>5. Started'
      BY <1>2 DEF Overlay!Die, OverlayInv, Overlay!TypeOK, Started, Told, Overlay!Lines
<1>6. Holding'
      BY Overlay!OverlayAssumption
         DEF Overlay!Die, OverlayInv, Overlay!TypeOK, Holding, Overlay!Launches
<1>7. Piped'
      BY DEF Overlay!Die, OverlayInv, Overlay!TypeOK, Piped, Started
<1>8. Polled'
      BY DEF Overlay!Die, OverlayInv, Overlay!TypeOK, Polled, Started
<1> QED
    BY <1>4, <1>5, <1>6, <1>7, <1>8 DEF Overlay!Die, OverlayInv, Told, Overlay!Lines

-----------------------------------------------------------------------------
(* The window processes write the file, the poll threads read it.          *)

LEMMA ClearOverlay ==
    ASSUME Overlay!OverlayAssumption, OverlayInv, NEW l \in Overlay!Launches, Overlay!Clear(l)
    PROVE  OverlayInv'
<1>1. file' \in Seq(Told) /\ file' \in Seq(Overlay!Lines)
      BY EmptySeq, ToldLines DEF Overlay!Clear, OverlayInv
<1>2. PICK w \in {"cleared", "gone"} : win' = [win EXCEPT ![l] = w]
      BY DEF Overlay!Clear
<1>3. Overlay!TypeOK'
      BY <1>1, <1>2 DEF Overlay!Clear, OverlayInv, Overlay!TypeOK, Overlay!handle, Overlay!reader
<1>4. Started'
      BY <1>2
         DEF Overlay!Clear, OverlayInv, Overlay!TypeOK, Started, Overlay!handle, Overlay!reader,
             Told, Overlay!Lines
<1>5. Holding' /\ Piped'
      BY
         DEF Overlay!Clear, OverlayInv, Overlay!TypeOK, Holding, Piped, Overlay!handle,
             Overlay!reader
<1>6. Polled'
      BY <1>2 DEF Overlay!Clear, OverlayInv, Overlay!TypeOK, Polled, Overlay!handle, Overlay!reader
<1> QED
    BY <1>1, <1>3, <1>4, <1>5, <1>6 DEF OverlayInv, Overlay!Clear, Told, Overlay!Lines

LEMMA UpOverlay ==
    ASSUME Overlay!OverlayAssumption, OverlayInv, NEW l \in Overlay!Launches, Overlay!Up(l)
    PROVE  OverlayInv'
<1> DEFINE new == <<Overlay!Line("diag", l, 0), Overlay!Line("ready", l, 0)>>
<1>1. Overlay!Line("diag", l, 0) \in Told /\ Overlay!Line("ready", l, 0) \in Told
      BY DEF Overlay!Line, Told, Overlay!Lines, Overlay!OverlayAssumption
<1>2. new \in Seq(Told)
      BY <1>1
<1>3. file' \in Seq(Told) /\ file' \in Seq(Overlay!Lines)
  <2>1. file \o new \in Seq(Told)
        BY <1>2, ConcatProperties DEF OverlayInv
  <2> QED
      BY <2>1, ToldLines DEF Overlay!Up
<1>4. Overlay!TypeOK'
      BY <1>3 DEF Overlay!Up, OverlayInv, Overlay!TypeOK, Overlay!handle, Overlay!reader
<1>5. Started'
      BY
         DEF Overlay!Up, OverlayInv, Overlay!TypeOK, Started, Overlay!handle, Overlay!reader, Told,
             Overlay!Lines
<1>6. Holding' /\ Piped'
      BY DEF Overlay!Up, OverlayInv, Overlay!TypeOK, Holding, Piped, Overlay!handle, Overlay!reader
<1>7. Polled'
      BY DEF Overlay!Up, OverlayInv, Overlay!TypeOK, Polled, Overlay!handle, Overlay!reader
<1> QED
    BY <1>3, <1>4, <1>5, <1>6, <1>7 DEF OverlayInv, Overlay!Up, Told, Overlay!Lines

LEMMA EndOfInputOverlay ==
    ASSUME Overlay!OverlayAssumption, OverlayInv, NEW l \in Overlay!Launches, Overlay!EndOfInput(l)
    PROVE  OverlayInv'
<1>1. Overlay!TypeOK'
      BY DEF Overlay!EndOfInput, OverlayInv, Overlay!TypeOK, Overlay!handle, Overlay!reader
<1>2. Started'
      BY
         DEF Overlay!EndOfInput, OverlayInv, Overlay!TypeOK, Started, Overlay!handle,
             Overlay!reader, Told, Overlay!Lines
<1>3. Holding' /\ Piped'
      BY
         DEF Overlay!EndOfInput, OverlayInv, Overlay!TypeOK, Holding, Piped, Overlay!handle,
             Overlay!reader
<1>4. Polled'
      BY DEF Overlay!EndOfInput, OverlayInv, Overlay!TypeOK, Polled, Overlay!handle, Overlay!reader
<1> QED
    BY <1>1, <1>2, <1>3, <1>4 DEF OverlayInv, Overlay!EndOfInput, Told, Overlay!Lines

LEMMA ClickOverlay ==
    ASSUME Overlay!OverlayAssumption, OverlayInv, NEW l \in Overlay!Launches, Overlay!Click(l)
    PROVE  OverlayInv'
<1>1. clicks + 1 \in 1 .. MaxClicks
      BY DEF Overlay!Click, OverlayInv, Overlay!TypeOK, Overlay!OverlayAssumption
<1>2. Overlay!Line("click", l, clicks + 1) \in Told
      BY <1>1 DEF Overlay!Line, Told, Overlay!Lines, Overlay!OverlayAssumption
<1>3. file' \in Seq(Told) /\ file' \in Seq(Overlay!Lines)
      BY <1>2, AppendProperties, ToldLines DEF Overlay!Click, OverlayInv
<1>4. Overlay!TypeOK'
      BY <1>1, <1>3
         DEF Overlay!Click, OverlayInv, Overlay!TypeOK, Overlay!handle, Overlay!reader,
             Overlay!window, Overlay!OverlayAssumption
<1>5. Started'
      BY
         DEF Overlay!Click, OverlayInv, Started, Overlay!handle, Overlay!reader, Overlay!window,
             Told, Overlay!Lines
<1>6. Holding' /\ Piped' /\ Polled'
      BY
         DEF Overlay!Click, OverlayInv, Holding, Piped, Polled, Overlay!handle, Overlay!reader,
             Overlay!window
<1> QED
    BY <1>3, <1>4, <1>5, <1>6 DEF OverlayInv, Told, Overlay!Lines

LEMMA PollReadsOverlay ==
    ASSUME Overlay!OverlayAssumption, OverlayInv, NEW l \in Overlay!Launches, Overlay!PollReads(l)
    PROVE  OverlayInv'
<1> DEFINE h == owner[l]
           new == SubSeq(file, seen[h] + 1, Len(file))
<1>1. h \in Handles
      BY DEF Overlay!PollReads, OverlayInv, Started
<1>2. seen[h] \in Nat /\ Len(file) \in Nat
      BY <1>1, LenProperties DEF OverlayInv, Overlay!TypeOK
<1>3. \A i \in (seen[h] + 1) .. Len(file) : file[i] \in Told
      BY <1>2, ElementOfSeq DEF OverlayInv
<1>4. new \in Seq(Told)
      BY <1>2, <1>3, SubSeqProperties
<1>5. slice' = [slice EXCEPT ![l] = new]
      BY DEF Overlay!PollReads
<1>6. slice' \in [Overlay!Launches -> Seq(Told)]
          /\ \A k \in Overlay!Launches : slice'[k] \in Seq(Overlay!Lines)
      BY <1>4, <1>5, ToldLines DEF OverlayInv, Started
<1>7. Overlay!TypeOK'
      BY <1>6 DEF Overlay!PollReads, OverlayInv, Overlay!TypeOK, Overlay!handle, Overlay!window
<1>8. Started'
      BY <1>6
         DEF Overlay!PollReads, OverlayInv, Started, Overlay!handle, Overlay!window, Told,
             Overlay!Lines
<1>9. Holding' /\ Piped' /\ Polled'
      BY DEF Overlay!PollReads, OverlayInv, Holding, Piped, Polled, Overlay!handle, Overlay!window
<1> QED
    BY <1>7, <1>8, <1>9 DEF Overlay!PollReads, OverlayInv, Told, Overlay!Lines

LEMMA PollTakesOverlay ==
    ASSUME Overlay!OverlayAssumption, OverlayInv, NEW l \in Overlay!Launches, Overlay!PollTakes(l)
    PROVE  OverlayInv'
<1> DEFINE h == owner[l]
           line == Head(slice[l])
<1>1. h \in Handles
      BY DEF Overlay!PollTakes, OverlayInv, Started
<1>2. slice[l] \in Seq(Told) /\ slice[l] # <<>>
      BY DEF Overlay!PollTakes, OverlayInv, Started
<1>3. line \in Told /\ Tail(slice[l]) \in Seq(Told)
      BY <1>2, HeadTailProperties
<1>4. line.event = "click" => line.n \in 1 .. MaxClicks
      BY <1>3 DEF Told, Overlay!Lines, Overlay!OverlayAssumption
<1>5. heard' \in [Handles -> SUBSET (1 .. MaxClicks)]
      BY <1>1, <1>4 DEF Overlay!PollTakes, OverlayInv, Overlay!TypeOK
<1>6. slice' \in [Overlay!Launches -> Seq(Told)]
          /\ \A k \in Overlay!Launches : slice'[k] \in Seq(Overlay!Lines)
      BY <1>3, ToldLines DEF Overlay!PollTakes, OverlayInv, Started
<1>7. seen' \in [Handles -> Nat]
      BY <1>1 DEF Overlay!PollTakes, OverlayInv, Overlay!TypeOK
<1>8. Overlay!TypeOK'
      BY <1>5, <1>6, <1>7
         DEF Overlay!PollTakes, OverlayInv, Overlay!TypeOK, Overlay!handle, Overlay!window
<1>9. Started'
      BY <1>6
         DEF Overlay!PollTakes, OverlayInv, Started, Overlay!handle, Overlay!window, Told,
             Overlay!Lines
<1>10. Holding' /\ Piped' /\ Polled'
      BY DEF Overlay!PollTakes, OverlayInv, Holding, Piped, Polled, Overlay!handle, Overlay!window
<1> QED
    BY <1>8, <1>9, <1>10 DEF Overlay!PollTakes, OverlayInv, Told, Overlay!Lines

LEMMA PollEndsOverlay ==
    ASSUME Overlay!OverlayAssumption, OverlayInv, NEW l \in Overlay!Launches, Overlay!PollEnds(l)
    PROVE  OverlayInv'
<1>1. Overlay!TypeOK'
      BY DEF Overlay!PollEnds, OverlayInv, Overlay!TypeOK, Overlay!handle, Overlay!window
<1>2. Started'
      BY
         DEF Overlay!PollEnds, OverlayInv, Overlay!TypeOK, Started, Overlay!handle, Overlay!window,
             Told, Overlay!Lines
<1>3. Holding' /\ Piped'
      BY
         DEF Overlay!PollEnds, OverlayInv, Overlay!TypeOK, Holding, Piped, Overlay!handle,
             Overlay!window
<1>4. Polled'
      BY DEF Overlay!PollEnds, OverlayInv, Overlay!TypeOK, Polled, Overlay!handle, Overlay!window
<1> QED
    BY <1>1, <1>2, <1>3, <1>4 DEF Overlay!PollEnds, OverlayInv, Told, Overlay!Lines

LEMMA NextOverlay == ASSUME Overlay!OverlayAssumption
                     PROVE  OverlayInv /\ [Overlay!Next]_(Overlay!vars) => OverlayInv'
<1> SUFFICES ASSUME OverlayInv, [Overlay!Next]_(Overlay!vars) PROVE OverlayInv'
    OBVIOUS
<1>1. ASSUME NEW h \in Handles,
             Overlay!Show(h) \/ Overlay!Ready(h) \/ Overlay!GiveUp(h)
                     \/ Overlay!Hide(h) \/ Overlay!StopEnds(h) \/ Overlay!Die(h)
      PROVE  OverlayInv'
      BY <1>1, ShowOverlay, ReadyOverlay, GiveUpOverlay, HideOverlay, StopEndsOverlay, DieOverlay
<1>2. ASSUME NEW l \in Overlay!Launches,
             \/ Overlay!Clear(l) \/ Overlay!Up(l) \/ Overlay!EndOfInput(l) \/ Overlay!Click(l)
             \/ Overlay!PollReads(l) \/ Overlay!PollTakes(l) \/ Overlay!PollEnds(l)
      PROVE  OverlayInv'
      BY <1>2, ClearOverlay, UpOverlay, EndOfInputOverlay, ClickOverlay, PollReadsOverlay,
         PollTakesOverlay, PollEndsOverlay
<1>3. CASE UNCHANGED Overlay!vars
      BY <1>3
         DEF Overlay!vars, Overlay!handle, Overlay!reader, Overlay!window, OverlayInv,
             Overlay!TypeOK, Started, Holding, Piped, Polled,
                  Told, Overlay!Lines
<1> QED
    BY <1>1, <1>2, <1>3 DEF Overlay!Next

(* The window process a handle knows of is the only one it keeps alive,    *)
(* its own input is kept off that window's buttons, and it forgets a       *)
(* window only when it has told it to go both ways, by the end of its      *)
(* input and by a Stop-Process that came back: whatever fails in           *)
(* WindowsOverlay.show and hide, and however its process ends.             *)
THEOREM BandHeld == Overlay!Spec => []BandAccounted
<1>1. Overlay!Init => OverlayInv
      BY OverlayAssumed, InitOverlay
<1>2. OverlayInv /\ [Overlay!Next]_(Overlay!vars) => OverlayInv'
      BY OverlayAssumed, NextOverlay
<1>3. Overlay!Spec => []OverlayInv
      BY <1>1, <1>2, PTL DEF Overlay!Spec
<1> QED
    BY <1>3, OverlayInvAccounted, PTL DEF BandAccounted

-----------------------------------------------------------------------------
(***************************************************************************)
(* The screenshots a request shows.                                        *)
(***************************************************************************)

(* What can be taken or vouches for a picture has been issued.             *)
Backed == \A r \in Shots!ToSet(issued) \cup Shots!ToSet(records) : step[r] = "issued"

(* A call has one authority at most, so the first is the only one.         *)
Single == \A i, j \in DOMAIN records : id[records[i]] = id[records[j]] => i = j

ShotsInv == Shots!TypeOK /\ Backed /\ Shots!TakenOnce /\ Single /\ Shots!OnlyIssued

-----------------------------------------------------------------------------
(* The bounded queues.                                                     *)

(* A push keeps all but at most the first entry, and the new one is last.  *)
LEMMA PushShape ==
    ASSUME Shots!ScreenshotsAssumption, NEW q \in Seq(Results),
           NEW r \in Results, Len(q) <= Capacity
    PROVE  /\ Shots!Push(q, r) \in Seq(Results) /\ Len(Shots!Push(q, r)) <= Capacity
           /\ \E d \in {0, 1} :
                /\ Len(Shots!Push(q, r)) = Len(q) + 1 - d
                /\ \A i \in 1 .. Len(q) - d : Shots!Push(q, r)[i] = q[i + d]
                /\ Shots!Push(q, r)[Len(q) + 1 - d] = r
<1> DEFINE a == Append(q, r)
<1>1. /\ a \in Seq(Results) /\ a # <<>> /\ Len(a) = Len(q) + 1
      /\ \A i \in 1 .. Len(q) : a[i] = q[i]
      /\ a[Len(q) + 1] = r
      BY AppendProperties
<1>2. Len(q) \in Nat /\ Capacity \in Nat
      BY LenProperties DEF Shots!ScreenshotsAssumption
<1>3. /\ Tail(a) \in Seq(Results) /\ Len(Tail(a)) = Len(q)
      /\ \A i \in 1 .. Len(Tail(a)) : Tail(a)[i] = a[i + 1]
      BY <1>1, <1>2, HeadTailProperties
<1> HIDE DEF a
<1>4. CASE Len(a) > Capacity
  <2>1. Shots!Push(q, r) = Tail(a)
        BY <1>4 DEF Shots!Push, a
  <2>2. Capacity # 0 /\ Len(q) = Capacity
        BY <1>1, <1>2, <1>4 DEF Shots!ScreenshotsAssumption
  <2>3. Tail(a)[Len(q)] = r
        BY <1>1, <1>2, <1>3, <2>2
  <2>4. \A i \in 1 .. Len(q) - 1 : Tail(a)[i] = q[i + 1]
        BY <1>1, <1>2, <1>3
  <2>5. Len(q) + 1 - 1 = Len(q)
        BY <1>2
  <2> QED
      BY <1>2, <1>3, <2>1, <2>2, <2>3, <2>4, <2>5
<1>5. CASE ~(Len(a) > Capacity)
  <2>1. Shots!Push(q, r) = a
        BY <1>5 DEF Shots!Push, a
  <2>2. Len(q) + 1 - 0 = Len(q) + 1 /\ Len(q) - 0 = Len(q) /\ \A i \in 1 .. Len(q) : i + 0 = i
        BY <1>2
  <2> QED
      BY <1>1, <1>2, <1>5, <2>1, <2>2
<1> QED
    BY <1>4, <1>5

(* So it brings nothing but the new entry, and nothing twice.              *)
LEMMA PushKeeps ==
    ASSUME Shots!ScreenshotsAssumption, NEW q \in Seq(Results),
           NEW r \in Results, Len(q) <= Capacity,
           NEW p, p = Shots!Push(q, r)
    PROVE  /\ p \in Seq(Results) /\ Len(p) <= Capacity
           /\ Shots!ToSet(p) \subseteq Shots!ToSet(q) \cup {r}
           /\ Shots!IsInjective(q) /\ r \notin Shots!ToSet(q) => Shots!IsInjective(p)
<1>1. PICK d \in {0, 1} :
        /\ Len(p) = Len(q) + 1 - d
        /\ \A i \in 1 .. Len(q) - d : p[i] = q[i + d]
        /\ p[Len(q) + 1 - d] = r
      BY PushShape
<1>2. p \in Seq(Results) /\ Len(p) <= Capacity
      BY PushShape
<1>3. /\ Len(q) \in Nat /\ DOMAIN q = 1 .. Len(q)
      /\ Len(p) \in Nat /\ DOMAIN p = 1 .. Len(p)
      BY <1>2, LenProperties
<1>4. \A i \in DOMAIN p : \/ i = Len(q) + 1 - d /\ p[i] = r
                          \/ i # Len(q) + 1 - d /\ i + d \in DOMAIN q /\ p[i] = q[i + d]
  <2> SUFFICES ASSUME NEW i \in DOMAIN p, i # Len(q) + 1 - d
               PROVE  i + d \in DOMAIN q /\ p[i] = q[i + d]
      BY <1>1
  <2>1. i \in 1 .. Len(q) - d /\ i + d \in 1 .. Len(q)
        BY <1>1, <1>3
  <2> QED
      BY <1>1, <1>3, <2>1
<1>5. Shots!ToSet(p) \subseteq Shots!ToSet(q) \cup {r}
      BY <1>4 DEF Shots!ToSet
<1>6. Shots!IsInjective(q) /\ r \notin Shots!ToSet(q) => Shots!IsInjective(p)
  <2> SUFFICES ASSUME Shots!IsInjective(q), r \notin Shots!ToSet(q),
                      NEW i \in DOMAIN p, NEW j \in DOMAIN p, p[i] = p[j]
               PROVE  i = j
      BY DEF Shots!IsInjective
  <2>1. \A k \in DOMAIN q : q[k] # r
        BY DEF Shots!ToSet
  <2>2. CASE i = Len(q) + 1 - d \/ j = Len(q) + 1 - d
        BY <1>4, <2>1, <2>2
  <2>3. CASE i # Len(q) + 1 - d /\ j # Len(q) + 1 - d
    <3>1. i + d = j + d
          BY <1>4, <2>3 DEF Shots!IsInjective
    <3> QED
        BY <1>3, <3>1
  <2> QED
      BY <2>2, <2>3
<1> QED
    BY <1>2, <1>5, <1>6

(* Nor does it bring a second entry of the same kind.                      *)
LEMMA PushDistinct ==
    ASSUME Shots!ScreenshotsAssumption, NEW q \in Seq(Results),
           NEW r \in Results, Len(q) <= Capacity,
           NEW f, \A i, j \in DOMAIN q : f[q[i]] = f[q[j]] => i = j,
           \A i \in DOMAIN q : f[q[i]] # f[r],
           NEW p, p = Shots!Push(q, r)
    PROVE  \A i, j \in DOMAIN p : f[p[i]] = f[p[j]] => i = j
<1>1. PICK d \in {0, 1} :
        /\ Len(p) = Len(q) + 1 - d
        /\ \A i \in 1 .. Len(q) - d : p[i] = q[i + d]
        /\ p[Len(q) + 1 - d] = r
  <2>1. /\ Shots!Push(q, r) \in Seq(Results) /\ Len(Shots!Push(q, r)) <= Capacity
        /\ \E d \in {0, 1} :
             /\ Len(Shots!Push(q, r)) = Len(q) + 1 - d
             /\ \A i \in 1 .. Len(q) - d : Shots!Push(q, r)[i] = q[i + d]
             /\ Shots!Push(q, r)[Len(q) + 1 - d] = r
        BY PushShape, Zenon
  <2> QED
      BY <2>1, Zenon
<1>2. /\ Len(q) \in Nat /\ DOMAIN q = 1 .. Len(q)
      /\ Len(p) \in Nat /\ DOMAIN p = 1 .. Len(p)
      BY PushShape, LenProperties
<1>3. \A i \in DOMAIN p : \/ i = Len(q) + 1 - d /\ p[i] = r
                          \/ i # Len(q) + 1 - d /\ i + d \in DOMAIN q /\ p[i] = q[i + d]
  <2> SUFFICES ASSUME NEW i \in DOMAIN p, i # Len(q) + 1 - d
               PROVE  i + d \in DOMAIN q /\ p[i] = q[i + d]
      BY <1>1
  <2>1. i \in 1 .. Len(q) - d /\ i + d \in 1 .. Len(q)
        BY <1>1, <1>2
  <2> QED
      BY <1>1, <1>2, <2>1
<1> SUFFICES ASSUME NEW i \in DOMAIN p, NEW j \in DOMAIN p, f[p[i]] = f[p[j]]
             PROVE  i = j
    OBVIOUS
<1>4. CASE i = Len(q) + 1 - d \/ j = Len(q) + 1 - d
      BY <1>3, <1>4
<1>5. CASE i # Len(q) + 1 - d /\ j # Len(q) + 1 - d
  <2>1. i + d = j + d
        BY <1>3, <1>5
  <2> QED
      BY <1>2, <2>1
<1> QED
    BY <1>4, <1>5

(* Taking an entry out keeps the others, and no second one is the same.    *)
LEMMA TakenOut ==
    ASSUME NEW q \in Seq(Results), Shots!IsInjective(q),
           NEW k \in DOMAIN q, NEW p, p = Shots!RemoveAt(q, k)
    PROVE  /\ p \in Seq(Results) /\ Len(p) <= Len(q)
           /\ Shots!IsInjective(p)
           /\ Shots!ToSet(p) \subseteq Shots!ToSet(q) \ {q[k]}
<1>1. Len(q) \in Nat /\ DOMAIN q = 1 .. Len(q) /\ k \in 1 .. Len(q)
      BY LenProperties
<1> DEFINE front == SubSeq(q, 1, k - 1)
           back == SubSeq(q, k + 1, Len(q))
<1>2. /\ front \in Seq(Results) /\ Len(front) = k - 1
      /\ \A i \in 1 .. k - 1 : front[i] = q[i]
  <2>1. \A i \in 1 .. k - 1 : q[i] \in Results
        BY <1>1, ElementOfSeq
  <2>2. /\ front \in Seq(Results)
        /\ Len(front) = IF 1 <= k - 1 THEN (k - 1) - 1 + 1 ELSE 0
        /\ \A i \in 1 .. (k - 1) - 1 + 1 : front[i] = q[1 + i - 1]
        BY <1>1, <2>1, SubSeqProperties
  <2> HIDE DEF front
  <2>3. (IF 1 <= k - 1 THEN (k - 1) - 1 + 1 ELSE 0) = k - 1 /\ (k - 1) - 1 + 1 = k - 1
        BY <1>1
  <2>4. \A i \in 1 .. k - 1 : 1 + i - 1 = i
        BY <1>1
  <2> QED
      BY <2>2, <2>3, <2>4
<1>3. /\ back \in Seq(Results) /\ Len(back) = Len(q) - k
      /\ \A i \in 1 .. Len(q) - k : back[i] = q[k + i]
  <2>1. \A i \in k + 1 .. Len(q) : q[i] \in Results
        BY <1>1, ElementOfSeq
  <2>2. /\ back \in Seq(Results)
        /\ Len(back) = IF k + 1 <= Len(q) THEN Len(q) - (k + 1) + 1 ELSE 0
        /\ \A i \in 1 .. Len(q) - (k + 1) + 1 : back[i] = q[(k + 1) + i - 1]
        BY <1>1, <2>1, SubSeqProperties
  <2> HIDE DEF back
  <2>3. /\ (IF k + 1 <= Len(q) THEN Len(q) - (k + 1) + 1 ELSE 0) = Len(q) - k
        /\ Len(q) - (k + 1) + 1 = Len(q) - k
        BY <1>1
  <2>4. \A i \in 1 .. Len(q) - k : (k + 1) + i - 1 = k + i
        BY <1>1
  <2> QED
      BY <2>2, <2>3, <2>4
<1> HIDE DEF front, back
<1>4. /\ p \in Seq(Results) /\ Len(p) = Len(q) - 1
      /\ \A i \in 1 .. Len(q) - 1 : p[i] = IF i <= k - 1 THEN front[i] ELSE back[i - (k - 1)]
  <2>1. p = front \o back
        BY DEF Shots!RemoveAt, front, back
  <2>2. front \in Seq(Results) /\ back \in Seq(Results)
        BY <1>2, <1>3
  <2>3. /\ front \o back \in Seq(Results) /\ Len(front \o back) = Len(front) + Len(back)
        /\ \A i \in 1 .. Len(front) + Len(back) :
             (front \o back)[i] = IF i <= Len(front) THEN front[i] ELSE back[i - Len(front)]
        BY <2>2, ConcatProperties
  <2>4. Len(front) + Len(back) = Len(q) - 1 /\ Len(front) = k - 1
        BY <1>1, <1>2, <1>3
  <2> QED
      BY <2>1, <2>3, <2>4
<1>5. \A i \in 1 .. Len(q) - 1 : p[i] = IF i < k THEN q[i] ELSE q[i + 1]
  <2> SUFFICES ASSUME NEW i \in 1 .. Len(q) - 1
               PROVE  p[i] = IF i < k THEN q[i] ELSE q[i + 1]
      OBVIOUS
  <2>1. CASE i < k
    <3>1. i <= k - 1 /\ i \in 1 .. k - 1
          BY <1>1, <2>1
    <3>2. p[i] = front[i]
          BY <1>4, <3>1
    <3> QED
        BY <1>2, <2>1, <3>1, <3>2
  <2>2. CASE ~(i < k)
    <3>1. i - (k - 1) \in 1 .. Len(q) - k /\ k + (i - (k - 1)) = i + 1
          BY <1>1, <2>2
    <3>2. p[i] = back[i - (k - 1)]
          BY <1>1, <1>4, <2>2
    <3>3. back[i - (k - 1)] = q[k + (i - (k - 1))]
          BY <1>3, <3>1
    <3> QED
        BY <2>2, <3>1, <3>2, <3>3
  <2> QED
      BY <2>1, <2>2
<1>6. DOMAIN p = 1 .. Len(q) - 1
      BY <1>4, LenProperties
<1>7. \A i \in DOMAIN p : \E a \in DOMAIN q \ {k} :
        p[i] = q[a] /\ a = IF i < k THEN i ELSE i + 1
  <2> SUFFICES ASSUME NEW i \in DOMAIN p
               PROVE  \E a \in DOMAIN q \ {k} : p[i] = q[a] /\ a = IF i < k THEN i ELSE i + 1
      OBVIOUS
  <2> DEFINE a == IF i < k THEN i ELSE i + 1
  <2>1. a \in 1 .. Len(q) /\ a # k
        BY <1>1, <1>6
  <2>2. p[i] = q[a]
        BY <1>5, <1>6
  <2> QED
      BY <1>1, <2>1, <2>2
<1>8. Shots!IsInjective(p)
  <2> SUFFICES ASSUME NEW i \in DOMAIN p, NEW j \in DOMAIN p, p[i] = p[j] PROVE i = j
      BY DEF Shots!IsInjective
  <2>1. PICK a \in DOMAIN q \ {k} : p[i] = q[a] /\ a = IF i < k THEN i ELSE i + 1
        BY <1>7
  <2>2. PICK b \in DOMAIN q \ {k} : p[j] = q[b] /\ b = IF j < k THEN j ELSE j + 1
        BY <1>7
  <2>3. a = b
        BY <2>1, <2>2 DEF Shots!IsInjective
  <2> QED
      BY <1>1, <1>6, <2>1, <2>2, <2>3
<1>9. Shots!ToSet(p) \subseteq Shots!ToSet(q) \ {q[k]}
      BY <1>7 DEF Shots!IsInjective, Shots!ToSet
<1> QED
    BY <1>1, <1>4, <1>8, <1>9

-----------------------------------------------------------------------------
(* The newest picture.                                                     *)

LEMMA Latest ==
    ASSUME NEW n \in Nat, NEW T \in SUBSET (1 .. n), T # {}
    PROVE  \E j \in T : \A k \in T : k <= j
<1> DEFINE U == {n - j : j \in T}
<1>1. U \subseteq Nat /\ U # {}
  <2>1. ASSUME NEW j \in T PROVE n - j \in Nat
    <3>1. j \in 1 .. n
          OBVIOUS
    <3> QED
        BY <3>1
  <2> QED
      BY <2>1
<1>2. PICK x \in U : \A y \in U : ~(<<y, x>> \in OpToRel(<, Nat))
  <2> HIDE DEF U
  <2> QED
      BY <1>1, NatLessThanWellFounded, WFMin
<1>3. \A y \in U : x <= y
  <2> SUFFICES ASSUME NEW y \in U, y < x PROVE FALSE
    <3> HIDE DEF U
    <3> QED
        BY <1>1
  <2>1. <<y, x>> \in Nat \X Nat /\ <<y, x>>[1] < <<y, x>>[2]
        BY <1>1
  <2>2. <<y, x>> \in OpToRel(<, Nat)
        BY <2>1 DEF OpToRel
  <2> QED
      BY <1>2, <2>2
<1>4. PICK j \in T : x = n - j
      OBVIOUS
<1>5. \A k \in T : n - j <= n - k
      BY <1>3, <1>4
<1> QED
    BY <1>5

(* An instance has a cardinality of its own; it is the same.               *)
LEMMA ShotSets == \A S : Shots!Cardinality(S) = Cardinality(S)
BY DEF Shots!Cardinality, Cardinality

(* A picture whose message is genuine is vouched for by the one record of  *)
(* its call, and the newest of those that have one is within the budget.   *)
LEMMA NewestInBudget == ASSUME ShotsInv PROVE Shots!NewestShown
<1> SUFFICES ASSUME MaxInline > 0, NEW i \in DOMAIN history, Shots!Genuine(i)
             PROVE  \E j \in Shots!Projected : j >= i
    BY DEF Shots!NewestShown
<1>1. Len(history) \in Nat /\ DOMAIN history = 1 .. Len(history)
      BY LenProperties DEF ShotsInv, Shots!TypeOK
<1>2. Shots!HasImage(history[i])
  <2> DEFINE m == history[i]
  <2>1. PICK k \in DOMAIN records : records[k] = m.of
        BY DEF Shots!Genuine, Shots!ToSet
  <2>2. DOMAIN records \subseteq Nat /\ \A j \in 1 .. k - 1 : j \in DOMAIN records /\ j # k
    <3>1. DOMAIN records = 1 .. Len(records) /\ Len(records) \in Nat
          BY LenProperties DEF ShotsInv, Shots!TypeOK
    <3> QED
        BY <3>1
  <2>3. \A j \in 1 .. k - 1 : id[records[j]] # id[m.of]
        BY <2>1, <2>2 DEF ShotsInv, Single
  <2> QED
      BY <2>1, <2>3 DEF Shots!HasImage, Shots!Vouched, Shots!Genuine
<1> DEFINE T == {j \in DOMAIN history : Shots!HasImage(history[j])}
<1>3. T \in SUBSET (1 .. Len(history)) /\ i \in T
      BY <1>1, <1>2
<1> HIDE DEF T
<1>4. PICK j \in T : \A k \in T : k <= j
      BY <1>1, <1>3, Latest
<1>5. {k \in j + 1 .. Len(history) : Shots!HasImage(history[k])} = {}
      BY <1>1, <1>3, <1>4 DEF T
<1>6. j \in Shots!Projected
      BY <1>5, FS_EmptySet, ShotSets DEF Shots!Projected, T
<1> QED
    BY <1>1, <1>3, <1>4, <1>6

LEMMA ShotsInvTrue == ShotsInv => Shots!PicturesTrue
BY NewestInBudget DEF ShotsInv, Shots!PicturesTrue

-----------------------------------------------------------------------------
LEMMA InitShots == Shots!ScreenshotsAssumption /\ Shots!Init => ShotsInv
<1> SUFFICES ASSUME Shots!ScreenshotsAssumption, Shots!Init PROVE ShotsInv
    OBVIOUS
<1>1. <<>> \in Seq(Results) /\ <<>> \in Seq(Shots!Messages) /\ Len(<<>>) = 0 /\ DOMAIN <<>> = {}
      BY EmptySeq
<1>2. Shots!TypeOK
  <2>1. Shots!IsInjective(<<>>) /\ Len(<<>>) <= Capacity
        BY <1>1 DEF Shots!IsInjective, Shots!ScreenshotsAssumption
  <2>2. /\ issued \in Seq(Results) /\ Len(issued) <= Capacity /\ Shots!IsInjective(issued)
        /\ records \in Seq(Results) /\ Len(records) <= Capacity /\ Shots!IsInjective(records)
        /\ history \in Seq(Shots!Messages) /\ inlined \subseteq DOMAIN history
        BY <1>1, <2>1 DEF Shots!Init
  <2>3. dir \in BOOLEAN /\ replaced \in BOOLEAN
        BY Zenon DEF Shots!Init
  <2> QED
      BY <2>2, <2>3 DEF Shots!Init, Shots!TypeOK
<1> QED
    BY <1>1, <1>2
       DEF Shots!Init, ShotsInv, Backed, Shots!TakenOnce, Single, Shots!OnlyIssued, Shots!ToSet

(* A step that shows nothing and leaves queues and messages alone.         *)
LEMMA ShotsStill ==
    ASSUME ShotsInv, UNCHANGED <<id, issued, records, history>>, inlined' = {},
           step' \in [Results -> {"no", "prepared", "issued", "failed"}], dir' \in BOOLEAN,
           shot' \in [Results -> {"none", "same", "changed", "gone"}], replaced' \in BOOLEAN,
           \A r \in Results : step[r] = "issued" => step'[r] = "issued"
    PROVE  ShotsInv'
<1>1. Shots!TypeOK'
      BY DEF ShotsInv, Shots!TypeOK, Shots!Messages
<1>2. Shots!ToSet(issued) \cup Shots!ToSet(records) \subseteq Results
      BY LenProperties DEF ShotsInv, Shots!TypeOK, Shots!ToSet
<1>3. Backed'
      BY <1>2 DEF ShotsInv, Backed
<1> QED
    BY <1>1, <1>3 DEF ShotsInv, Shots!TakenOnce, Single, Shots!OnlyIssued

LEMMA PrunedType ==
    ASSUME Shots!TypeOK, NEW f, NEW d, Shots!Pruned(f, d)
    PROVE  f \in [Results -> {"none", "same", "changed", "gone"}] /\ d \in BOOLEAN
<1>1. f \in [Results -> {"none", "same", "changed", "gone"}]
      BY DEF Shots!Pruned, Shots!TypeOK
<1>2. d \in BOOLEAN
      BY Zenon DEF Shots!Pruned
<1> QED
    BY <1>1, <1>2

LEMMA PrepareShots == ASSUME ShotsInv, NEW r \in Results, Shots!Prepare(r) PROVE ShotsInv'
<1>1. shot' \in [Results -> {"none", "same", "changed", "gone"}]
      BY PrunedType DEF Shots!Prepare, ShotsInv
<1> QED
    BY <1>1, ShotsStill DEF Shots!Prepare, ShotsInv, Shots!TypeOK

LEMMA OtherPrunesShots == ASSUME ShotsInv, Shots!OtherPrunes PROVE ShotsInv'
<1>1. shot' \in [Results -> {"none", "same", "changed", "gone"}] /\ dir' \in BOOLEAN
      BY DEF Shots!OtherPrunes
<1> QED
    BY <1>1, ShotsStill DEF Shots!OtherPrunes, ShotsInv, Shots!TypeOK

LEMMA TamperShots == ASSUME ShotsInv, NEW r \in Results, Shots!Tamper(r) PROVE ShotsInv'
<1>1. shot' \in [Results -> {"none", "same", "changed", "gone"}]
      BY DEF Shots!Tamper, ShotsInv, Shots!TypeOK
<1> QED
    BY <1>1, ShotsStill DEF Shots!Tamper, ShotsInv, Shots!TypeOK

LEMMA ReplaceShots == ASSUME ShotsInv, Shots!Replace PROVE ShotsInv'
<1>1. replaced' \in BOOLEAN
      BY Zenon DEF Shots!Replace
<1> QED
    BY <1>1, ShotsStill DEF Shots!Replace, Shots!tool, ShotsInv, Shots!TypeOK

(* What is issued was prepared, so it is in neither queue.                 *)
LEMMA WriteShots ==
    ASSUME Shots!ScreenshotsAssumption, ShotsInv, NEW r \in Results, Shots!Write(r)
    PROVE  ShotsInv'
<1>1. CASE UNCHANGED <<shot, issued>>
  <2>1. step' \in [Results -> {"no", "prepared", "issued", "failed"}]
        BY DEF Shots!Write, ShotsInv, Shots!TypeOK
  <2>2. \A q \in Results : step[q] = "issued" => step'[q] = "issued"
        BY DEF Shots!Write, ShotsInv, Shots!TypeOK
  <2> QED
      BY <1>1, <2>1, <2>2, ShotsStill DEF Shots!Write, ShotsInv, Shots!TypeOK
<1>2. CASE /\ shot' = [shot EXCEPT ![r] = "same"] /\ issued' = Shots!Push(issued, r)
           /\ step' = [step EXCEPT ![r] = "issued"]
  <2>1. r \notin Shots!ToSet(issued) \cup Shots!ToSet(records)
        BY DEF Shots!Write, ShotsInv, Backed
  <2>2. issued \in Seq(Results) /\ Len(issued) <= Capacity /\ Shots!IsInjective(issued)
        BY DEF ShotsInv, Shots!TypeOK
  <2>3. /\ issued' \in Seq(Results) /\ Len(issued') <= Capacity /\ Shots!IsInjective(issued')
        /\ Shots!ToSet(issued') \subseteq Shots!ToSet(issued) \cup {r}
        BY <1>2, <2>1, <2>2, PushKeeps
  <2>4. inlined' = {} /\ UNCHANGED <<id, dir, records, replaced, history>>
        BY DEF Shots!Write
  <2>5. Shots!TypeOK'
        BY <1>2, <2>3, <2>4 DEF ShotsInv, Shots!TypeOK, Shots!Messages
  <2>6. Shots!ToSet(issued) \cup Shots!ToSet(records) \subseteq Results
        BY LenProperties DEF ShotsInv, Shots!TypeOK, Shots!ToSet
  <2>7. Backed'
        BY <1>2, <2>3, <2>4, <2>6 DEF ShotsInv, Shots!TypeOK, Backed
  <2>8. Shots!TakenOnce'
        BY <2>1, <2>3, <2>4 DEF ShotsInv, Shots!TakenOnce
  <2> QED
      BY <2>4, <2>5, <2>7, <2>8 DEF ShotsInv, Single, Shots!OnlyIssued
<1> QED
    BY <1>1, <1>2 DEF Shots!Write

(* A call's result passes by: it moves from one queue to the other, or is  *)
(* dropped when the call has an authority already.                         *)
LEMMA PostShots ==
    ASSUME Shots!ScreenshotsAssumption, ShotsInv, NEW m \in Shots!Messages, Shots!Post(m)
    PROVE  ShotsInv'
<1>1. inlined' = {} /\ UNCHANGED <<id, step, dir, shot, replaced>>
      BY DEF Shots!Post
<1>2. history' \in Seq(Shots!Messages)
      BY AppendProperties DEF Shots!Post, ShotsInv, Shots!TypeOK
<1>3. m.of \in Results
      BY DEF Shots!Messages
<1>4. /\ issued \in Seq(Results) /\ records \in Seq(Results)
      /\ Len(issued) <= Capacity /\ Len(records) <= Capacity
      /\ Shots!IsInjective(issued) /\ Shots!IsInjective(records)
      BY DEF ShotsInv, Shots!TypeOK
<1>5. CASE UNCHANGED <<issued, records>>
  <2>1. Shots!TypeOK'
        BY <1>1, <1>2, <1>5 DEF ShotsInv, Shots!TypeOK, Shots!Messages
  <2> QED
      BY <1>1, <1>5, <2>1 DEF ShotsInv, Backed, Shots!TakenOnce, Single, Shots!OnlyIssued
<1>6. CASE /\ m.of \in Shots!ToSet(issued) /\ Shots!Take(m.of, issued')
           /\ records' = IF \E i \in DOMAIN records : id[records[i]] = id[m.of]
                         THEN records ELSE Shots!Push(records, m.of)
  <2>1. PICK k \in DOMAIN issued : issued[k] = m.of /\ issued' = Shots!RemoveAt(issued, k)
        BY <1>6 DEF Shots!Take
  <2>2. /\ issued' \in Seq(Results) /\ Len(issued') <= Len(issued)
        /\ Shots!IsInjective(issued')
        /\ Shots!ToSet(issued') \subseteq Shots!ToSet(issued) \ {m.of}
        BY <1>4, <2>1, TakenOut
  <2>3. Len(issued') <= Capacity
        BY <1>4, <2>2, LenProperties DEF Shots!ScreenshotsAssumption
  <2>4. m.of \notin Shots!ToSet(records)
        BY <1>6 DEF ShotsInv, Shots!TakenOnce
  <2>5. /\ records' \in Seq(Results) /\ Len(records') <= Capacity /\ Shots!IsInjective(records')
        /\ Shots!ToSet(records') \subseteq Shots!ToSet(records) \cup {m.of}
        /\ \A i, j \in DOMAIN records' : id[records'[i]] = id[records'[j]] => i = j
    <3>1. CASE records' = records
          BY <1>4, <3>1 DEF ShotsInv, Single
    <3>2. CASE /\ records' = Shots!Push(records, m.of)
               /\ \A i \in DOMAIN records : id[records[i]] # id[m.of]
      <4> DEFINE r == m.of
      <4>1. /\ \A i, j \in DOMAIN records : id[records[i]] = id[records[j]] => i = j
            /\ \A i \in DOMAIN records : id[records[i]] # id[r]
            /\ records \in Seq(Results) /\ r \in Results /\ Len(records) <= Capacity
            /\ records' = Shots!Push(records, r)
            BY <1>3, <1>4, <3>2 DEF ShotsInv, Single
      <4> HIDE DEF r
      <4>2. \A i, j \in DOMAIN records' : id[records'[i]] = id[records'[j]] => i = j
            BY <4>1, PushDistinct
      <4>3. /\ records' \in Seq(Results) /\ Len(records') <= Capacity
            /\ Shots!ToSet(records') \subseteq Shots!ToSet(records) \cup {m.of}
            /\ Shots!IsInjective(records')
            BY <1>3, <1>4, <2>4, <3>2, PushKeeps
      <4> QED
          BY <4>2, <4>3
    <3> QED
        BY <1>6, <3>1, <3>2
  <2>6. Shots!TypeOK'
        BY <1>1, <1>2, <2>2, <2>3, <2>5 DEF ShotsInv, Shots!TypeOK, Shots!Messages
  <2>7. Backed'
        BY <1>1, <1>6, <2>2, <2>5 DEF ShotsInv, Backed
  <2>8. Shots!TakenOnce'
        BY <2>2, <2>5 DEF ShotsInv, Shots!TakenOnce
  <2>9. Single'
        BY <1>1, <2>5 DEF Single
  <2> QED
      BY <1>1, <2>6, <2>7, <2>8, <2>9 DEF ShotsInv, Shots!OnlyIssued
<1> QED
    BY <1>5, <1>6 DEF Shots!Post

LEMMA HistoryShots ==
    ASSUME ShotsInv, UNCHANGED <<Shots!tool, records, replaced>>, inlined' = {},
           history' \in Seq(Shots!Messages)
    PROVE  ShotsInv'
<1>1. Shots!TypeOK'
      BY DEF ShotsInv, Shots!TypeOK, Shots!Messages, Shots!tool
<1> QED
    BY <1>1 DEF ShotsInv, Backed, Shots!TakenOnce, Single, Shots!OnlyIssued, Shots!tool

LEMMA ProjectShots == ASSUME ShotsInv, Shots!Project PROVE ShotsInv'
<1>1. UNCHANGED <<id, step, dir, shot, issued, records, replaced, history>>
      BY DEF Shots!Project, Shots!tool
<1>2. inlined' \subseteq DOMAIN history /\ \A i \in inlined' : Shots!HasImage(history[i])
      BY DEF Shots!Project, Shots!Projected
<1>3. Shots!TypeOK'
      BY <1>1, <1>2 DEF ShotsInv, Shots!TypeOK, Shots!Messages
<1>4. Shots!OnlyIssued'
  <2> SUFFICES ASSUME NEW i \in inlined'
               PROVE  LET m == history[i] IN
                      m.form = "exact" /\ id[m.of] = id[m.shows] /\ step[m.shows] = "issued"
                        /\ shot[m.shows] = "same" /\ ~replaced
      BY <1>1 DEF Shots!OnlyIssued
  <2>1. PICK k \in DOMAIN records :
          id[records[k]] = id[history[i].of] /\ records[k] = history[i].shows
        BY <1>2 DEF Shots!HasImage, Shots!Vouched
  <2>2. history[i].shows \in Shots!ToSet(records)
        BY <2>1 DEF Shots!ToSet
  <2> QED
      BY <1>2, <2>1, <2>2 DEF Shots!HasImage, Shots!Vouched, ShotsInv, Backed
<1> QED
    BY <1>1, <1>3, <1>4 DEF ShotsInv, Backed, Shots!TakenOnce, Single

LEMMA NextShots == ASSUME Shots!ScreenshotsAssumption
                   PROVE  ShotsInv /\ [Shots!Next]_(Shots!vars) => ShotsInv'
<1> SUFFICES ASSUME ShotsInv, [Shots!Next]_(Shots!vars) PROVE ShotsInv'
    OBVIOUS
<1>1. ASSUME NEW r \in Results, Shots!Prepare(r) \/ Shots!Write(r) \/ Shots!Tamper(r)
      PROVE  ShotsInv'
      BY <1>1, PrepareShots, WriteShots, TamperShots
<1>2. ASSUME NEW m \in Shots!Messages, Shots!Post(m) PROVE ShotsInv'
      BY <1>2, PostShots
<1>3. ASSUME NEW m \in Shots!Messages, Shots!Forge(m) PROVE ShotsInv'
  <2>1. history' \in Seq(Shots!Messages)
        BY <1>3, AppendProperties DEF Shots!Forge, ShotsInv, Shots!TypeOK
  <2> QED
      BY <1>3, <2>1, HistoryShots DEF Shots!Forge
<1>4. CASE Shots!Compact
  <2>1. history' \in Seq(Shots!Messages)
        BY <1>4, HeadTailProperties DEF Shots!Compact, ShotsInv, Shots!TypeOK
  <2> QED
      BY <1>4, <2>1, HistoryShots DEF Shots!Compact
<1>5. CASE Shots!OtherPrunes \/ Shots!Replace \/ Shots!Project
      BY <1>5, OtherPrunesShots, ReplaceShots, ProjectShots
<1>6. CASE UNCHANGED Shots!vars
      BY <1>6
         DEF Shots!vars, Shots!tool, ShotsInv, Shots!TypeOK, Backed, Shots!TakenOnce, Single,
             Shots!OnlyIssued, Shots!Messages
<1> QED
    BY <1>1, <1>2, <1>3, <1>4, <1>5, <1>6 DEF Shots!Next

(* A request shows nothing but pictures the tool issued, in the answers of *)
(* the calls that took them; each authority is taken once; and the newest  *)
(* message that has one is shown, whatever is forged or tampered with.     *)
THEOREM PicturesAreTrue == Shots!Spec => []PicturesTrue
<1>1. Shots!Init => ShotsInv
      BY ShotsAssumed, InitShots
<1>2. ShotsInv /\ [Shots!Next]_(Shots!vars) => ShotsInv'
      BY ShotsAssumed, NextShots
<1>3. Shots!Spec => []ShotsInv
      BY <1>1, <1>2, PTL DEF Shots!Spec
<1> QED
    BY <1>3, ShotsInvTrue, PTL DEF PicturesTrue

-----------------------------------------------------------------------------
(***************************************************************************)
(* Wrapping the provider's methods.                                        *)
(***************************************************************************)

(* What somebody left on some methods is what it found there with itself   *)
(* on top; a mount wraps all methods.                                      *)
Left(w, some) ==
    /\ w \in Mounts => some = Wraps!Fields
    /\ DOMAIN before[w] = some /\ \A field \in some : before[w][field] \in Wraps!Stacks
    /\ installed[w] = [field \in some |-> Append(before[w][field], w)]

Found ==
    /\ DOMAIN before = Wraps!Who /\ DOMAIN installed = Wraps!Who
    /\ \A w \in Wraps!Who :
         \/ before[w] = Wraps!Nothing /\ installed[w] = Wraps!Nothing
         \/ \E some \in (SUBSET Wraps!Fields) \ {{}} : Left(w, some)

(* A mount that has not cleaned up is still on all methods: nobody else    *)
(* takes it off.                                                           *)
StillThere ==
    \A m \in Mounts :
        installed[m] # Wraps!Nothing => life[m] = "on"
                /\ \A field \in Wraps!Fields : m \in Wraps!On(field)

OneMount == \A field \in Wraps!Fields : \A m, n \in Wraps!On(field) : m = n

(* As long as nobody has wrapped over a mount, it is on top.               *)
Uncovered == covered = {} => \A m \in Wraps!Reachable : installed[m] = methods

WrapsInv == Wraps!TypeOK /\ Found /\ StillThere /\ OneMount /\ Uncovered /\ Wraps!FlagTruthful

-----------------------------------------------------------------------------
(* Stacks.                                                                 *)

(* An instance has operators of its own for finite sets; they are the same.*)
LEMMA WrapSets ==
    \A S : (Wraps!IsFiniteSet(S) <=> IsFiniteSet(S)) /\ Wraps!Cardinality(S) = Cardinality(S)
<1>1. \A S : Wraps!IsFiniteSet(S) <=> IsFiniteSet(S)
      BY DEF Wraps!IsFiniteSet, IsFiniteSet
<1>2. \A S : Wraps!Cardinality(S) = Cardinality(S)
      BY DEF Wraps!Cardinality, Cardinality
<1> QED
    BY <1>1, <1>2

LEMMA StacksAre ==
    Wraps!Stacks = {s \in UNION {[1 .. n -> Wraps!Who] : n \in 0 .. Cardinality(Wraps!Who)} :
                      Wraps!IsInjective(s)}
BY WrapSets DEF Wraps!Stacks

LEMMA StackSeq ==
    ASSUME NEW s \in Wraps!Stacks
    PROVE  s \in Seq(Wraps!Who) /\ Wraps!IsInjective(s) /\ DOMAIN s = 1 .. Len(s) /\ Len(s) \in Nat
<1>1. PICK n \in 0 .. Cardinality(Wraps!Who) : s \in [1 .. n -> Wraps!Who]
      BY StacksAre
<1>2. s \in Seq(Wraps!Who)
      BY <1>1
<1> QED
    BY <1>2, LenProperties, StacksAre

LEMMA AppendSet ==
    ASSUME NEW s \in Wraps!Stacks, NEW w \in Wraps!Who
    PROVE  /\ Wraps!ToSet(Append(s, w)) = Wraps!ToSet(s) \cup {w}
           /\ Wraps!IsInjective(Append(s, w)) <=> w \notin Wraps!ToSet(s)
<1> DEFINE a == Append(s, w)
<1>1. s \in Seq(Wraps!Who) /\ Wraps!IsInjective(s) /\ DOMAIN s = 1 .. Len(s) /\ Len(s) \in Nat
      BY StackSeq
<1>2. /\ a \in Seq(Wraps!Who) /\ Len(a) = Len(s) + 1
      /\ \A i \in 1 .. Len(s) : a[i] = s[i]
      /\ a[Len(s) + 1] = w
      BY <1>1, AppendProperties
<1>3. DOMAIN a = 1 .. Len(s) + 1
      BY <1>2, LenProperties
<1> HIDE DEF a
<1>4. Wraps!ToSet(a) = Wraps!ToSet(s) \cup {w}
  <2>1. Wraps!ToSet(a) \subseteq Wraps!ToSet(s) \cup {w}
        BY <1>1, <1>2, <1>3 DEF Wraps!ToSet
  <2>2. \A i \in DOMAIN s : i \in DOMAIN a /\ a[i] = s[i]
        BY <1>1, <1>2, <1>3
  <2>3. Len(s) + 1 \in DOMAIN a
        BY <1>1, <1>3
  <2> QED
      BY <1>2, <2>1, <2>2, <2>3 DEF Wraps!ToSet
<1>5. ASSUME Wraps!IsInjective(a) PROVE w \notin Wraps!ToSet(s)
  <2> SUFFICES ASSUME NEW i \in DOMAIN s, s[i] = w PROVE FALSE
      BY DEF Wraps!ToSet
  <2>1. i \in DOMAIN a /\ Len(s) + 1 \in DOMAIN a /\ a[i] = a[Len(s) + 1] /\ i # Len(s) + 1
        BY <1>1, <1>2, <1>3
  <2> QED
      BY <1>5, <2>1 DEF Wraps!IsInjective
<1>6. ASSUME w \notin Wraps!ToSet(s) PROVE Wraps!IsInjective(a)
  <2> SUFFICES ASSUME NEW i \in DOMAIN a, NEW j \in DOMAIN a, a[i] = a[j] PROVE i = j
      BY DEF Wraps!IsInjective
  <2>1. \A k \in DOMAIN a : (k \in DOMAIN s /\ a[k] = s[k]) \/ (k = Len(s) + 1 /\ a[k] = w)
    <3> SUFFICES ASSUME NEW k \in DOMAIN a
                 PROVE  (k \in DOMAIN s /\ a[k] = s[k]) \/ (k = Len(s) + 1 /\ a[k] = w)
        OBVIOUS
    <3>1. k \in 1 .. Len(s) \/ k = Len(s) + 1
          BY <1>1, <1>3
    <3> QED
        BY <1>1, <1>2, <3>1
  <2>2. \A k \in DOMAIN s : s[k] # w
        BY <1>6 DEF Wraps!ToSet
  <2> QED
      BY <1>1, <2>1, <2>2 DEF Wraps!IsInjective
<1> QED
    BY <1>4, <1>5, <1>6 DEF a

(* Nobody is twice in a stack, so there is always room for one more.       *)
LEMMA AppendStack ==
    ASSUME Wraps!WrappingAssumption, NEW s \in Wraps!Stacks,
           NEW w \in Wraps!Who, w \notin Wraps!ToSet(s)
    PROVE  Append(s, w) \in Wraps!Stacks
<1> DEFINE a == Append(s, w)
<1>1. s \in Seq(Wraps!Who) /\ DOMAIN s = 1 .. Len(s) /\ Len(s) \in Nat
      BY StackSeq
<1>2. a \in Seq(Wraps!Who) /\ Len(a) = Len(s) + 1
      BY <1>1, AppendProperties
<1>3. a \in [1 .. Len(s) + 1 -> Wraps!Who]
      BY <1>2, LenProperties
<1>4. Wraps!IsInjective(a)
      BY AppendSet
<1> HIDE DEF a
<1>5. IsFiniteSet(Wraps!Who) /\ Cardinality(Wraps!Who) \in Nat
      BY FS_Union, FS_CardinalityType, WrapSets DEF Wraps!WrappingAssumption, Wraps!Who
<1>6. Cardinality(1 .. Len(s) + 1) <= Cardinality(Wraps!Who)
  <2>1. a \in Injection(1 .. Len(s) + 1, Wraps!Who)
        BY <1>3, <1>4 DEF Injection, IsInjective, Wraps!IsInjective
  <2> QED
      BY <1>5, <2>1, FS_Injection
<1>7. Len(s) + 1 \in 0 .. Cardinality(Wraps!Who)
  <2>1. Cardinality(1 .. Len(s) + 1) = Len(s) + 1
        BY <1>1, FS_Interval
  <2> QED
      BY <1>1, <1>5, <1>6, <2>1
<1> QED
    BY <1>3, <1>4, <1>7, StacksAre DEF a

LEMMA AppendTop ==
    ASSUME NEW s \in Wraps!Stacks, NEW t \in Wraps!Stacks, NEW v \in Wraps!Who, NEW w \in Wraps!Who,
           Append(s, v) = Append(t, w)
    PROVE  v = w /\ s = t
BY StackSeq, AppendInjective

(* What is put back is the method as it is, or without whoever was on top: *)
(* the one that restores.                                                  *)
LEMMA RestoredShape ==
    ASSUME WrapsInv, NEW w \in Wraps!Who, NEW field \in Wraps!Fields
    PROVE  LET rest == Wraps!Restored(w)[field] IN
           /\ rest \in Wraps!Stacks
           /\ \/ rest = methods[field]
                 /\ ~(field \in DOMAIN installed[w] /\ methods[field] = installed[w][field])
              \/ /\ installed[w] # Wraps!Nothing /\ methods[field] = installed[w][field]
                 /\ methods[field] = Append(rest, w)
                 /\ rest = before[w][field]
                 /\ Wraps!ToSet(methods[field]) = Wraps!ToSet(rest) \cup {w}
                         /\ w \notin Wraps!ToSet(rest)
<1>1. methods[field] \in Wraps!Stacks
      BY DEF WrapsInv, Wraps!TypeOK
<1>2. CASE ~(field \in DOMAIN installed[w] /\ methods[field] = installed[w][field])
      BY <1>1, <1>2 DEF Wraps!Restored
<1>3. CASE field \in DOMAIN installed[w] /\ methods[field] = installed[w][field]
  <2>1. Wraps!Restored(w)[field] = before[w][field]
        BY <1>3 DEF Wraps!Restored
  <2>2. installed[w] # Wraps!Nothing
        BY <1>3 DEF Wraps!Nothing
  <2>3. PICK some \in (SUBSET Wraps!Fields) \ {{}} : Left(w, some)
        BY <2>2 DEF WrapsInv, Found
  <2>4. before[w][field] \in Wraps!Stacks /\ methods[field] = Append(before[w][field], w)
        BY <1>3, <2>3 DEF Left
  <2>5. Wraps!IsInjective(methods[field])
        BY <1>1, StacksAre
  <2> QED
      BY <1>3, <2>1, <2>2, <2>4, <2>5, AppendSet
<1> QED
    BY <1>2, <1>3

-----------------------------------------------------------------------------
LEMMA ReachableOn == Wraps!Reachable # {} <=> \E field \in Wraps!Fields : Wraps!On(field) # {}
BY DEF Wraps!Reachable

LEMMA NothingLeft == ASSUME NEW g, DOMAIN g # {} PROVE g # Wraps!Nothing
BY DEF Wraps!Nothing

LEMMA InitWraps == Wraps!WrappingAssumption /\ Wraps!Init => WrapsInv
<1> SUFFICES ASSUME Wraps!WrappingAssumption, Wraps!Init PROVE WrapsInv
    OBVIOUS
<1>1. <<>> \in Wraps!Stacks
  <2>1. <<>> \in [1 .. 0 -> Wraps!Who] /\ Wraps!IsInjective(<<>>)
        BY DEF Wraps!IsInjective
  <2>2. 0 \in 0 .. Cardinality(Wraps!Who)
    <3>1. IsFiniteSet(Wraps!Who)
          BY FS_Union, WrapSets DEF Wraps!WrappingAssumption, Wraps!Who
    <3> QED
        BY <3>1, FS_CardinalityType
  <2> QED
      BY <2>1, <2>2, StacksAre
<1>2. methods \in [Wraps!Fields -> Wraps!Stacks]
          /\ \A field \in Wraps!Fields : methods[field] = <<>>
      BY <1>1 DEF Wraps!Init, Wraps!Bare
<1>3. \A field \in Wraps!Fields : Wraps!On(field) = {}
      BY <1>2 DEF Wraps!On, Wraps!ToSet
<1>4. flag \in BOOLEAN
      BY Zenon DEF Wraps!Init
<1>5. Wraps!TypeOK
      BY <1>2, <1>4 DEF Wraps!Init, Wraps!TypeOK, Wraps!Nothing
<1>6. Found
      BY DEF Wraps!Init, Found
<1>7. \A m \in Mounts : installed[m] = Wraps!Nothing
      BY DEF Wraps!Init, Wraps!Who
<1>8. Wraps!Reachable = {} /\ flag = FALSE
      BY <1>3, ReachableOn DEF Wraps!Init
<1> QED
    BY <1>3, <1>5, <1>6, <1>7, <1>8
       DEF WrapsInv, StillThere, OneMount, Uncovered, Wraps!FlagTruthful

LEMMA MountWraps == ASSUME WrapsInv, NEW m \in Mounts, Wraps!Mount(m) PROVE WrapsInv'
<1>1. Wraps!TypeOK'
      BY DEF Wraps!Mount, WrapsInv, Wraps!TypeOK
<1>2. StillThere'
      BY DEF Wraps!Mount, WrapsInv, Wraps!TypeOK, StillThere, Wraps!On
<1> QED
    BY <1>1, <1>2
       DEF Wraps!Mount, WrapsInv, Found, Left, OneMount, Uncovered, Wraps!FlagTruthful,
           Wraps!Reachable, Wraps!On

(* A mount that wraps finds no other: the flag says so, and it is true.    *)
LEMMA WrapWraps ==
    ASSUME Wraps!WrappingAssumption, WrapsInv, NEW m \in Mounts, Wraps!Wrap(m)
    PROVE  WrapsInv'
<1>1. \A field \in Wraps!Fields : Wraps!On(field) = {}
      BY ReachableOn DEF Wraps!Wrap, WrapsInv, Wraps!FlagTruthful
<1>2. \A field \in Wraps!Fields : methods[field] \in Wraps!Stacks
          /\ m \notin Wraps!ToSet(methods[field])
      BY <1>1 DEF WrapsInv, Wraps!TypeOK, Wraps!On
<1>3. m \in Wraps!Who /\ "complete" \in Wraps!Fields
      BY DEF Wraps!Who, Wraps!Fields
<1>4. \A field \in Wraps!Fields :
        /\ methods'[field] = Append(methods[field], m)
        /\ methods'[field] \in Wraps!Stacks
        /\ Wraps!ToSet(methods'[field]) = Wraps!ToSet(methods[field]) \cup {m}
      BY <1>2, <1>3, AppendStack, AppendSet DEF Wraps!Wrap
<1>5. methods' \in [Wraps!Fields -> Wraps!Stacks]
      BY <1>4 DEF Wraps!Wrap
<1>6. \A field \in Wraps!Fields : Wraps!On(field)' = {m}
      BY <1>1, <1>4 DEF Wraps!On
<1>7. Wraps!Reachable' = {m}
      BY <1>3, <1>6 DEF Wraps!Reachable
<1>8. DOMAIN before = Wraps!Who /\ DOMAIN installed = Wraps!Who
      BY DEF WrapsInv, Found
<1>9. /\ before' = [before EXCEPT ![m] = methods] /\ installed' = [installed EXCEPT ![m] = methods']
      /\ flag' = TRUE /\ life[m] = "on" /\ UNCHANGED <<life, covered>>
      BY DEF Wraps!Wrap
<1>10. DOMAIN methods = Wraps!Fields /\ DOMAIN methods' = Wraps!Fields
      BY <1>5 DEF WrapsInv, Wraps!TypeOK
<1>11. flag' \in BOOLEAN
      BY <1>9, Zenon
<1>12. Wraps!TypeOK'
      BY <1>3, <1>5, <1>8, <1>9, <1>10, <1>11 DEF WrapsInv, Wraps!TypeOK
<1>13. Found'
  <2>1. Left(m, Wraps!Fields)'
        BY <1>2, <1>3, <1>4, <1>5, <1>8, <1>9, <1>10 DEF Left
  <2>2. Wraps!Fields \in (SUBSET Wraps!Fields) \ {{}}
        BY <1>3
  <2>3. ASSUME NEW w \in Wraps!Who, w # m
        PROVE  \/ before'[w] = Wraps!Nothing /\ installed'[w] = Wraps!Nothing
               \/ \E some \in (SUBSET Wraps!Fields) \ {{}} : Left(w, some)'
    <3>1. before'[w] = before[w] /\ installed'[w] = installed[w]
          BY <1>8, <1>9, <2>3
    <3> QED
        BY <3>1 DEF WrapsInv, Found, Left
  <2> QED
      BY <1>8, <1>9, <2>1, <2>2, <2>3 DEF Found
<1>14. StillThere'
  <2> SUFFICES ASSUME NEW n \in Mounts, installed'[n] # Wraps!Nothing
               PROVE  life'[n] = "on" /\ \A field \in Wraps!Fields : n \in Wraps!On(field)'
      BY DEF StillThere
  <2>1. CASE n = m
        BY <1>6, <1>9, <2>1
  <2>2. CASE n # m
    <3>1. installed[n] # Wraps!Nothing
          BY <1>8, <1>9, <2>2 DEF Wraps!Who
    <3> QED
        BY <1>1, <1>3, <3>1 DEF WrapsInv, StillThere
  <2> QED
      BY <2>1, <2>2
<1>15. OneMount'
      BY <1>6 DEF OneMount
<1>16. Uncovered'
      BY <1>3, <1>7, <1>8, <1>9 DEF Uncovered
<1>17. Wraps!FlagTruthful'
      BY <1>7, <1>9 DEF Wraps!FlagTruthful
<1> QED
    BY <1>12, <1>13, <1>14, <1>15, <1>16, <1>17 DEF WrapsInv

LEMMA AdaptWraps ==
    ASSUME Wraps!WrappingAssumption, WrapsInv, NEW a \in Adapters, Wraps!Adapt(a)
    PROVE  WrapsInv'
<1>1. PICK some \in (SUBSET Wraps!Fields) \ {{}} :
        /\ before' = [before EXCEPT ![a] = [field \in some |-> methods[field]]]
        /\ methods' = [field \in Wraps!Fields |->
                         IF field \in some THEN Append(methods[field], a) ELSE methods[field]]
        /\ installed' = [installed EXCEPT ![a] = [field \in some |-> methods'[field]]]
      BY DEF Wraps!Adapt
<1>2. a \in Wraps!Who /\ a \notin Mounts
      BY DEF Wraps!Who, Wraps!WrappingAssumption
<1>3. \A field \in Wraps!Fields : methods[field] \in Wraps!Stacks
          /\ a \notin Wraps!ToSet(methods[field])
      BY DEF Wraps!Adapt, WrapsInv, Wraps!TypeOK
<1>4. \A field \in Wraps!Fields :
        /\ methods'[field] \in Wraps!Stacks
        /\ field \in some => methods'[field] = Append(methods[field], a)
        /\ \/ Wraps!ToSet(methods'[field]) = Wraps!ToSet(methods[field]) \cup {a}
           \/ Wraps!ToSet(methods'[field]) = Wraps!ToSet(methods[field])
      BY <1>1, <1>2, <1>3, AppendStack, AppendSet
<1>5. methods' \in [Wraps!Fields -> Wraps!Stacks]
      BY <1>1, <1>4
<1>6. \A field \in Wraps!Fields : Wraps!On(field)' = Wraps!On(field)
      BY <1>2, <1>4 DEF Wraps!On
<1>7. Wraps!Reachable' = Wraps!Reachable
      BY <1>6 DEF Wraps!Reachable
<1>8. DOMAIN before = Wraps!Who /\ DOMAIN installed = Wraps!Who
      BY DEF WrapsInv, Found
<1>9. UNCHANGED <<life, flag>>
          /\ covered' = IF Wraps!Reachable # {} THEN covered \cup {a} ELSE covered
      BY DEF Wraps!Adapt
<1>10. Wraps!TypeOK'
  <2>1. \A w \in Wraps!Who : DOMAIN before'[w] \subseteq Wraps!Fields
            /\ DOMAIN installed'[w] \subseteq Wraps!Fields
        BY <1>1, <1>8 DEF WrapsInv, Wraps!TypeOK
  <2> QED
      BY <1>5, <1>9, <2>1 DEF WrapsInv, Wraps!TypeOK
<1>11. Found'
  <2>1. Left(a, some)'
        BY <1>1, <1>2, <1>3, <1>4, <1>8 DEF Left
  <2>2. ASSUME NEW w \in Wraps!Who, w # a
        PROVE  \/ before'[w] = Wraps!Nothing /\ installed'[w] = Wraps!Nothing
               \/ \E any \in (SUBSET Wraps!Fields) \ {{}} : Left(w, any)'
    <3>1. before'[w] = before[w] /\ installed'[w] = installed[w]
          BY <1>1, <1>8, <2>2
    <3> QED
        BY <3>1 DEF WrapsInv, Found, Left
  <2> QED
      BY <1>1, <1>8, <2>1, <2>2 DEF Found
<1>12. \A m \in Mounts : installed'[m] = installed[m]
      BY <1>1, <1>2, <1>8 DEF Wraps!Who
<1>13. StillThere'
      BY <1>6, <1>9, <1>12 DEF WrapsInv, StillThere
<1>14. OneMount'
      BY <1>6 DEF WrapsInv, OneMount
<1>15. Uncovered'
      BY <1>7, <1>9 DEF Uncovered
<1>16. Wraps!FlagTruthful'
      BY <1>7, <1>9 DEF WrapsInv, Wraps!FlagTruthful
<1> QED
    BY <1>10, <1>11, <1>13, <1>14, <1>15, <1>16 DEF WrapsInv

(* Restoring leaves stacks, and what others found and left.                *)
LEMMA RestoreFound ==
    ASSUME WrapsInv, NEW w \in Wraps!Who, methods' = Wraps!Restored(w),
           installed' = [installed EXCEPT ![w] = Wraps!Nothing],
           before' = [before EXCEPT ![w] = Wraps!Nothing]
    PROVE  /\ methods' \in [Wraps!Fields -> Wraps!Stacks] /\ Found'
           /\ \A v \in Wraps!Who : DOMAIN before'[v] \subseteq Wraps!Fields
                   /\ DOMAIN installed'[v] \subseteq Wraps!Fields
           /\ \A v \in Wraps!Who \ {w} : installed'[v] = installed[v]
           /\ installed'[w] = Wraps!Nothing
<1>1. methods' \in [Wraps!Fields -> Wraps!Stacks]
  <2>1. \A field \in Wraps!Fields : Wraps!Restored(w)[field] \in Wraps!Stacks
        BY RestoredShape
  <2>2. Wraps!Restored(w) = [field \in Wraps!Fields |-> Wraps!Restored(w)[field]]
        BY DEF Wraps!Restored
  <2> QED
      BY <2>1, <2>2
<1>2. DOMAIN before = Wraps!Who /\ DOMAIN installed = Wraps!Who
      BY DEF WrapsInv, Found
<1>3. before'[w] = Wraps!Nothing /\ installed'[w] = Wraps!Nothing
      BY <1>2
<1>4. \A v \in Wraps!Who \ {w} : before'[v] = before[v] /\ installed'[v] = installed[v]
      BY <1>2
<1>5. Found'
  <2>1. ASSUME NEW v \in Wraps!Who, v # w
        PROVE  \/ before'[v] = Wraps!Nothing /\ installed'[v] = Wraps!Nothing
               \/ \E some \in (SUBSET Wraps!Fields) \ {{}} : Left(v, some)'
        BY <1>4, <2>1 DEF WrapsInv, Found, Left
  <2> QED
      BY <1>2, <1>3, <2>1 DEF Found
<1>6. \A v \in Wraps!Who : DOMAIN before'[v] \subseteq Wraps!Fields
          /\ DOMAIN installed'[v] \subseteq Wraps!Fields
      BY <1>3, <1>4 DEF WrapsInv, Wraps!TypeOK, Wraps!Nothing
<1> QED
    BY <1>1, <1>3, <1>4, <1>5, <1>6

LEMMA UndoWraps ==
    ASSUME Wraps!WrappingAssumption, WrapsInv, NEW a \in Adapters, Wraps!Undo(a)
    PROVE  WrapsInv'
<1>1. a \in Wraps!Who /\ a \notin Mounts
      BY DEF Wraps!Who, Wraps!WrappingAssumption
<1>2. /\ methods' = Wraps!Restored(a) /\ installed' = [installed EXCEPT ![a] = Wraps!Nothing]
      /\ before' = [before EXCEPT ![a] = Wraps!Nothing] /\ UNCHANGED <<life, flag, covered>>
      BY DEF Wraps!Undo
<1>3. /\ methods' \in [Wraps!Fields -> Wraps!Stacks] /\ Found'
      /\ \A v \in Wraps!Who : DOMAIN before'[v] \subseteq Wraps!Fields
              /\ DOMAIN installed'[v] \subseteq Wraps!Fields
      /\ \A v \in Wraps!Who \ {a} : installed'[v] = installed[v]
      BY <1>1, <1>2, RestoreFound
<1>4. Wraps!TypeOK'
      BY <1>2, <1>3 DEF WrapsInv, Wraps!TypeOK
<1>5. \A field \in Wraps!Fields : Wraps!On(field)' = Wraps!On(field)
  <2> SUFFICES ASSUME NEW field \in Wraps!Fields
               PROVE  Wraps!ToSet(methods'[field]) \cap Mounts =
                        Wraps!ToSet(methods[field]) \cap Mounts
      BY DEF Wraps!On
  <2>1. \/ methods'[field] = methods[field]
        \/ Wraps!ToSet(methods[field]) = Wraps!ToSet(methods'[field]) \cup {a}
        BY <1>1, <1>2, RestoredShape
  <2> QED
      BY <1>1, <2>1
<1>6. Wraps!Reachable' = Wraps!Reachable
      BY <1>5 DEF Wraps!Reachable
<1>7. \A m \in Mounts : installed'[m] = installed[m]
      BY <1>1, <1>3 DEF Wraps!Who
<1>8. StillThere'
      BY <1>2, <1>5, <1>7 DEF WrapsInv, StillThere
<1>9. OneMount'
      BY <1>5 DEF WrapsInv, OneMount
<1>10. Wraps!FlagTruthful'
      BY <1>2, <1>6 DEF WrapsInv, Wraps!FlagTruthful
<1>11. Uncovered'
  <2> SUFFICES ASSUME covered = {}, NEW m \in Wraps!Reachable PROVE installed'[m] = methods'
      BY <1>2, <1>6 DEF Uncovered
  <2>1. m \in Mounts /\ m \in Wraps!Who /\ installed[m] = methods
        BY DEF WrapsInv, Uncovered, Wraps!Reachable, Wraps!On, Wraps!Who
  <2>2. methods \in [Wraps!Fields -> Wraps!Stacks] /\ DOMAIN methods # {}
        BY DEF WrapsInv, Wraps!TypeOK, Wraps!Fields
  <2>3. PICK some \in (SUBSET Wraps!Fields) \ {{}} : Left(m, some)
        BY <2>1, <2>2, NothingLeft DEF WrapsInv, Found
  <2>4. ASSUME NEW field \in Wraps!Fields PROVE methods'[field] = methods[field]
    <3>1. before[m][field] \in Wraps!Stacks /\ methods[field] = Append(before[m][field], m)
          BY <2>1, <2>3 DEF Left
    <3>2. methods'[field] \in Wraps!Stacks
          BY <1>3
    <3>3. methods[field] # Append(methods'[field], a)
          BY <1>1, <2>1, <3>1, <3>2, AppendTop
    <3> QED
        BY <1>1, <1>2, <3>3, RestoredShape
  <2>5. methods' = methods
        BY <1>3, <2>2, <2>4
  <2> QED
      BY <1>7, <2>1, <2>5
<1> QED
    BY <1>3, <1>4, <1>8, <1>9, <1>10, <1>11 DEF WrapsInv

(* The cleanup of a mount that finds both its wrappers in place leaves no  *)
(* mount; one that finds a method wrapped over leaves itself below.        *)
LEMMA CleanupWraps ==
    ASSUME Wraps!WrappingAssumption, WrapsInv, NEW m \in Mounts, Wraps!Cleanup(m)
    PROVE  WrapsInv'
<1>1. m \in Wraps!Who /\ "complete" \in Wraps!Fields
      BY DEF Wraps!Who, Wraps!Fields
<1>2. /\ methods' = Wraps!Restored(m) /\ installed' = [installed EXCEPT ![m] = Wraps!Nothing]
      /\ before' = [before EXCEPT ![m] = Wraps!Nothing] /\ life' = [life EXCEPT ![m] = "gone"]
      /\ flag' = (IF installed[m] # Wraps!Nothing /\ methods = installed[m] THEN FALSE ELSE flag)
      /\ covered' = covered
      BY DEF Wraps!Cleanup
<1>3. /\ methods' \in [Wraps!Fields -> Wraps!Stacks] /\ Found'
      /\ \A v \in Wraps!Who : DOMAIN before'[v] \subseteq Wraps!Fields
              /\ DOMAIN installed'[v] \subseteq Wraps!Fields
      /\ \A v \in Wraps!Who \ {m} : installed'[v] = installed[v]
      /\ installed'[m] = Wraps!Nothing
      BY <1>1, <1>2, RestoreFound
<1>4. flag' \in BOOLEAN
  <2>1. flag \in BOOLEAN
        BY DEF WrapsInv, Wraps!TypeOK
  <2> QED
      BY <1>2, <2>1, Zenon
<1>5. Wraps!TypeOK'
      BY <1>2, <1>3, <1>4 DEF WrapsInv, Wraps!TypeOK
<1>6. \A field \in Wraps!Fields :
        \/ methods'[field] = methods[field]
           /\ ~(field \in DOMAIN installed[m] /\ methods[field] = installed[m][field])
        \/ /\ installed[m] # Wraps!Nothing
           /\ Wraps!ToSet(methods[field]) = Wraps!ToSet(methods'[field]) \cup {m}
                   /\ m \notin Wraps!ToSet(methods'[field])
      BY <1>1, <1>2, RestoredShape
<1>7. \A field \in Wraps!Fields : Wraps!On(field)' \subseteq Wraps!On(field)
          /\ Wraps!On(field) \subseteq Wraps!On(field)' \cup {m}
      BY <1>6 DEF Wraps!On
<1>8. OneMount'
      BY <1>7 DEF WrapsInv, OneMount
<1>9. StillThere'
  <2> SUFFICES ASSUME NEW n \in Mounts, installed'[n] # Wraps!Nothing
               PROVE  life'[n] = "on" /\ \A field \in Wraps!Fields : n \in Wraps!On(field)'
      BY DEF StillThere
  <2>1. n # m /\ installed[n] # Wraps!Nothing
        BY <1>3 DEF Wraps!Who
  <2>2. life[n] = "on" /\ \A field \in Wraps!Fields : n \in Wraps!On(field)
        BY <2>1 DEF WrapsInv, StillThere
  <2>3. life'[n] = life[n]
        BY <1>2, <2>1 DEF WrapsInv, Wraps!TypeOK
  <2> QED
      BY <1>7, <2>1, <2>2, <2>3
<1>10. ASSUME installed[m] # Wraps!Nothing, methods = installed[m] PROVE Wraps!Reachable' = {}
  <2>1. ASSUME NEW field \in Wraps!Fields PROVE Wraps!On(field)' = {}
    <3>1. field \in DOMAIN installed[m] /\ methods[field] = installed[m][field]
          BY <1>10 DEF WrapsInv, Wraps!TypeOK
    <3>2. m \notin Wraps!On(field)'
          BY <1>6, <3>1 DEF Wraps!On
    <3>3. m \in Wraps!On(field)
          BY <1>10 DEF WrapsInv, StillThere
    <3> QED
        BY <1>7, <3>2, <3>3 DEF WrapsInv, OneMount
  <2> QED
      BY <2>1 DEF Wraps!Reachable
<1>11. ASSUME installed[m] # Wraps!Nothing, methods # installed[m]
       PROVE  Wraps!Reachable # {} /\ Wraps!Reachable' # {}
  <2>1. PICK some \in (SUBSET Wraps!Fields) \ {{}} : Left(m, some)
        BY <1>1, <1>11 DEF WrapsInv, Found
  <2>2. some = Wraps!Fields
            /\ installed[m] = [field \in Wraps!Fields |-> Append(before[m][field], m)]
        BY <2>1 DEF Left
  <2>3. methods \in [Wraps!Fields -> Wraps!Stacks]
        BY DEF WrapsInv, Wraps!TypeOK
  <2>4. PICK field \in Wraps!Fields : methods[field] # installed[m][field]
        BY <1>11, <2>2, <2>3
  <2>5. m \in Wraps!On(field)
        BY <1>11 DEF WrapsInv, StillThere
  <2>6. methods'[field] = methods[field]
        BY <1>1, <1>2, <2>4, RestoredShape
  <2> QED
      BY <2>5, <2>6 DEF Wraps!Reachable, Wraps!On
<1>12. ASSUME installed[m] = Wraps!Nothing
       PROVE  Wraps!Reachable' = Wraps!Reachable /\ methods' = methods
               /\ \A n \in Mounts : installed'[n] = installed[n]
  <2>1. \A field \in Wraps!Fields : methods'[field] = methods[field]
        BY <1>6, <1>12
  <2>2. methods' = methods
        BY <1>3, <2>1 DEF WrapsInv, Wraps!TypeOK
  <2>3. \A n \in Mounts : installed'[n] = installed[n]
        BY <1>3, <1>12 DEF Wraps!Who
  <2> QED
      BY <2>2, <2>3 DEF Wraps!Reachable, Wraps!On
<1>13. Wraps!FlagTruthful'
      BY <1>2, <1>10, <1>11, <1>12 DEF WrapsInv, Wraps!FlagTruthful
<1>14. Uncovered'
  <2> SUFFICES ASSUME covered = {}, NEW n \in Wraps!Reachable' PROVE installed'[n] = methods'
      BY <1>2 DEF Uncovered
  <2>1. CASE installed[m] = Wraps!Nothing
        BY <1>12, <2>1 DEF WrapsInv, Uncovered, Wraps!Reachable, Wraps!On
  <2>2. CASE installed[m] # Wraps!Nothing
    <3>1. m \in Wraps!Reachable
          BY <1>1, <2>2 DEF WrapsInv, StillThere, Wraps!Reachable
    <3>2. installed[m] = methods
          BY <3>1 DEF WrapsInv, Uncovered
    <3> QED
        BY <1>10, <2>2, <3>2
  <2> QED
      BY <2>1, <2>2
<1> QED
    BY <1>3, <1>5, <1>8, <1>9, <1>13, <1>14 DEF WrapsInv

LEMMA NextWraps == ASSUME Wraps!WrappingAssumption
                   PROVE  WrapsInv /\ [Wraps!Next]_(Wraps!vars) => WrapsInv'
<1> SUFFICES ASSUME WrapsInv, [Wraps!Next]_(Wraps!vars) PROVE WrapsInv'
    OBVIOUS
<1>1. ASSUME NEW m \in Mounts, Wraps!Mount(m) \/ Wraps!Wrap(m) \/ Wraps!Cleanup(m) PROVE WrapsInv'
      BY <1>1, MountWraps, WrapWraps, CleanupWraps
<1>2. ASSUME NEW a \in Adapters, Wraps!Adapt(a) \/ Wraps!Undo(a) PROVE WrapsInv'
      BY <1>2, AdaptWraps, UndoWraps
<1>3. CASE UNCHANGED Wraps!vars
      BY <1>3
         DEF Wraps!vars, WrapsInv, Wraps!TypeOK, Found, Left, StillThere, OneMount, Uncovered,
             Wraps!FlagTruthful,
                  Wraps!Reachable, Wraps!On
<1> QED
    BY <1>1, <1>2, <1>3 DEF Wraps!Next

LEMMA WrapsInvShared ==
    ASSUME WrapsInv
    PROVE  Wraps!TypeOK /\ Wraps!OneProjection /\ Wraps!FlagTruthful /\ Wraps!LeftAsFound
<1>1. Wraps!OneProjection
  <2> SUFFICES ASSUME NEW field \in Wraps!Fields PROVE Cardinality(Wraps!On(field)) <= 1
      BY WrapSets DEF Wraps!OneProjection
  <2>1. CASE Wraps!On(field) = {}
        BY <2>1, FS_EmptySet
  <2>2. CASE Wraps!On(field) # {}
    <3>1. PICK m \in Wraps!On(field) : TRUE
          BY <2>2
    <3>2. Wraps!On(field) = {m}
          BY DEF WrapsInv, OneMount
    <3>3. Cardinality({m}) = 1
          BY FS_Singleton
    <3> QED
        BY <3>2, <3>3
  <2> QED
      BY <2>1, <2>2
<1>2. Wraps!LeftAsFound
  <2> SUFFICES ASSUME \A m \in Mounts : life[m] # "on", covered = {}, NEW m \in Wraps!Reachable
               PROVE  FALSE
      BY DEF Wraps!LeftAsFound, WrapsInv, Wraps!FlagTruthful
  <2>1. m \in Mounts /\ installed[m] = methods
        BY DEF WrapsInv, Uncovered, Wraps!Reachable, Wraps!On
  <2>2. methods # Wraps!Nothing
        BY NothingLeft DEF WrapsInv, Wraps!TypeOK, Wraps!Fields
  <2> QED
      BY <2>1, <2>2 DEF WrapsInv, StillThere
<1> QED
    BY <1>1, <1>2 DEF WrapsInv

LEMMA CleanupKeepsAdapters ==
    ASSUME Wraps!WrappingAssumption, WrapsInv, NEW m \in Mounts,
           Wraps!Cleanup(m), NEW field \in Wraps!Fields
    PROVE  Wraps!ToSet(methods[field]) \cap Adapters = Wraps!ToSet(methods'[field]) \cap Adapters
<1>1. m \in Wraps!Who /\ m \notin Adapters /\ methods' = Wraps!Restored(m)
      BY DEF Wraps!Who, Wraps!WrappingAssumption, Wraps!Cleanup
<1>2. \/ methods'[field] = methods[field]
      \/ Wraps!ToSet(methods[field]) = Wraps!ToSet(methods'[field]) \cup {m}
      BY <1>1, RestoredShape
<1> QED
    BY <1>1, <1>2

(* Mounts and adapters that wrap and restore in any order: a request is    *)
(* projected once at most, the flag is true, no cleanup takes an adapter   *)
(* off, and nothing is left when the mounts go and nobody wrapped over one.*)
THEOREM ProviderIsShared == Wraps!Spec => ProviderShared
<1>1. Wraps!Init => WrapsInv
      BY WrapsAssumed, InitWraps
<1>2. WrapsInv /\ [Wraps!Next]_(Wraps!vars) => WrapsInv'
      BY WrapsAssumed, NextWraps
<1>3. Wraps!Spec => []WrapsInv
      BY <1>1, <1>2, PTL DEF Wraps!Spec
<1>4. WrapsInv /\ [Wraps!Next]_(Wraps!vars) =>
        [\A m \in Mounts : Wraps!Cleanup(m) =>
           \A field \in Wraps!Fields :
             Wraps!ToSet(methods[field]) \cap Adapters =
               Wraps!ToSet(methods'[field]) \cap Adapters]_(Wraps!vars)
      BY WrapsAssumed, CleanupKeepsAdapters
<1>5. Wraps!Spec => Wraps!AdaptersKept
      BY <1>3, <1>4, PTL DEF Wraps!Spec, Wraps!AdaptersKept
<1>6. Wraps!Spec => [](Wraps!TypeOK /\ Wraps!OneProjection
          /\ Wraps!FlagTruthful /\ Wraps!LeftAsFound)
      BY <1>3, WrapsInvShared, PTL
<1> QED
    BY <1>5, <1>6 DEF ProviderShared, Wraps!ProviderShared
=============================================================================
