-------------------------------- MODULE MacCapture --------------------------------
(***************************************************************************)
(* MacOSBackend.capture: the system's own capture call first, and, once    *)
(* that has been seen to fail or to crawl, a child process per display     *)
(* with a private file each.  Meanwhile the screen may lock and displays   *)
(* may be rearranged; every look at either is a step of its own.           *)
(***************************************************************************)
EXTENDS Naturals, Sequences, FiniteSets, SequencesExt

CONSTANTS
    Displays,
    MaxCaptures,   \* bound: captures, one after the other
    MaxChanges     \* bound: changes of the displays' layout

CaptureAssumption ==
    /\ IsFiniteSet(Displays) /\ Displays # {}
    /\ MaxCaptures \in Nat /\ MaxChanges \in Nat

\* A layout: the active displays in the system's order, main first, and a
\* version of each one's geometry.
Layouts == [ids : SetToSeqs(Displays) \cup {<<d>> : d \in Displays}, geo : [Displays -> 0 .. MaxChanges]]

VARIABLES
    locked,      \* the session is locked
    layout,      \* the displays as they are
    past,        \* history: the orders of the active displays so far
    degraded,    \* _native_capture_degraded
    pathological,\* history: native calls that failed or took too long
    pc,          \* where the capture is
    kind,        \* "whole" desktop or "one" display
    plan,        \* the layout the capture works from: active ids, expected geometry
    late,        \* its budget is used up
    next,        \* the ordinal of the display being captured by a child
    temp,        \* its private directory exists
    shot,        \* what the child has written: at most one picture
    pieces,      \* the pictures accepted so far
    refused,     \* history: a guard has refused in this capture
    left,        \* history: a private file was left behind by this capture
    result,      \* "none", "native", "utility", "error"
    captures

env == <<locked, layout, past>>
native == <<degraded, pathological>>
child == <<next, temp, shot, pieces>>
verdict == <<refused, left, result>>
vars == <<env, native, pc, kind, plan, late, child, verdict, captures>>

Init ==
    /\ locked \in BOOLEAN
    /\ layout \in {l \in Layouts : \A d \in Displays : l.geo[d] = 0} /\ past = {layout.ids}
    /\ degraded = FALSE /\ pathological = 0
    /\ pc = "idle" /\ kind = "whole" /\ plan = layout /\ late = FALSE
    /\ next = 1 /\ temp = FALSE /\ shot = <<>> /\ pieces = <<>>
    /\ refused = FALSE /\ left = FALSE /\ result = "none" /\ captures = 0

\* A picture: the display, its geometry, and whether the screen was locked.
Picture(d) == [display |-> d, geo |-> layout.geo[d], locked |-> locked]
Finish(how) == pc' = "idle" /\ result' = how

-----------------------------------------------------------------------------
(* The screen.  A human who locks it does not unlock it within the capture, *)
(* and an order or a geometry that is gone does not come back.              *)

Lock == ~locked /\ locked' = TRUE /\ UNCHANGED <<layout, past, native, pc, kind, plan, late, child, verdict, captures>>

Unlock ==
    /\ locked /\ pc = "idle" /\ locked' = FALSE
    /\ UNCHANGED <<layout, past, native, pc, kind, plan, late, child, verdict, captures>>

Rearrange ==
    /\ \/ /\ Cardinality(past) <= MaxChanges
          /\ layout' \in {l \in Layouts : l.geo = layout.geo /\ l.ids \notin past}
       \/ \E d \in Displays : layout.geo[d] < MaxChanges /\ layout' = [layout EXCEPT !.geo[d] = @ + 1]
    /\ past' = past \cup {layout'.ids}
    /\ UNCHANGED <<locked, native, pc, kind, plan, late, child, verdict, captures>>

Tick ==
    /\ pc # "idle" /\ ~late /\ late' = TRUE
    /\ UNCHANGED <<env, native, pc, kind, plan, child, verdict, captures>>

-----------------------------------------------------------------------------
(* The entry, and the native calls. *)

\* The session is read first, then the active displays and the target's monitor.
Begin ==
    /\ pc = "idle" /\ captures < MaxCaptures /\ captures' = captures + 1
    /\ late' = FALSE /\ left' = FALSE /\ pieces' = <<>>
    /\ plan' = layout
    /\ refused' = locked
    /\ \/ kind' = "whole" /\ Len(layout.ids) > 1 /\ next' = 1
       \/ kind' = "one" /\ next' \in DOMAIN layout.ids
    /\ IF locked THEN Finish("error")
       ELSE /\ pc' = CASE kind' = "one" -> IF degraded THEN "utility" ELSE "native"
                       [] OTHER -> IF degraded THEN "again" ELSE "probe"
            /\ result' = "none"
    /\ UNCHANGED <<env, native, temp, shot>>

\* Mutant: only a call that fails counts, however long it takes.
LearnsFailure(outcome) == outcome = "nothing"

\* _call_native: no image, or one that took too long.
Learns(outcome) == outcome \in {"nothing", "slow"}

Called(outcome) ==
    /\ degraded' = (degraded \/ Learns(outcome))
    /\ pathological' = pathological + (IF outcome \in {"nothing", "slow"} THEN 1 ELSE 0)

\* _learn_native_capture_health asks the cheap call; one that raises teaches nothing.
Probe ==
    /\ pc = "probe"
    /\ \E outcome \in {"fast", "slow", "nothing", "raised"} : Called(outcome)
    /\ pc' = IF degraded' THEN "again" ELSE "check"
    /\ UNCHANGED <<env, kind, plan, late, child, verdict, captures>>

\* The session is read again after the probe, and before compositing.
Recheck ==
    /\ pc \in {"check", "again"}
    /\ IF locked
       THEN Finish("error") /\ refused' = TRUE
       ELSE pc' = (IF pc = "check" THEN "native" ELSE "setup") /\ UNCHANGED <<refused, result>>
    /\ UNCHANGED <<env, native, kind, plan, late, child, left, captures>>

\* The capture itself: an image is used however late it comes; cropping or
\* encoding it may fail.
Native ==
    /\ pc = "native"
    /\ \E outcome \in {"fast", "slow", "nothing"} :
         /\ Called(outcome)
         /\ IF outcome = "nothing"
            THEN pc' = (IF kind = "whole" THEN "again" ELSE "utility") /\ UNCHANGED <<pieces, result>>
            ELSE /\ \E how \in {"native", "error"} : Finish(how)
                 /\ pieces' = IF kind = "one" THEN <<Picture(plan.ids[next])>>
                              ELSE [i \in DOMAIN layout.ids |-> Picture(layout.ids[i])]
    /\ UNCHANGED <<env, kind, plan, late, next, temp, shot, refused, left, captures>>

\* Without the utility the failure of the native call is the answer.
NoUtility ==
    /\ pc = "utility" /\ Finish("error")
    /\ UNCHANGED <<env, native, kind, plan, late, child, refused, left, captures>>

Utility ==
    /\ pc = "utility" /\ pc' = "storage"
    /\ UNCHANGED <<env, native, kind, plan, late, child, verdict, captures>>

\* Phase 1 of the compositor: the geometry the canvas is made from.
Setup ==
    /\ pc = "setup"
    /\ IF ToSet(plan.ids) \subseteq ToSet(layout.ids)
       THEN \/ plan' = [plan EXCEPT !.geo = layout.geo] /\ pc' = "storage" /\ UNCHANGED result
            \/ Finish("error") /\ UNCHANGED plan
       ELSE Finish("error") /\ UNCHANGED plan
    /\ UNCHANGED <<env, native, kind, late, child, refused, left, captures>>

-----------------------------------------------------------------------------
(* _screencapture_guarded, for the display of ordinal `next'. *)

\* Mutant: a directory that cannot be removed is only logged.
CleanSwallows(ok) ==
    /\ temp' = FALSE /\ shot' = <<>>
    /\ \E cleaned \in BOOLEAN :
         /\ left' = (left \/ ~cleaned)
         /\ IF ok THEN UNCHANGED <<pc, result>> ELSE Finish("error")

\* The finally clause: a directory that cannot be removed is an error too.
Clean(ok) ==
    /\ temp' = FALSE /\ shot' = <<>>
    /\ \E cleaned \in BOOLEAN :
         /\ left' = (left \/ ~cleaned)
         /\ IF ok /\ cleaned THEN UNCHANGED <<pc, result>> ELSE Finish("error")

\* The permission is asked afresh; then a private directory and file.
Storage ==
    /\ pc = "storage"
    /\ \/ temp' = TRUE /\ pc' = "before" /\ UNCHANGED <<refused, result>>
       \/ Finish("error") /\ refused' = TRUE /\ UNCHANGED temp
    /\ UNCHANGED <<env, native, kind, plan, late, next, shot, pieces, left, captures>>

\* Mutant: the display only has to be there still, as it was.
TargetPresent ==
    /\ plan.ids[next] \in ToSet(layout.ids)
    /\ layout.geo[plan.ids[next]] = plan.geo[plan.ids[next]]

\* _validate_single_display_fallback_target: the active list in its order, and
\* the display's own geometry; for a sole display, that it is the sole and main one.
TargetUnchanged ==
    /\ layout.ids = plan.ids
    /\ layout.geo[plan.ids[next]] = plan.geo[plan.ids[next]]

Before ==
    /\ pc = "before"
    /\ IF TargetUnchanged /\ ~locked /\ ~late
       THEN pc' = "child" /\ UNCHANGED <<temp, shot, left, refused, result>>
       ELSE refused' = TRUE /\ Clean(FALSE)
    /\ UNCHANGED <<env, native, kind, plan, late, next, pieces, captures>>

\* screencapture -D <ordinal>, or -m: whatever display that is by now.  It fails,
\* is timed out, or leaves no picture that can be decoded.
Child ==
    /\ pc = "child"
    /\ \/ /\ next \in DOMAIN layout.ids
          /\ shot' = <<Picture(layout.ids[next])>> /\ pc' = "after"
          /\ UNCHANGED <<temp, left, result>>
       \/ Clean(FALSE)
    /\ UNCHANGED <<env, native, kind, plan, late, next, pieces, refused, captures>>

\* Mutant: the session is read before the child only.
UnlockedBefore == TRUE

\* The session is read once more when the child is done.
UnlockedAfter == ~locked

\* Mutant: a compositor that is refused a picture leaves the desktop to the native call.
AfterElseNative ==
    /\ pc = "after" /\ shot # <<>>
    /\ IF UnlockedAfter /\ TargetUnchanged /\ ~late /\ shot[1].geo = plan.geo[plan.ids[next]]
       THEN Clean(TRUE) /\ pieces' = Append(pieces, shot[1]) /\ UNCHANGED refused
       ELSE refused' = TRUE /\ Finish("native") /\ temp' = FALSE /\ shot' = <<>> /\ UNCHANGED <<left, pieces>>
    /\ UNCHANGED <<env, native, kind, plan, late, next, captures>>

\* The same guards again, the picture's size, and the budget.
After ==
    /\ pc = "after" /\ shot # <<>>
    /\ IF UnlockedAfter /\ TargetUnchanged /\ ~late /\ shot[1].geo = plan.geo[plan.ids[next]]
       THEN Clean(TRUE) /\ pieces' = Append(pieces, shot[1]) /\ UNCHANGED refused
       ELSE refused' = TRUE /\ Clean(FALSE) /\ UNCHANGED pieces
    /\ UNCHANGED <<env, native, kind, plan, late, next, captures>>

\* Mutant: one display too many.
AcceptedOneMore ==
    /\ pc = "after" /\ shot = <<>>
    /\ IF kind = "one" THEN Finish("utility") /\ UNCHANGED next
       ELSE pc' = (IF next <= Len(plan.ids) THEN "storage" ELSE "final")
            /\ next' = next + 1 /\ UNCHANGED result
    /\ UNCHANGED <<env, native, kind, plan, late, temp, shot, pieces, refused, left, captures>>

\* A picture was accepted and its file is gone: the next display, or the end.
Accepted ==
    /\ pc = "after" /\ shot = <<>>
    /\ IF kind = "one" THEN (\E how \in {"utility", "error"} : Finish(how)) /\ UNCHANGED next
       ELSE IF next < Len(plan.ids)
       THEN pc' = "storage" /\ next' = next + 1 /\ UNCHANGED result
       ELSE pc' = "final" /\ UNCHANGED <<next, result>>
    /\ UNCHANGED <<env, native, kind, plan, late, temp, shot, pieces, refused, left, captures>>

\* Mutant: each display was checked around its own child.
FinalTrusts ==
    /\ pc = "final" /\ Finish("utility")
    /\ UNCHANGED <<env, native, kind, plan, late, child, refused, left, captures>>

\* _validate_composite_snapshot.
Final ==
    /\ pc = "final"
    /\ IF layout.ids = plan.ids /\ \A d \in ToSet(plan.ids) : layout.geo[d] = plan.geo[d]
       THEN Finish("utility") /\ UNCHANGED refused
       ELSE Finish("error") /\ refused' = TRUE
    /\ UNCHANGED <<env, native, kind, plan, late, child, left, captures>>

Next ==
    \/ Lock \/ Unlock \/ Rearrange \/ Tick
    \/ Begin \/ Probe \/ Recheck \/ Native \/ NoUtility \/ Utility \/ Setup
    \/ Storage \/ Before \/ Child \/ After \/ Accepted \/ Final

Spec == Init /\ [][Next]_vars

-----------------------------------------------------------------------------
Pictures == [display : Displays, geo : 0 .. MaxChanges, locked : BOOLEAN]

\* Every variable has its type.
TypeOK ==
    /\ locked \in BOOLEAN /\ layout \in Layouts /\ past \subseteq {l.ids : l \in Layouts}
    /\ degraded \in BOOLEAN /\ pathological \in Nat
    /\ pc \in {"idle", "probe", "check", "native", "again", "setup", "utility",
               "storage", "before", "child", "after", "final"}
    /\ kind \in {"whole", "one"} /\ plan \in Layouts /\ late \in BOOLEAN
    /\ next \in 1 .. Cardinality(Displays) /\ temp \in BOOLEAN
    /\ shot \in Seq(Pictures) /\ Len(shot) <= 1
    /\ pieces \in Seq(Pictures) /\ Len(pieces) <= Cardinality(Displays)
    /\ refused \in BOOLEAN /\ left \in BOOLEAN
    /\ result \in {"none", "native", "utility", "error"} /\ captures \in 0 .. MaxCaptures

\* A guard's refusal is the capture's answer, whatever it had already and whatever
\* else it could have tried.
RefusalFinal == refused => result \notin {"native", "utility"}

\* No image is handed back by a capture that left a private file on the disk, and
\* between captures no private directory is held.
NoneLeft == (result = "utility" => ~left) /\ (pc = "idle" => ~temp)

\* A composite, when it is accepted, shows every active display in its place with
\* the geometry it then has: none that moved while another was captured.
CompositeCurrent ==
    [][pc = "final" /\ result' = "utility" =>
         /\ [i \in DOMAIN pieces |-> pieces[i].display] = layout.ids
         /\ \A i \in DOMAIN pieces : pieces[i].geo = layout.geo[pieces[i].display]]_vars

\* The picture of one display by way of a child is of the display that was asked for.
DisplayTrue == result = "utility" /\ kind = "one" => pieces[1].display = plan.ids[next]

\* No image taken by way of a child shows a locked screen.
NoLockedPiece == result = "utility" => \A i \in DOMAIN pieces : ~pieces[i].locked

\* A native call that failed or crawled is the last one of the process.
PaysOnce == pathological <= 1

\* No image shows a locked screen, whichever call it came from.
NoLockedImage == result \in {"native", "utility"} => \A i \in DOMAIN pieces : ~pieces[i].locked

\* No way through the guards: what a capture by way of children hands back was
\* asked for, was not locked, left nothing behind and no guard refused it.
CaptureGuarded ==
    /\ [](TypeOK /\ RefusalFinal /\ NoneLeft /\ DisplayTrue /\ NoLockedPiece /\ PaysOnce)
    /\ CompositeCurrent
=============================================================================
