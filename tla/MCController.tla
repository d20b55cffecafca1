------------------------------ MODULE MCController ------------------------------
(***************************************************************************)
(* Four parts of a controller process for TLC: the custody of its backend, *)
(* the window process of its Windows band, and the two parts of the hook.  *)
(* They share no state, so each behaviour is one of Mount, OverlayProcess, *)
(* Screenshots or Wrapping while the others stay at an initial state.      *)
(***************************************************************************)
EXTENDS Mount

CONSTANTS Handles, MaxLaunches, MaxClicks,
          Results, Ids, MaxInline, Capacity, MaxMessages,
          Mounts, Adapters, HasBudget,
          b0, b1, b2, core, other

VARIABLES
    part,
    host, at, shown, proc, rects, asked, stop, seen, heard, owner, win, pipe, poll, slice, file,
    clicks,
    id, step, dir, shot, issued, records, replaced, history, inlined,
    life, methods, flag, before, installed, covered

Overlay == INSTANCE OverlayProcess
Shots == INSTANCE Screenshots WITH file <- shot
Wraps == INSTANCE Wrapping

ASSUME OverlayAssumed == Overlay!OverlayAssumption
ASSUME ShotsAssumed == Shots!ScreenshotsAssumption
ASSUME WrapsAssumed == Wraps!WrappingAssumption

overlay == <<host, at, shown, proc, rects, asked, stop, seen, heard, owner, win, pipe, poll,
             slice, file, clicks>>
shots == <<id, step, dir, shot, issued, records, replaced, history, inlined>>
wraps == <<life, methods, flag, before, installed, covered>>
all == <<part, vars, overlay, shots, wraps>>

\* A part that takes no steps has one initial state.
MCInit ==
    /\ part \in {"mount", "overlay", "shots", "wraps"}
    /\ Init /\ Overlay!Init /\ Shots!Init /\ Wraps!Init
    /\ part = "shots" \/ id = [r \in Results |-> CHOOSE i \in Ids : TRUE]

MCNext ==
    \/ part = "mount" /\ Next /\ UNCHANGED <<part, overlay, shots, wraps>>
    \/ part = "overlay" /\ Overlay!Next /\ UNCHANGED <<part, vars, shots, wraps>>
    \/ part = "shots" /\ Shots!Next /\ UNCHANGED <<part, vars, overlay, wraps>>
    \/ part = "wraps" /\ Wraps!Next /\ UNCHANGED <<part, vars, overlay, shots>>

MCSpec == MCInit /\ [][MCNext]_all /\ Fairness /\ Overlay!Fairness

\* The properties of the other parts, under their own names.
BandAccounted == Overlay!BandAccounted
BandsEnd == Overlay!BandsEnd
PicturesTrue == Shots!PicturesTrue
ProviderShared == Wraps!ProviderShared
=============================================================================
