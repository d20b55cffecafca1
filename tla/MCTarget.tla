--------------------------------- MODULE MCTarget ---------------------------------
(***************************************************************************)
(* Four parts of driving a target machine for TLC: the agents' scratch     *)
(* directories, the sessions that share its desktop, the capture of the    *)
(* macOS backend, and observed control of an X11 desktop.  They share no   *)
(* state, so each behaviour is one of ScratchLease, Band, MacCapture or    *)
(* ObservedControl while the others stay at an initial state.              *)
(***************************************************************************)
EXTENDS ScratchLease, TLC

CONSTANTS NoHandle, Refused, Sessions, Declining,
          Displays, MaxCaptures, MaxChanges,
          Pixels, Calls, Remembered, Keys, MaxRetargets, MaxCancels,
          s1, s2, s3

VARIABLES
    part,
    channel, feared, decision, shown, depth, held, at, said, handle, blind, closed, away,
    overlap, leftover,
    locked, layout, past, degraded, pathological, pc, kind, plan, late, next, temp, shot, pieces,
    refused, left, result, captures,
    screen, changes, binding, holder, worker, observations, place, job, op, base, picture, proof,
    seen, landed, allowed, status, cancels

Bands == INSTANCE Band WITH pc <- at
Capture == INSTANCE MacCapture
Observed == INSTANCE ObservedControl WITH lock <- holder, pc <- place, shot <- picture

ASSUME BandsAssumed == Bands!SessionsAssumption
ASSUME CaptureAssumed == Capture!CaptureAssumption
ASSUME ObservedAssumed == Observed!ObservedAssumption

bands == <<channel, feared, decision, shown, depth, held, at, said, handle, blind, closed, away,
           overlap, leftover>>
capture == <<locked, layout, past, degraded, pathological, pc, kind, plan, late, next, temp,
             shot, pieces, refused, left, result, captures>>
observed == <<screen, changes, binding, holder, worker, observations, place, job, op, base,
              picture, proof, seen, landed, allowed, status, cancels>>
all == <<part, vars, bands, capture, observed>>

\* A part that takes no steps has one initial state.
MCInit ==
    /\ part \in {"lease", "band", "capture", "observed"}
    /\ Init /\ Bands!Init /\ Capture!Init /\ Observed!Init
    /\ part = "band" \/ channel = "overlay"
    /\ part = "capture" \/
         /\ ~locked
         /\ layout = CHOOSE l \in Capture!Layouts : \A d \in Displays : l.geo[d] = 0
    /\ part = "observed" \/ screen = CHOOSE p \in Pixels : TRUE

MCNext ==
    \/ part = "lease" /\ Next /\ UNCHANGED <<part, bands, capture, observed>>
    \/ part = "band" /\ Bands!Next /\ UNCHANGED <<part, vars, capture, observed>>
    \/ part = "capture" /\ Capture!Next /\ UNCHANGED <<part, vars, bands, observed>>
    \/ part = "observed" /\ Observed!Next /\ UNCHANGED <<part, vars, bands, capture>>

MCSpec == MCInit /\ [][MCNext]_all

\* The properties of the other parts, under their own names.
Disclosed == Bands!Disclosed
CaptureGuarded == Capture!CaptureGuarded
ObservedSafe == Observed!ObservedSafe

\* The sessions that disclose are interchangeable, and so are the observed calls.
Symmetric == Permutations(Sessions \ Declining) \cup Permutations(Calls)
=============================================================================
