------------------------------ MODULE OverlayProcess ------------------------------
(***************************************************************************)
(* The Windows disclosure band: a window in a process of its own, started  *)
(* over the WSL boundary, that lives while the pipe to its standard input  *)
(* is open and reports its buttons in a file.  The file has one name for   *)
(* the whole machine, and each process that starts deletes it.             *)
(***************************************************************************)
EXTENDS Naturals, Sequences, SequencesExt

CONSTANTS
    Handles,       \* WindowsOverlay objects, each in a process of its own
    MaxLaunches,   \* bound: window processes started
    MaxClicks,     \* bound: clicks on the buttons
    None

OverlayAssumption ==
    /\ MaxLaunches \in Nat \ {0} /\ MaxClicks \in Nat
    /\ None \notin Handles

Launches == 1 .. MaxLaunches

VARIABLES
    host,     \* whether the handle's process lives
    at,       \* where its show or hide is: "idle", "waiting", "stopping"
    shown,    \* _shown
    proc,     \* _proc and _pid; the launch under way while `at' is "waiting"; 0 for none
    rects,    \* the buttons' rectangles are registered as excluded
    asked,    \* history: the windows that a Stop-Process returned for
    stop,     \* the stop event of the poll threads
    seen,     \* _events_seen
    owner,    \* who started each window process
    win,      \* each window process: "no", "starting", "cleared", "up", "gone"
    pipe,     \* its standard input is open
    poll,     \* the poll thread started for it: "no", "on", "gone"
    slice,    \* the lines that thread has read and not yet handled
    file,     \* the events file
    heard,    \* history: the clicks each handle has acted on
    clicks    \* how many clicks there were

handle == <<host, at, shown, proc, rects, asked>>
reader == <<stop, seen, poll, slice, heard>>
window == <<owner, win, pipe>>
vars == <<handle, reader, window, file, clicks>>

Init ==
    /\ host = [h \in Handles |-> TRUE] /\ at = [h \in Handles |-> "idle"]
    /\ shown = [h \in Handles |-> FALSE] /\ proc = [h \in Handles |-> 0]
    /\ rects = [h \in Handles |-> FALSE] /\ stop = [h \in Handles |-> FALSE]
    /\ seen = [h \in Handles |-> 0] /\ heard = [h \in Handles |-> {}]
    /\ owner = [l \in Launches |-> None] /\ win = [l \in Launches |-> "no"]
    /\ pipe = [l \in Launches |-> FALSE]
    /\ poll = [l \in Launches |-> "no"] /\ slice = [l \in Launches |-> <<>>]
    /\ file = <<>> /\ clicks = 0 /\ asked = {}

Line(what, l, n) == [event |-> what, by |-> l, n |-> n]
Running(l) == win[l] \in {"starting", "cleared", "up"}
Unused(l) == win[l] = "no" /\ \A k \in 1 .. (l - 1) : win[k] # "no"

-----------------------------------------------------------------------------
(* show *)

\* Mutant: the rectangles are registered once the window is up, or never.
ShowBare(h) ==
    /\ host[h] /\ at[h] = "idle" /\ ~shown[h]
    /\ \E l \in Launches :
         /\ Unused(l)
         /\ win' = [win EXCEPT ![l] = "starting"] /\ pipe' = [pipe EXCEPT ![l] = TRUE]
         /\ owner' = [owner EXCEPT ![l] = h] /\ proc' = [proc EXCEPT ![h] = l]
         /\ at' = [at EXCEPT ![h] = "waiting"]
    /\ UNCHANGED <<host, shown, rects, asked, reader, file, clicks>>

\* The rectangles are registered before the launch; a launch that cannot even
\* start takes them back and changes nothing.
Show(h) ==
    /\ host[h] /\ at[h] = "idle" /\ ~shown[h]
    /\ \E l \in Launches :
         /\ Unused(l)
         /\ win' = [win EXCEPT ![l] = "starting"] /\ pipe' = [pipe EXCEPT ![l] = TRUE]
         /\ owner' = [owner EXCEPT ![l] = h] /\ proc' = [proc EXCEPT ![h] = l]
         /\ at' = [at EXCEPT ![h] = "waiting"] /\ rects' = [rects EXCEPT ![h] = TRUE]
    /\ UNCHANGED <<host, shown, asked, reader, file, clicks>>

\* _wait_for_ready reads this launch's token: the band counts as shown, and a
\* thread tails the file from wherever the last one stopped.
Ready(h) ==
    /\ host[h] /\ at[h] = "waiting"
    /\ \E i \in DOMAIN file : file[i].event = "ready" /\ file[i].by = proc[h]
    /\ at' = [at EXCEPT ![h] = "idle"] /\ shown' = [shown EXCEPT ![h] = TRUE]
    /\ stop' = [stop EXCEPT ![h] = FALSE]
    /\ poll' = [poll EXCEPT ![proc[h]] = "on"]
    /\ UNCHANGED <<host, proc, rects, asked, seen, slice, heard, window, file, clicks>>

\* Mutant: a launch that never got ready is abandoned with its pipe.
GiveUpOnly(h) ==
    /\ host[h] /\ at[h] = "waiting"
    /\ at' = [at EXCEPT ![h] = "idle"] /\ proc' = [proc EXCEPT ![h] = 0]
    /\ rects' = [rects EXCEPT ![h] = FALSE]
    /\ UNCHANGED <<host, shown, asked, reader, window, file, clicks>>

\* The process ended early or the time is up.  What is killed is the local end
\* of the launch: the Windows process may outlive it until it reads its input.
GiveUp(h) ==
    /\ host[h] /\ at[h] = "waiting"
    /\ pipe' = [pipe EXCEPT ![proc[h]] = FALSE]
    /\ \E end \in {win[proc[h]], "gone"} : win' = [win EXCEPT ![proc[h]] = end]
    /\ at' = [at EXCEPT ![h] = "idle"] /\ proc' = [proc EXCEPT ![h] = 0]
    /\ rects' = [rects EXCEPT ![h] = FALSE]
    /\ UNCHANGED <<host, shown, asked, reader, owner, file, clicks>>

-----------------------------------------------------------------------------
(* hide *)

\* Mutant: only Stop-Process ends the window.
HideStopsOnly(h) ==
    /\ host[h] /\ at[h] = "idle" /\ shown[h]
    /\ stop' = [stop EXCEPT ![h] = TRUE]
    /\ at' = [at EXCEPT ![h] = "stopping"]
    /\ UNCHANGED <<host, shown, proc, rects, asked, seen, poll, slice, heard, window, file, clicks>>

Hide(h) ==
    /\ host[h] /\ at[h] = "idle" /\ shown[h]
    /\ stop' = [stop EXCEPT ![h] = TRUE]
    /\ pipe' = [pipe EXCEPT ![proc[h]] = FALSE]
    /\ at' = [at EXCEPT ![h] = "stopping"]
    /\ UNCHANGED <<host, shown, proc, rects, asked, seen, poll, slice, heard, owner, win,
                   file, clicks>>

\* What the handle knows of its window is cleared, and the rectangles with it.
Hidden(h) ==
    /\ shown' = [shown EXCEPT ![h] = FALSE]
    /\ proc' = [proc EXCEPT ![h] = 0] /\ rects' = [rects EXCEPT ![h] = FALSE]

\* Mutant: the band is marked hidden even when Stop-Process did not come back.
StopEndsAnyway(h) ==
    /\ host[h] /\ at[h] = "stopping"
    /\ at' = [at EXCEPT ![h] = "idle"]
    /\ \E end \in {win[proc[h]], "gone"} : win' = [win EXCEPT ![proc[h]] = end]
    /\ Hidden(h)
    /\ asked' \in {asked, asked \cup {proc[h]}}
    /\ UNCHANGED <<host, reader, owner, pipe, file, clicks>>

\* Stop-Process came back, and whatever it did, for its result is not looked at and
\* a wait for the launcher that fails is passed over, the band counts as hidden; or
\* it did not, perhaps after it had ended the window, and the band counts as shown.
StopEnds(h) ==
    /\ host[h] /\ at[h] = "stopping"
    /\ at' = [at EXCEPT ![h] = "idle"]
    /\ \E end \in {win[proc[h]], "gone"} : win' = [win EXCEPT ![proc[h]] = end]
    /\ \/ Hidden(h) /\ asked' = asked \cup {proc[h]}
       \/ UNCHANGED <<shown, proc, rects, asked>>
    /\ UNCHANGED <<host, reader, owner, pipe, file, clicks>>

\* The handle's process dies, in whatever way: its pipes close with it.
Die(h) ==
    /\ host[h]
    /\ host' = [host EXCEPT ![h] = FALSE] /\ at' = [at EXCEPT ![h] = "idle"]
    /\ rects' = [rects EXCEPT ![h] = FALSE]
    /\ pipe' = [l \in Launches |-> pipe[l] /\ owner[l] # h]
    /\ poll' = [l \in Launches |-> IF owner[l] = h /\ poll[l] = "on" THEN "gone" ELSE poll[l]]
    /\ slice' = [l \in Launches |-> IF owner[l] = h THEN <<>> ELSE slice[l]]
    /\ UNCHANGED <<shown, proc, asked, stop, seen, heard, owner, win, file, clicks>>

-----------------------------------------------------------------------------
(* The window process. *)

\* The script's first act on the file; it may end before or here.
Clear(l) ==
    /\ win[l] = "starting"
    /\ \/ win' = [win EXCEPT ![l] = "cleared"] /\ file' = <<>>
       \/ win' = [win EXCEPT ![l] = "gone"] /\ UNCHANGED file
    /\ UNCHANGED <<handle, reader, owner, pipe, clicks>>

\* The window shows, the watcher of the standard input starts, the file says so.
Up(l) ==
    /\ win[l] = "cleared"
    /\ win' = [win EXCEPT ![l] = "up"]
    /\ file' = file \o <<Line("diag", l, 0), Line("ready", l, 0)>>
    /\ UNCHANGED <<handle, reader, owner, pipe, clicks>>

EndOfInput(l) ==
    /\ win[l] = "up" /\ ~pipe[l]
    /\ win' = [win EXCEPT ![l] = "gone"]
    /\ UNCHANGED <<handle, reader, owner, pipe, file, clicks>>

\* A human's click on Pause or Cancel.
Click(l) ==
    /\ win[l] = "up" /\ clicks < MaxClicks
    /\ clicks' = clicks + 1
    /\ file' = Append(file, Line("click", l, clicks + 1))
    /\ UNCHANGED <<handle, reader, window>>

-----------------------------------------------------------------------------
(* _poll_events *)

PollReads(l) ==
    LET h == owner[l] IN
    /\ poll[l] = "on" /\ ~stop[h] /\ slice[l] = <<>> /\ seen[h] < Len(file)
    /\ slice' = [slice EXCEPT ![l] = SubSeq(file, seen[h] + 1, Len(file))]
    /\ UNCHANGED <<handle, stop, seen, poll, heard, window, file, clicks>>

\* One line: counted, then dispatched.
PollTakes(l) ==
    LET h == owner[l] IN
    /\ poll[l] = "on" /\ slice[l] # <<>>
    /\ seen' = [seen EXCEPT ![h] = @ + 1]
    /\ slice' = [slice EXCEPT ![l] = Tail(@)]
    /\ heard' = IF Head(slice[l]).event = "click"
                THEN [heard EXCEPT ![h] = @ \cup {Head(slice[l]).n}] ELSE heard
    /\ UNCHANGED <<handle, stop, poll, window, file, clicks>>

PollEnds(l) ==
    /\ poll[l] = "on" /\ slice[l] = <<>> /\ stop[owner[l]]
    /\ poll' = [poll EXCEPT ![l] = "gone"]
    /\ UNCHANGED <<handle, stop, seen, slice, heard, window, file, clicks>>

Next ==
    \/ \E h \in Handles : Show(h) \/ Ready(h) \/ GiveUp(h) \/ Hide(h) \/ StopEnds(h) \/ Die(h)
    \/ \E l \in Launches : \/ Clear(l) \/ Up(l) \/ EndOfInput(l) \/ Click(l)
                           \/ PollReads(l) \/ PollTakes(l) \/ PollEnds(l)

\* The watcher is a thread of its own that blocks on the pipe.
Fairness == \A l \in Launches : WF_vars(EndOfInput(l))

Spec == Init /\ [][Next]_vars /\ Fairness

-----------------------------------------------------------------------------
Lines == [event : {"diag", "ready", "click"}, by : Launches, n : 0 .. MaxClicks]

\* Every variable has its type.
TypeOK ==
    /\ host \in [Handles -> BOOLEAN] /\ at \in [Handles -> {"idle", "waiting", "stopping"}]
    /\ shown \in [Handles -> BOOLEAN] /\ proc \in [Handles -> 0 .. MaxLaunches]
    /\ rects \in [Handles -> BOOLEAN] /\ stop \in [Handles -> BOOLEAN]
    /\ seen \in [Handles -> Nat] /\ heard \in [Handles -> SUBSET (1 .. MaxClicks)]
    /\ owner \in [Launches -> Handles \cup {None}]
    /\ win \in [Launches -> {"no", "starting", "cleared", "up", "gone"}]
    /\ pipe \in [Launches -> BOOLEAN] /\ poll \in [Launches -> {"no", "on", "gone"}]
    /\ \A l \in Launches : slice[l] \in Seq(Lines)
    /\ file \in Seq(Lines) /\ clicks \in 0 .. MaxClicks /\ asked \subseteq Launches

\* A window process that can live on, because its input is open, is the one its
\* handle holds: none is left behind by a failed launch, a hide or a death.
NoneLeftBehind ==
    \A l \in Launches : Running(l) /\ pipe[l] => host[owner[l]] /\ proc[owner[l]] = l

\* While a band is up and kept up, its process's own input is kept off its buttons.
ButtonsRegistered ==
    \A l \in Launches : win[l] = "up" /\ pipe[l] => rects[owner[l]]

\* A band that was once shown and is still on the screen is one its living handle
\* reports as shown, or one that was told to go both ways: its input is closed, so
\* that its watcher ends it, and a Stop-Process for it has come back.
LetGo ==
    \A l \in Launches :
        win[l] = "up" /\ poll[l] # "no" /\ host[owner[l]] =>
            \/ shown[owner[l]] /\ proc[owner[l]] = l
            \/ ~pipe[l] /\ l \in asked

\* What hide() says of itself, "left AS-IS ... rather than a false 'it's down'" so as
\* not to "leak a SECOND overlay process": a band that is still on the screen is one
\* its handle reports as shown.  A Stop-Process that fails and comes back breaks it.
StillShown ==
    \A l \in Launches :
        win[l] = "up" /\ poll[l] # "no" /\ host[owner[l]] =>
            shown[owner[l]] /\ proc[owner[l]] = l

\* A band whose process died, or that was asked to go, leaves the screen, even
\* when Stop-Process fails.
BandsEnd ==
    \A l \in Launches :
        (win[l] = "up" /\ (~host[owner[l]] \/ (proc[owner[l]] = l /\ stop[owner[l]] /\ poll[l] # "no")))
            ~> (win[l] = "gone")

\* What _poll_events says of itself: no click on the band that is shown is counted
\* as read without being acted on.
NoClickSkipped ==
    \A h \in Handles, i \in DOMAIN file :
        host[h] /\ shown[h] /\ file[i].event = "click" /\ file[i].by = proc[h] /\ i <= seen[h] =>
            \/ file[i].n \in heard[h]
            \/ \E l \in Launches : owner[l] = h /\ Contains(slice[l], file[i])

\* The window a handle knows of is the only one it keeps alive, its own input is
\* kept off the window's buttons, and it forgets no window it has not told to go.
BandAccounted == TypeOK /\ NoneLeftBehind /\ ButtonsRegistered /\ LetGo
=============================================================================
