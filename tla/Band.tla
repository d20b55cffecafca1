---------------------------------- MODULE Band ----------------------------------
(***************************************************************************)
(* Several sessions of one controller process that drive the same local    *)
(* desktop: a parent, its delegated children, a second tool config.  They  *)
(* share what is keyed by the channel: the cached answer to the disclosure *)
(* question (_announcement_decisions), the overlay that answer carries,    *)
(* the depth of calls in flight (_ChannelBandState) and the held-input     *)
(* ledger.  Each keeps its own guard: the pause it obeys and the rectangles*)
(* its clicks may not hit.  Every session holds buttons of its own, so that*)
(* one entry of the ledger never replaces another's.                       *)
(***************************************************************************)
EXTENDS Naturals, FiniteSets

CONSTANTS
    None,
    NoHandle, Refused,   \* answers: go on without a handle; do not go on
    Sessions,
    Declining    \* sessions whose configuration switches disclosure off

SessionsAssumption ==
    /\ IsFiniteSet(Sessions) /\ Declining \subseteq Sessions
    /\ Cardinality({None, NoHandle, Refused} \cup Sessions) = Cardinality(Sessions) + 3

VARIABLES
    channel,    \* overlay raised here, dialog, or the target's own overlay
    feared,     \* a human is seen, or the idle counter cannot be read
    decision,   \* _announcement_decisions: the overlay's creator, NoHandle, Refused
    shown,      \* creators whose overlay is on the screen
    depth,      \* band_state.depth
    held,       \* sessions with an entry in the channel's ledger
    pc,         \* what each session's call is doing
    said,       \* _announced / _announce_refused of each session
    handle,     \* _announcement: whose overlay the session uses
    blind,      \* its call goes on although the band could not be raised
    closed,     \* sessions whose cleanup has started
    away,       \* sessions retargeted to another machine
    overlap,    \* history: sessions asking when the decision was stored
    leftover    \* history: why an overlay may be up although nobody drives

Channels == {"overlay", "dialog", "remote"}

decisions == <<decision, said, handle, overlap>>
driving == <<depth, held, blind>>
vars == <<channel, feared, decisions, shown, driving, pc, closed, away, leftover>>

Init ==
    /\ channel \in Channels /\ feared = FALSE
    /\ decision = None /\ shown = {} /\ depth = 0 /\ held = {}
    /\ pc = [s \in Sessions |-> "unmounted"]
    /\ said = [s \in Sessions |-> "no"]
    /\ handle = [s \in Sessions |-> None]
    /\ blind = [s \in Sessions |-> FALSE]
    /\ closed = {} /\ away = {} /\ overlap = {} /\ leftover = {}

Goto(s, label) == pc' = [pc EXCEPT ![s] = label]
Left(why) == leftover' = IF shown # {} THEN leftover \cup {why} ELSE leftover
Lowered == leftover' = IF shown' = {} THEN {} ELSE leftover

\* People come and go; an idle counter may stop being readable.
People ==
    /\ feared' = ~feared
    /\ UNCHANGED <<channel, decisions, shown, driving, pc, closed, away, leftover>>

-----------------------------------------------------------------------------
Declines(s) == s \in Declining   \* coexistence.announce or .enabled is false

\* mount() refuses a session that declines disclosure in front of a human.
Mount(s) ==
    /\ pc[s] = "unmounted"
    /\ Goto(s, IF Declines(s) /\ feared THEN "unavailable" ELSE "idle")
    /\ UNCHANGED <<channel, feared, decisions, shown, driving, closed, away, leftover>>

\* Mutant: the answer of an earlier session is asked for again.
AskAgain(s) ==
    /\ pc[s] = "idle" /\ s \notin closed \cup away /\ said[s] = "no"
    /\ UNCHANGED <<channel, feared, decision, overlap, shown, driving, closed, away, leftover>>
    /\ Goto(s, "asking") /\ UNCHANGED <<said, handle>>

\* _build_announcement: an answer that is cached is adopted, a yes or a no.
Ask(s) ==
    /\ pc[s] = "idle" /\ s \notin closed \cup away /\ said[s] = "no"
    /\ UNCHANGED <<channel, feared, decision, overlap, shown, driving, closed, away, leftover>>
    /\ \/ /\ Declines(s)
          /\ said' = [said EXCEPT ![s] = "yes"] /\ Goto(s, "enter") /\ UNCHANGED handle
       \/ /\ ~Declines(s) /\ decision = Refused
          /\ said' = [said EXCEPT ![s] = "refused"] /\ UNCHANGED <<pc, handle>>
       \/ /\ ~Declines(s) /\ decision \in Sessions \cup {NoHandle}
          /\ said' = [said EXCEPT ![s] = "yes"]
          /\ handle' = [handle EXCEPT ![s] = decision] /\ Goto(s, "enter")
       \/ /\ ~Declines(s) /\ decision = None
          /\ Goto(s, "asking") /\ UNCHANGED <<said, handle>>

\* _handle_channel_failure: nobody who may be there goes without a channel.
Failure == IF feared THEN Refused ELSE NoHandle

\* How the dialog may end, and what that permits: a countdown nobody answered
\* is a yes only if the monitor calls the machine quiet.
DialogEnds == {"Continue", "Pause", "gave up", "not shown"}
Judged(end) ==
    CASE end = "Continue"  -> {NoHandle}
      [] end = "Pause"     -> {Refused}
      [] end = "gave up"   -> IF feared THEN {Refused} ELSE {NoHandle, Refused}
      [] end = "not shown" -> {Failure}

\* The agent of a remote target raises its own overlay, or reports that it did not.
RemoteAnswers == {NoHandle, Failure}

\* What _dispatch_announcement may come back with.
Answers(s) ==
    CASE channel = "overlay" -> {s, Failure}
      [] channel = "dialog"  -> UNION {Judged(end) : end \in DialogEnds}
      [] channel = "remote"  -> RemoteAnswers

\* The question was put; setdefault keeps the first answer, the session its own.
Answer(s) ==
    /\ pc[s] = "asking"
    /\ \E a \in Answers(s) :
         /\ decision' = IF decision = None THEN a ELSE decision
         /\ said' = [said EXCEPT ![s] = IF a = Refused THEN "refused" ELSE "yes"]
         /\ handle' = [handle EXCEPT ![s] = IF a = Refused THEN None ELSE a]
         /\ shown' = IF a = s THEN shown \cup {s} ELSE shown
         /\ Goto(s, IF a = Refused THEN "idle" ELSE "enter")
    /\ overlap' = IF decision = None THEN {r \in Sessions : pc[r] = "asking"} ELSE overlap
    /\ UNCHANGED <<channel, feared, driving, closed, away, leftover>>

\* A later call of a session that was disclosed.
Call(s) ==
    /\ pc[s] = "idle" /\ said[s] = "yes" /\ s \notin closed \cup away
    /\ Goto(s, "enter")
    /\ UNCHANGED <<channel, feared, decisions, shown, driving, closed, away, leftover>>

\* A call that ends between its disclosure and _band_enter.
Abandon(s) ==
    /\ pc[s] = "enter"
    /\ Goto(s, "idle") /\ Left("abandoned")
    /\ UNCHANGED <<channel, feared, decisions, shown, driving, closed, away>>

Tracked(s) == handle[s] \in Sessions   \* _live_band_handle

\* Mutant: a raise that fails leaves its increment behind.
EnterLeaks(s) ==
    /\ pc[s] = "enter" /\ s \notin closed /\ Tracked(s)
    /\ UNCHANGED <<channel, feared, decisions, held, closed, away, leftover, blind>>
    /\ depth' = depth + 1
    /\ \/ shown' = shown \cup {handle[s]} /\ Goto(s, "in")
       \/ handle[s] \notin shown /\ feared /\ UNCHANGED shown /\ Goto(s, "idle")

\* Mutant: only the call that raises the band is counted.
EnterFirst(s) ==
    /\ pc[s] = "enter" /\ s \notin closed /\ Tracked(s)
    /\ depth' = IF handle[s] \in shown THEN depth ELSE depth + 1
    /\ shown' = shown \cup {handle[s]} /\ Goto(s, "in")
    /\ UNCHANGED <<channel, feared, decisions, held, closed, away, leftover, blind>>

\* _band_enter and _ensure_band_raised, under the channel's lock.
Enter(s) ==
    /\ pc[s] = "enter"
    /\ UNCHANGED <<channel, feared, decisions, held, closed, away, leftover>>
    /\ \/ /\ s \in closed
          /\ Goto(s, "idle") /\ UNCHANGED <<shown, depth, blind>>
       \/ /\ s \notin closed /\ ~Tracked(s)
          /\ Goto(s, "in") /\ UNCHANGED <<shown, depth, blind>>
       \/ /\ s \notin closed /\ Tracked(s)
          /\ depth' = depth + 1 /\ shown' = shown \cup {handle[s]}
          /\ Goto(s, "in") /\ UNCHANGED blind
       \/ /\ s \notin closed /\ Tracked(s) /\ handle[s] \notin shown /\ UNCHANGED shown
          /\ IF feared THEN Goto(s, "idle") /\ UNCHANGED <<depth, blind>>
             ELSE /\ depth' = depth + 1 /\ blind' = [blind EXCEPT ![s] = TRUE]
                  /\ Goto(s, "in")

\* The overlay registers its buttons with, and reports clicks on Pause to, the
\* guard of the session that built it, while it is up.
Wired(s) == {s} \cap shown

-----------------------------------------------------------------------------
\* A button goes down and stays down after the call.
Press(s) ==
    /\ pc[s] = "in" /\ s \notin closed \cup held
    /\ held' = held \cup {s}
    /\ UNCHANGED <<channel, feared, decisions, shown, depth, blind, pc, closed, away, leftover>>

Release(s) ==
    /\ pc[s] = "in" /\ s \notin closed /\ s \in held
    /\ held' = held \ {s}
    /\ UNCHANGED <<channel, feared, decisions, shown, depth, blind, pc, closed, away, leftover>>

\* The deadman, or a halt: the whole ledger lets go, and nobody lowers a band.
Deadman ==
    /\ held # {} /\ held' = {}
    /\ UNCHANGED <<channel, feared, decisions, shown, depth, blind, pc, closed, away, leftover>>

\* Mutant: the call that gives the last depth back goes no further.
ExitShort(s) ==
    /\ pc[s] = "in"
    /\ blind' = [blind EXCEPT ![s] = FALSE]
    /\ depth' = IF Tracked(s) THEN depth - 1 ELSE depth
    /\ Goto(s, "idle")
    /\ UNCHANGED <<channel, feared, decisions, shown, held, closed, away, leftover>>

\* _band_exit: give the depth back, ...
ExitDepth(s) ==
    /\ pc[s] = "in"
    /\ blind' = [blind EXCEPT ![s] = FALSE]
    /\ IF Tracked(s)
       THEN /\ depth' = depth - 1
            /\ Goto(s, IF depth' = 0 THEN "ledger" ELSE "idle")
       ELSE Goto(s, "idle") /\ UNCHANGED depth
    /\ UNCHANGED <<channel, feared, decisions, shown, held, closed, away, leftover>>

\* ... look whether something is held, in the ledger of the current binding, ...
ExitLedger(s) ==
    /\ pc[s] = "ledger"
    /\ IF held # {} /\ s \notin away THEN Goto(s, "idle") /\ Left("held")
       ELSE Goto(s, "lower") /\ UNCHANGED leftover
    /\ UNCHANGED <<channel, feared, decisions, shown, driving, closed, away>>

\* Mutant: the depth is not looked at again.
LowerUnchecked(s) ==
    /\ pc[s] = "lower"
    /\ shown' = shown \ {handle[s]}
    /\ Goto(s, "idle")
    /\ UNCHANGED <<channel, feared, decisions, driving, closed, away, leftover>>

\* ... and lower the band if still nobody is in a call.
ExitLower(s) ==
    /\ pc[s] = "lower"
    /\ shown' = IF depth = 0 THEN shown \ {handle[s]} ELSE shown
    /\ Lowered /\ Goto(s, "idle")
    /\ UNCHANGED <<channel, feared, decisions, driving, closed, away>>

\* close_current_binding: deferred while this session's own button is pending.
Cleanup(s) ==
    /\ pc[s] \notin {"unmounted", "unavailable", "asking"} /\ s \notin closed \cup held
    /\ closed' = closed \cup {s}
    /\ shown' = IF Tracked(s) /\ s \notin away /\ depth = 0 /\ held = {}
                THEN shown \ {handle[s]} ELSE shown
    /\ IF held = {} THEN Lowered ELSE Left("held")
    /\ UNCHANGED <<channel, feared, decisions, driving, pc, away>>

\* retarget, refused while the channel is busy or a button of it is held.
Leave(s) ==
    /\ pc[s] \in {"idle", "ledger", "lower"} /\ s \notin closed \cup away
    /\ depth = 0 /\ held = {}
    /\ away' = away \cup {s}
    /\ UNCHANGED <<channel, feared, decisions, shown, driving, pc, closed, leftover>>

Session(s) ==
    \/ Mount(s) \/ Ask(s) \/ Answer(s) \/ Call(s) \/ Abandon(s) \/ Enter(s)
    \/ Press(s) \/ Release(s) \/ ExitDepth(s) \/ ExitLedger(s) \/ ExitLower(s)
    \/ Cleanup(s) \/ Leave(s)

Next == People \/ Deadman \/ \E s \in Sessions : Session(s)

Spec == Init /\ [][Next]_vars

-----------------------------------------------------------------------------
\* Every variable has its type; the depth is never negative.
TypeOK ==
    /\ channel \in Channels /\ feared \in BOOLEAN
    /\ decision \in Sessions \cup {None, NoHandle, Refused}
    /\ shown \subseteq Sessions /\ depth \in Nat /\ held \subseteq Sessions
    /\ pc \in [Sessions -> {"unmounted", "unavailable", "idle", "asking", "enter", "in",
                            "ledger", "lower"}]
    /\ said \in [Sessions -> {"no", "yes", "refused"}]
    /\ handle \in [Sessions -> Sessions \cup {None, NoHandle}]
    /\ blind \in [Sessions -> BOOLEAN]
    /\ closed \subseteq Sessions /\ away \subseteq Sessions /\ overlap \subseteq Sessions
    /\ leftover \subseteq {"abandoned", "held"}

\* "no path may drop the band while an action is in flight": whoever ends, closes
\* or leaves, the overlay of a session that drives stays up.  The one exception is
\* the loud one, a re-raise that failed with nobody there.
CoversDriving ==
    \A s \in Sessions : pc[s] = "in" /\ Tracked(s) => blind[s] \/ handle[s] \in shown

\* The depth is the number of tracked calls in flight, over every session.
DepthCounts == depth = Cardinality({s \in Sessions : pc[s] = "in" /\ Tracked(s)})

\* A no holds for the process: once it is the decision, the only sessions that
\* drive are those that had their own question open then and got a yes, and
\* those configured not to ask.
RefusalSpreads ==
    \A s \in Sessions \ Declining :
        decision = Refused /\ pc[s] \in {"enter", "in"} => s \in overlap /\ said[s] = "yes"

\* When no call is under way and nothing is held, an overlay is up only where
\* the code has a known reason to leave it: two sessions asked at once, a call
\* ended between its disclosure and its band, or a button outlived a call, and
\* whatever let it go lowered nothing.
BandLowered ==
    (\A s \in Sessions : pc[s] \in {"unmounted", "unavailable", "idle"}) /\ held = {}
        => \/ shown = {} \/ leftover # {}
           \/ \E r, s \in Sessions : Tracked(r) /\ Tracked(s) /\ handle[r] # handle[s]

\* "an operation is in flight or an input is held": the band is up while a
\* button of a disclosed session is down.
HeldCovered ==
    \A s \in held : Tracked(s) /\ s \notin away => blind[s] \/ handle[s] \in shown

\* "no synthetic event this process emits may target this pixel at all": while
\* an overlay is up, the guard of every session that drives excludes its buttons.
ButtonsExcluded ==
    \A s \in Sessions : pc[s] = "in" => shown \subseteq Wired(s)

\* What disclosure promises over all sessions of a channel.
Disclosed == TypeOK /\ CoversDriving /\ DepthCounts /\ RefusalSpreads /\ BandLowered
=============================================================================
