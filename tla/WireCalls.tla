-------------------------------- MODULE WireCalls --------------------------------
(***************************************************************************)
(* Remote calls over one ssh process.  RemoteBackend._call takes the next  *)
(* id of its backend and hands a line to the shared transport, whose lock  *)
(* admits one call to the pipes at a time.  A thread reads the answer; the *)
(* caller waits for it until a timeout, and a reader that was given up     *)
(* stays at the pipe.  A failed call retires the transport: it marks it    *)
(* broken and closes it, with two more requests.  Pipes are unbuffered, so *)
(* two readers may take a line apart byte by byte.                         *)
(***************************************************************************)
EXTENDS Naturals, Sequences, FiniteSets, SequencesExt

CONSTANTS
    None, Garbage,
    Backends,      \* remote backends that share the transport
    MaxCalls,      \* bound: calls of each
    ReadOnly,      \* the agent was started with --read-only
    Writes,        \* ids whose operation is a write by classify_op
    Required       \* permissions the controller requires

Calls == [by : Backends, id : 1 .. MaxCalls]
\* A line, and the reader that waits for it: the request of a call, or one of the
\* two that the close after its failure sends, with fixed ids.
Closing == {"release_all", "bye"}
Lines == [of : Calls, what : Closing \cup {"call"}]
Line(c, what) == [of |-> c, what |-> what]

WireAssumption ==
    /\ IsFiniteSet(Backends) /\ MaxCalls \in Nat \ {0} /\ ReadOnly \in BOOLEAN
    /\ Writes \subseteq Nat
    /\ IsFiniteSet(Required)
    /\ None # Garbage /\ {None, Garbage} \cap Lines = {}

VARIABLES
    link,       \* "off", "up", "refused"; "shut" once stdin is closed
    agent,      \* the target's agent: "off", "running", "ended"
    pc,         \* where each call stands
    lock,       \* SshTransport._lock
    inbox,      \* requests written and not yet read by the agent
    outbox,     \* answers written and not yet read here
    readers,    \* reader threads at the pipe, each named by what it waits for
    mixed,      \* those that have taken bytes of a line they will not get whole
    got,        \* the line the reader of each call has delivered
    broken,     \* _SharedEntry.broken
    ran         \* history: how often the agent ran each call's operation

pipes == <<inbox, outbox, readers, mixed, got>>
vars == <<link, agent, pc, lock, pipes, broken, ran>>

Places == {"new", "started", "entered", "queued", "reading", "mark", "release_all", "bye", "ended",
           "ok", "failed"}

Init ==
    /\ link = "off" /\ agent = "off"
    /\ pc = [c \in Calls |-> "new"]
    /\ lock = None
    /\ inbox = <<>> /\ outbox = <<>> /\ readers = {} /\ mixed = {}
    /\ got = [c \in Calls |-> None]
    /\ broken = FALSE /\ ran = [c \in Calls |-> 0]

Goto(c, place) == pc' = [pc EXCEPT ![c] = place]

-----------------------------------------------------------------------------
\* validate_handshake: nothing is negotiated down.
Handshakes == [protocol : BOOLEAN, sha : BOOLEAN, granted : SUBSET Required,
               available : {TRUE, FALSE, None}]
Valid(h) == h.protocol /\ h.sha /\ Required \subseteq h.granted /\ h.available = TRUE

\* connect: the agent's unsolicited first line decides.
Connect ==
    /\ link = "off"
    /\ \E h \in Handshakes :
         link' = IF Valid(h) THEN "up" ELSE "refused"
    /\ agent' = "running"
    /\ UNCHANGED <<pc, lock, pipes, broken, ran>>

\* _call takes the next id of its backend.
Start(c) ==
    /\ pc[c] = "new" /\ link \notin {"off", "refused"}
    /\ \A d \in Calls : d.by = c.by /\ d.id < c.id => pc[d] # "new"
    /\ Goto(c, "started")
    /\ UNCHANGED <<link, agent, lock, pipes, broken, ran>>

\* The shared entry's look at its mark.
Check(c) ==
    /\ pc[c] = "started"
    /\ Goto(c, IF broken THEN "failed" ELSE "entered")
    /\ UNCHANGED <<link, agent, lock, pipes, broken, ran>>

\* send reads _proc without the lock, and then waits for the lock.
Enter(c) ==
    /\ pc[c] = "entered"
    /\ Goto(c, IF link = "shut" THEN "mark" ELSE "queued")
    /\ UNCHANGED <<link, agent, lock, pipes, broken, ran>>

\* One request is written and its reader started.
Written(w) ==
    /\ inbox' = Append(inbox, w)
    /\ readers' = readers \cup {w}
    /\ UNCHANGED <<outbox, mixed, got>>

\* Writing to a stdin that was closed meanwhile raises ValueError, which is not
\* taken for a lost connection; to an agent that ended, BrokenPipeError.
Write(c) ==
    /\ pc[c] = "queued" /\ lock = None
    /\ UNCHANGED <<link, agent, broken, ran>>
    /\ \/ /\ link = "shut" /\ Goto(c, "failed") /\ UNCHANGED <<lock, pipes>>
       \/ /\ link = "up" /\ agent = "ended" /\ Goto(c, "mark") /\ UNCHANGED <<lock, pipes>>
       \/ /\ link = "up" /\ Goto(c, "reading") /\ lock' = Line(c, "call") /\ Written(Line(c, "call"))

-----------------------------------------------------------------------------
\* run and _dispatch: one line at a time, in order, each answered.  A write is
\* not run when the agent is read-only, and an operation may raise.
Runs(w) == w.what = "call" /\ ~(ReadOnly /\ w.of.id \in Writes)

\* Mutant: a request stays queued until its answer has been written.
DispatchAgain ==
    /\ agent = "running" /\ inbox # <<>>
    /\ \/ inbox' = Tail(inbox) /\ outbox' = Append(outbox, Head(inbox))
       \/ UNCHANGED <<inbox, outbox>>
    /\ ran' = [c \in Calls |-> IF c = Head(inbox).of /\ Runs(Head(inbox)) THEN ran[c] + 1 ELSE ran[c]]
    /\ UNCHANGED <<link, agent, pc, lock, readers, mixed, got, broken>>

Dispatch ==
    /\ agent = "running" /\ inbox # <<>>
    /\ inbox' = Tail(inbox)
    /\ outbox' = Append(outbox, Head(inbox))
    /\ ran' = [c \in Calls |-> IF c = Head(inbox).of /\ Runs(Head(inbox)) THEN ran[c] + 1 ELSE ran[c]]
    /\ agent' = IF Head(inbox).what = "bye" THEN "ended" ELSE "running"
    /\ UNCHANGED <<link, pc, lock, readers, mixed, got, broken>>

\* End of stdin, a signal, a crash, a link that went down: requests that were
\* under way are lost.
AgentEnds ==
    /\ agent = "running"
    /\ agent' = "ended"
    /\ inbox' = <<>>
    /\ UNCHANGED <<link, pc, lock, outbox, readers, mixed, got, broken, ran>>

\* Nobody looks at the answer to a closing request.
Delivered(r, line) ==
    got' = IF r.what = "call" THEN [got EXCEPT ![r.of] = line] ELSE got

\* A line goes to any of the threads that wait at the pipe; bytes of it may go
\* to another one, and then neither has a whole line any more.
Read ==
    /\ outbox # <<>>
    /\ outbox' = Tail(outbox)
    /\ \E r \in readers :
         /\ readers' = readers \ {r}
         /\ \/ Delivered(r, IF r \in mixed THEN Garbage ELSE Head(outbox)) /\ mixed' = mixed \ {r}
            \/ \E other \in readers \ {r} :
                 Delivered(r, Garbage) /\ mixed' = (mixed \ {r}) \cup {other}
    /\ UNCHANGED <<link, agent, pc, lock, inbox, broken, ran>>

\* The id of an answer.
IdOf(line) ==
    CASE line.what = "call" -> line.of.id
      [] line.what = "release_all" -> 999000001
      [] line.what = "bye" -> 999000002

\* Mutant: the id of the answer is not compared.
ReturnAny(c) ==
    /\ pc[c] = "reading" /\ got[c] # None
    /\ lock' = None
    /\ Goto(c, IF got[c] = Garbage THEN "failed" ELSE "ok")
    /\ UNCHANGED <<link, agent, pipes, broken, ran>>

\* The rest of _call: garbage, a foreign id and an error answer are failures
\* that leave the transport in use.
Return(c) ==
    /\ pc[c] = "reading" /\ got[c] # None
    /\ lock' = None
    /\ \/ /\ got[c] # Garbage /\ IdOf(got[c]) = c.id
          /\ Runs(got[c]) /\ Goto(c, "ok")
       \/ Goto(c, "failed")
    /\ UNCHANGED <<link, agent, pipes, broken, ran>>

\* No line within the timeout, or the end of the stream: the reader stays
\* behind, the lock is free, and the transport is marked only afterwards.
TimeOut(c) ==
    /\ pc[c] = "reading" /\ got[c] = None
    /\ lock' = None
    /\ Goto(c, "mark")
    /\ UNCHANGED <<link, agent, pipes, broken, ran>>

-----------------------------------------------------------------------------
\* Mutant: a failed send is only reported.
MarkNothing(c) ==
    /\ pc[c] = "mark"
    /\ Goto(c, "failed")
    /\ UNCHANGED <<link, agent, lock, pipes, broken, ran>>

\* _mark_broken, then SshTransport.close.
MarkBroken(c) ==
    /\ pc[c] = "mark"
    /\ broken' = TRUE
    /\ Goto(c, IF link = "shut" THEN "failed" ELSE "release_all")
    /\ UNCHANGED <<link, agent, lock, pipes, ran>>

\* Each of the two last requests takes the lock and waits for any line; what
\* goes wrong with it is only logged.
CloseAsk(c) ==
    /\ pc[c] \in Closing /\ lock = None
    /\ UNCHANGED <<link, agent, broken, ran>>
    /\ IF link = "up" /\ agent = "running"
       THEN lock' = Line(c, pc[c]) /\ Written(Line(c, pc[c])) /\ UNCHANGED pc
       ELSE Goto(c, IF pc[c] = "release_all" THEN "bye" ELSE "ended")
            /\ UNCHANGED <<lock, pipes>>

CloseGoesOn(c) ==
    /\ pc[c] \in Closing /\ lock = Line(c, pc[c])
    /\ lock' = None
    /\ Goto(c, IF pc[c] = "release_all" THEN "bye" ELSE "ended")
    /\ UNCHANGED <<link, agent, pipes, broken, ran>>

\* stdin is closed, ssh is waited for or killed; the agent may still work off
\* what it has been sent.
Shut(c) ==
    /\ pc[c] = "ended"
    /\ link' = "shut"
    /\ Goto(c, "failed")
    /\ UNCHANGED <<agent, lock, pipes, broken, ran>>

Call(c) ==
    \/ Start(c) \/ Check(c) \/ Enter(c) \/ Write(c) \/ Return(c) \/ TimeOut(c)
    \/ MarkBroken(c) \/ CloseAsk(c) \/ CloseGoesOn(c) \/ Shut(c)

Next == Connect \/ Dispatch \/ AgentEnds \/ Read \/ \E c \in Calls : Call(c)

Spec == Init /\ [][Next]_vars

-----------------------------------------------------------------------------
\* Every variable has its type.
TypeOK ==
    /\ link \in {"off", "up", "refused", "shut"} /\ agent \in {"off", "running", "ended"}
    /\ pc \in [Calls -> Places]
    /\ lock \in Lines \cup {None}
    /\ inbox \in Seq(Lines) /\ outbox \in Seq(Lines)
    /\ readers \subseteq Lines /\ mixed \subseteq readers
    /\ got \in [Calls -> Lines \cup {None, Garbage}]
    /\ broken \in BOOLEAN /\ ran \in [Calls -> 0 .. 1]

\* "block for exactly the matching response line": the answer a successful call
\* returns is the answer to its own request.
OwnAnswer == \A c \in Calls : pc[c] = "ok" => got[c] = Line(c, "call")

\* Whenever the transport can be taken by a call that will look at the mark, the
\* pipes are empty: no old answer waits for it and no old reader competes with it.
InSync ==
    lock = None /\ ~broken /\ (\A c \in Calls : pc[c] # "mark") /\ agent = "running"
        => inbox = <<>> /\ outbox = <<>> /\ readers = {}

Status(c) ==
    CASE pc[c] = "new" -> "new"
      [] pc[c] \in {"ok", "failed"} -> pc[c]
      [] OTHER -> "open"

\* What the caller is promised, whatever is lost, late or mixed up.
Promise == INSTANCE RemoteCall WITH status <- [c \in Calls |-> Status(c)]
AtMostOnce == Promise!Spec

\* Answers stay paired with their requests, and a transport whose pairing is in
\* doubt is out of use.
Paired == TypeOK /\ OwnAnswer /\ InSync
=============================================================================
