------------------------------- MODULE ScratchLease -------------------------------
(***************************************************************************)
(* The scratch directories of the remote agents.  An agent unpacks itself  *)
(* into a new directory, leases it by locking a marker for as long as it   *)
(* lives, and sweeps the directories of agents that died; any of them may  *)
(* be killed at any step, and then its locks are free.                     *)
(***************************************************************************)
EXTENDS Naturals

CONSTANTS
    Agents,    \* agent processes; each one's directory goes by the agent
    Names,     \* names mkdtemp may choose
    None

ASSUME LeaseAssumption == None \notin Agents \cup Names

VARIABLES
    run,       \* "no", "made", "marked", "locked", "started", "gone"
    bound,     \* the directory each name is bound to
    marker,    \* a directory's lease marker: "none", "partial", "valid"
    old,       \* the marker is past the retention floor
    lock,      \* who has the marker locked; its own agent counts as its keeper
    step,      \* each agent's sweep: "idle", "opened", "locked", "removing"
    name, dir  \* the entry it looks at, and the directory it has opened

sweep == <<step, name, dir>>
vars == <<run, bound, marker, old, lock, sweep>>

Init ==
    /\ run = [a \in Agents |-> "no"] /\ bound = [n \in Names |-> None]
    /\ marker = [a \in Agents |-> "none"] /\ old = [a \in Agents |-> FALSE]
    /\ lock = [a \in Agents |-> None] /\ step = [a \in Agents |-> "idle"]
    /\ name = [a \in Agents |-> None] /\ dir = [a \in Agents |-> None]

Alive(a) == run[a] \in {"made", "marked", "locked", "started"}
Becomes(a, stage) == run' = [run EXCEPT ![a] = stage]

-----------------------------------------------------------------------------
(* The bootstrap stub and acquire_agent_lease. *)

Make(a) ==
    /\ run[a] = "no" /\ Becomes(a, "made")
    /\ \E n \in Names : bound[n] = None /\ bound' = [bound EXCEPT ![n] = a]
    /\ UNCHANGED <<marker, old, lock, sweep>>

\* The marker is created exclusively; where that is not possible the agent runs
\* without a lease.
Mark(a) ==
    /\ run[a] = "made"
    /\ \/ Becomes(a, "marked") /\ marker' = [marker EXCEPT ![a] = "partial"]
       \/ Becomes(a, "started") /\ UNCHANGED marker
    /\ UNCHANGED <<bound, old, lock, sweep>>

Lock(a) ==
    /\ run[a] = "marked"
    /\ \/ lock[a] = None /\ lock' = [lock EXCEPT ![a] = a] /\ Becomes(a, "locked")
       \/ Becomes(a, "started") /\ UNCHANGED lock
    /\ UNCHANGED <<bound, marker, old, sweep>>

\* Mutant: the descriptor is not retained.
WriteAndClose(a) ==
    /\ run[a] = "locked" /\ Becomes(a, "started")
    /\ \E content \in {"partial", "valid"} :
         /\ marker' = [marker EXCEPT ![a] = content]
         /\ old' = [old EXCEPT ![a] = FALSE]
    /\ lock' = [lock EXCEPT ![a] = None]
    /\ UNCHANGED <<bound, sweep>>

\* The lease is kept even when writing its content failed.
Write(a) ==
    /\ run[a] = "locked" /\ Becomes(a, "started")
    /\ \E content \in {"partial", "valid"} :
         /\ marker' = [marker EXCEPT ![a] = content]
         /\ old' = [old EXCEPT ![a] = FALSE]
    /\ UNCHANGED <<bound, lock, sweep>>

\* What ends with a process: its locks and its sweep.
Ends(a) ==
    /\ Becomes(a, "gone")
    /\ lock' = [d \in Agents |-> IF lock[d] = a THEN None ELSE lock[d]]
    /\ step' = [step EXCEPT ![a] = "idle"]
    /\ name' = [name EXCEPT ![a] = None] /\ dir' = [dir EXCEPT ![a] = None]

\* An ordinary end runs atexit, which removes the directory as far as it can.
Exit(a) ==
    /\ Alive(a) /\ Ends(a)
    /\ \/ bound' = [n \in Names |-> IF bound[n] = a THEN None ELSE bound[n]]
       \/ UNCHANGED bound
    /\ marker' = [marker EXCEPT ![a] = "none"]
    /\ UNCHANGED old

\* SIGKILL, the out-of-memory killer, the host going down.
Kill(a) ==
    /\ Alive(a) /\ Ends(a)
    /\ UNCHANGED <<bound, marker, old>>

Age(a) ==
    /\ marker[a] # "none" /\ ~old[a]
    /\ old' = [old EXCEPT ![a] = TRUE]
    /\ UNCHANGED <<run, bound, marker, lock, sweep>>

-----------------------------------------------------------------------------
(* sweep_stale_agent_dirs, which every agent runs as it starts. *)

\* Mutant: the marker's content is not read.
ValidIfThere(d) == marker[d] # "none"

Valid(d) == marker[d] = "valid"

Idle(s) ==
    /\ step' = [step EXCEPT ![s] = "idle"]
    /\ name' = [name EXCEPT ![s] = None] /\ dir' = [dir EXCEPT ![s] = None]

\* A directory with a valid marker past the retention floor is opened.
Open(s) ==
    /\ run[s] = "started" /\ step[s] = "idle"
    /\ \E n \in Names :
         /\ bound[n] # None /\ Valid(bound[n]) /\ old[bound[n]]
         /\ name' = [name EXCEPT ![s] = n] /\ dir' = [dir EXCEPT ![s] = bound[n]]
    /\ step' = [step EXCEPT ![s] = "opened"]
    /\ UNCHANGED <<run, bound, marker, old, lock>>

\* Mutant: the lock is taken for granted.
GrabAnyway(s) ==
    /\ step[s] = "opened"
    /\ step' = [step EXCEPT ![s] = "locked"]
    /\ UNCHANGED <<run, bound, marker, old, lock, name, dir>>

\* The marker that was opened is locked, or another has it.
Grab(s) ==
    /\ step[s] = "opened"
    /\ IF lock[dir[s]] = None
       THEN /\ lock' = [lock EXCEPT ![dir[s]] = s]
            /\ step' = [step EXCEPT ![s] = "locked"]
            /\ UNCHANGED <<name, dir>>
       ELSE Idle(s) /\ UNCHANGED lock
    /\ UNCHANGED <<run, bound, marker, old>>

\* Mutant: the name is not looked up again.
CheckNothing(s) ==
    /\ step[s] = "locked"
    /\ step' = [step EXCEPT ![s] = "removing"]
    /\ UNCHANGED <<run, bound, marker, old, lock, name, dir>>

\* With the lock held: the marker is still linked and valid, and the name still
\* leads to it.
Check(s) ==
    /\ step[s] = "locked"
    /\ IF Valid(dir[s]) /\ bound[name[s]] = dir[s]
       THEN step' = [step EXCEPT ![s] = "removing"] /\ UNCHANGED <<lock, name, dir>>
       ELSE Idle(s) /\ lock' = [lock EXCEPT ![dir[s]] = None]
    /\ UNCHANGED <<run, bound, marker, old>>

\* rmtree by name; an error on the way leaves the directory without its marker or with it.
Remove(s) ==
    /\ step[s] = "removing" /\ Idle(s)
    /\ LET d == bound[name[s]] IN
         \/ bound' = [bound EXCEPT ![name[s]] = None] /\ marker' = [a \in Agents |-> IF a = d THEN "none" ELSE marker[a]]
         \/ UNCHANGED bound /\ marker' = [a \in Agents |-> IF a = d THEN "none" ELSE marker[a]]
         \/ UNCHANGED <<bound, marker>>
    /\ lock' = [lock EXCEPT ![dir[s]] = None]
    /\ UNCHANGED <<run, old>>

Next ==
    \E a \in Agents :
        \/ Make(a) \/ Mark(a) \/ Lock(a) \/ Write(a) \/ Exit(a) \/ Kill(a) \/ Age(a)
        \/ Open(a) \/ Grab(a) \/ Check(a) \/ Remove(a)

Spec == Init /\ [][Next]_vars

-----------------------------------------------------------------------------
\* Every variable has its type.
TypeOK ==
    /\ run \in [Agents -> {"no", "made", "marked", "locked", "started", "gone"}]
    /\ bound \in [Names -> Agents \cup {None}]
    /\ marker \in [Agents -> {"none", "partial", "valid"}]
    /\ old \in [Agents -> BOOLEAN] /\ lock \in [Agents -> Agents \cup {None}]
    /\ step \in [Agents -> {"idle", "opened", "locked", "removing"}]
    /\ name \in [Agents -> Names \cup {None}] /\ dir \in [Agents -> Agents \cup {None}]

\* A running agent keeps its directory and what is in it, however old its marker
\* and whoever sweeps, leased or not.
LiveKept ==
    \A a \in Agents : Alive(a) =>
        /\ \E n \in Names : bound[n] = a
        /\ run[a] = "started" /\ lock[a] = a => marker[a] # "none"

\* Two sweeps never remove the same entry together: rmtree by name would then
\* reach whatever the name is bound to next.
OneRemover ==
    \A s, t \in Agents : s # t /\ step[s] = "removing" /\ step[t] = "removing" => name[s] # name[t]

\* What a sweep removes is what it locked: a name taken over in between is left.
RemovesWhatItLocked ==
    \A s \in Agents : step[s] = "removing" => bound[name[s]] = dir[s] /\ lock[dir[s]] = s

\* A directory whose lease was never completed outlives the agent that made it:
\* only a valid marker makes one eligible.
UnleasedKept ==
    [][\A n \in Names :
         bound[n] # None /\ bound'[n] # bound[n] => run[bound[n]] # "gone" \/ marker[bound[n]] = "valid"]_vars

\* Sweeping is safe: for whoever runs, and for whoever takes over a name.
SweepSafe == [](TypeOK /\ LiveKept /\ OneRemover /\ RemovesWhatItLocked) /\ UnleasedKept
=============================================================================
