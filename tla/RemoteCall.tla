------------------------------- MODULE RemoteCall -------------------------------
(***************************************************************************)
(* What a call to a remote agent promises its caller: the operation runs   *)
(* at most once, a success means that it did run and that the answer is    *)
(* its own, and a failure says nothing: the operation may have run, or may *)
(* still run after the caller was told.  WireCalls implements it.          *)
(***************************************************************************)
EXTENDS Naturals

CONSTANT Calls

VARIABLES
    status,   \* "new", "open", "ok" or "failed", as the caller sees it
    ran       \* how often the agent has run the operation

vars == <<status, ran>>

Init ==
    /\ status = [c \in Calls |-> "new"]
    /\ ran = [c \in Calls |-> 0]

Open(c) ==
    /\ status[c] = "new"
    /\ status' = [status EXCEPT ![c] = "open"]
    /\ UNCHANGED ran

Run(c) ==
    /\ status[c] # "new" /\ ran[c] = 0
    /\ ran' = [ran EXCEPT ![c] = 1]
    /\ UNCHANGED status

Succeed(c) ==
    /\ status[c] = "open" /\ ran[c] = 1
    /\ status' = [status EXCEPT ![c] = "ok"]
    /\ UNCHANGED ran

Fail(c) ==
    /\ status[c] = "open"
    /\ status' = [status EXCEPT ![c] = "failed"]
    /\ UNCHANGED ran

Next == \E c \in Calls : Open(c) \/ Run(c) \/ Succeed(c) \/ Fail(c)

Spec == Init /\ [][Next]_vars
=============================================================================
