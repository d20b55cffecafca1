------------------------------- MODULE MCTransport -------------------------------
(***************************************************************************)
(* The transport for TLC, one level at a time: each behaviour is one of    *)
(* SharedTransport, the entry and its consumers, or WireCalls, the calls   *)
(* over its connection, while the other stays at its initial state.        *)
(***************************************************************************)
EXTENDS SharedTransport

CONSTANTS Garbage, Backends, MaxCalls, ReadOnly, Writes, Required

VARIABLES
    part,
    link, agent, place, user, inbox, outbox, readers, mixed, got, marked, ran

Wire == INSTANCE WireCalls WITH pc <- place, lock <- user, broken <- marked

ASSUME Wire!WireAssumption

wire == <<link, agent, place, user, inbox, outbox, readers, mixed, got, marked, ran>>
all == <<part, vars, wire>>

MCInit == part \in {"entry", "wire"} /\ Init /\ Wire!Init

MCNext ==
    \/ part = "entry" /\ Next /\ UNCHANGED <<part, wire>>
    \/ part = "wire" /\ Wire!Next /\ UNCHANGED <<part, vars>>

MCSpec == MCInit /\ [][MCNext]_all

\* The properties of WireCalls, under their own names.
Paired == Wire!Paired
AtMostOnce == Wire!AtMostOnce

=============================================================================
