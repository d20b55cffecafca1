------------------------------- MODULE MCSession -------------------------------
(* Session for TLC: a batch beside a call of the desktop tool.              *)
EXTENDS Session, TLC

Of(kind, times) == [kind |-> kind, times |-> times]
MCScript ==
    "batch" :> <<Of("tap", 2), Of("down", 1), Of("final", 1)>>
    @@ "desk" :> <<Of("refresh", 1)>>
MCPolicy == "laptop" :> "open" @@ "mac" :> "gated"
=============================================================================
