----------------------------- MODULE WireCallsProofs -----------------------------
(***************************************************************************)
(* WireCalls for any number of calls and any permissions: an operation     *)
(* runs at most once, and a transport whose pipes may hold an old answer   *)
(* is never taken by a call that looks at its mark.  With one backend on   *)
(* the transport a success is the call's own, and the wire implements      *)
(* RemoteCall.                                                             *)
(***************************************************************************)
EXTENDS WireCalls, TLAPS, SequenceTheorems

\* What no other backend can take from a call: there is no other one.
OneBackend == \A a, b \in Backends : a = b

Request(c) == Line(c, "call")
Early == {"new", "started", "entered", "queued"}

(* A call's request is written once, and run at most once after that.      *)
Once ==
    /\ \A c \in Calls : pc[c] \in Early =>
         ran[c] = 0 /\ Request(c) \notin readers /\ got[c] = None
    /\ \A i \in DOMAIN inbox : inbox[i].what = "call" =>
         ran[inbox[i].of] = 0 /\ pc[inbox[i].of] \notin Early
    /\ \A i, j \in DOMAIN inbox : inbox[i] = inbox[j] /\ inbox[i].what = "call" => i = j

(* What answers an operation was written after it ran.                     *)
Answered ==
    /\ \A i \in DOMAIN outbox : Runs(outbox[i]) => ran[outbox[i].of] = 1
    /\ \A c \in Calls : got[c] \in Lines =>
         Request(c) \notin readers /\ (Runs(got[c]) => ran[got[c].of] = 1)
    /\ \A c \in Calls : got[c] = Garbage => Request(c) \notin readers

(* Who has the lock reads, and a call closes only what it has marked.      *)
Held ==
    /\ \A c \in Calls : pc[c] = "reading" <=> lock = Request(c)
    /\ \A c \in Calls : pc[c] \in Closing \cup {"ended"} => broken
    /\ lock \in Lines /\ lock.what \in Closing => broken
    /\ link = "shut" => broken
    /\ agent = "off" <=> link = "off"
    /\ link = "off" => \A c \in Calls : pc[c] = "new"

(* Until something fails there is at most one request under way: that of   *)
(* the call that has the lock.                                             *)
Alone(c) ==
    /\ lock = Request(c)
    /\ \/ inbox = <<Request(c)>> /\ outbox = <<>> /\ readers = {Request(c)}
       \/ inbox = <<>> /\ outbox = <<Request(c)>> /\ readers = {Request(c)}
       \/ inbox = <<>> /\ outbox = <<>> /\ readers = {}

Steady ==
    ~broken /\ agent # "ended" /\ (\A c \in Calls : pc[c] # "mark") =>
        \/ lock = None /\ inbox = <<>> /\ outbox = <<>> /\ readers = {}
        \/ \E c \in Calls : Alone(c)

WInv == TypeOK /\ Once /\ Answered /\ Held /\ Steady

(* A success keeps the answer it was given.                                *)
Own == \A c \in Calls : pc[c] = "ok" =>
         got[c] = Request(c) /\ ran[c] = 1 /\ Request(c) \notin readers

-----------------------------------------------------------------------------
LEMMA LineFacts ==
    /\ \A c \in Calls, k \in Closing \cup {"call"} :
         Line(c, k) \in Lines /\ Line(c, k).of = c /\ Line(c, k).what = k
    /\ \A w \in Lines : w.of \in Calls /\ w.what \in Closing \cup {"call"} /\ w = Line(w.of, w.what)
BY DEF Lines, Line

LEMMA Distinct ==
    ASSUME WireAssumption PROVE None # Garbage /\ None \notin Lines /\ Garbage \notin Lines
BY DEF WireAssumption

(* What a line more, or a line less, does to a pipe.                       *)
LEMMA Appended ==
    ASSUME NEW s \in Seq(Lines), NEW w \in Lines
    PROVE  /\ Append(s, w) \in Seq(Lines)
           /\ \A i \in DOMAIN Append(s, w) :
                \/ i \in DOMAIN s /\ Append(s, w)[i] = s[i]
                \/ i = Len(s) + 1 /\ Append(s, w)[i] = w
<1>1. Append(s, w) \in Seq(Lines) /\ Len(Append(s, w)) = Len(s) + 1
  BY AppendProperties
<1>2. DOMAIN Append(s, w) = 1 .. Len(s) + 1 /\ DOMAIN s = 1 .. Len(s) /\ Len(s) \in Nat
  BY <1>1, LenProperties
<1> QED
  BY <1>1, <1>2, AppendProperties

LEMMA Shortened ==
    ASSUME NEW s \in Seq(Lines), s # <<>>
    PROVE  /\ Head(s) \in Lines /\ 1 \in DOMAIN s /\ Head(s) = s[1]
           /\ Tail(s) \in Seq(Lines)
           /\ \A i \in DOMAIN Tail(s) : i + 1 \in DOMAIN s /\ Tail(s)[i] = s[i + 1]
                                   /\ i \in Nat \ {0}
<1>1. Head(s) \in Lines /\ Tail(s) \in Seq(Lines) /\ Len(Tail(s)) = Len(s) - 1
  BY HeadTailProperties
<1>2. DOMAIN Tail(s) = 1 .. Len(s) - 1 /\ DOMAIN s = 1 .. Len(s) /\ Len(s) \in Nat \ {0}
  BY <1>1, LenProperties, EmptySeq
<1>3. Head(s) = s[1]
  OBVIOUS
<1> QED
  BY <1>1, <1>2, <1>3, HeadTailProperties

(* Every action preserves every part of the invariant.                     *)
LEMMA ConnectKeeps ==
    ASSUME WireAssumption, WInv, Connect PROVE WInv'
<1>1. TypeOK'
  BY LineFacts, Distinct, SMTT(20) DEF Connect, Goto, pipes, WInv, TypeOK, Places, Closing
<1>2. Once'
  BY LineFacts, Distinct
  DEF Connect, Goto, pipes, WInv, TypeOK, Once, Request, Early, Held, Places, Closing, Runs
<1>3. Answered'
  BY LineFacts, Distinct
  DEF Connect, Goto, pipes, WInv, TypeOK, Once, Answered, Request, Early, Held, Runs, Closing
<1>4. Held'
  BY LineFacts, Distinct DEF Connect, Goto, pipes, WInv, TypeOK, Held, Request, Closing
<1>5. Steady'
  BY LineFacts, Distinct
  DEF Connect, Goto, pipes, WInv, TypeOK, Held, Steady, Alone, Request, Closing
<1> QED
  BY <1>1, <1>2, <1>3, <1>4, <1>5 DEF WInv

LEMMA StartKeeps ==
    ASSUME WireAssumption, WInv, NEW c \in Calls, Start(c) PROVE WInv'
<1>1. TypeOK'
  BY LineFacts, Distinct, SMTT(20) DEF Start, Goto, pipes, WInv, TypeOK, Places, Closing
<1>2. Once'
  BY LineFacts, Distinct
  DEF Start, Goto, pipes, WInv, TypeOK, Once, Request, Early, Held, Places, Closing, Runs
<1>3. Answered'
  BY LineFacts, Distinct
  DEF Start, Goto, pipes, WInv, TypeOK, Once, Answered, Request, Early, Held, Runs, Closing
<1>4. Held'
  BY LineFacts, Distinct DEF Start, Goto, pipes, WInv, TypeOK, Held, Request, Closing
<1>5. Steady'
  BY LineFacts, Distinct DEF Start, Goto, pipes, WInv, TypeOK, Held, Steady, Alone, Request, Closing
<1> QED
  BY <1>1, <1>2, <1>3, <1>4, <1>5 DEF WInv

LEMMA CheckKeeps ==
    ASSUME WireAssumption, WInv, NEW c \in Calls, Check(c) PROVE WInv'
<1>1. TypeOK'
  BY LineFacts, Distinct, SMTT(20) DEF Check, Goto, pipes, WInv, TypeOK, Places, Closing
<1>2. Once'
  BY LineFacts, Distinct
  DEF Check, Goto, pipes, WInv, TypeOK, Once, Request, Early, Held, Places, Closing, Runs
<1>3. Answered'
  BY LineFacts, Distinct
  DEF Check, Goto, pipes, WInv, TypeOK, Once, Answered, Request, Early, Held, Runs, Closing
<1>4. Held'
  BY LineFacts, Distinct DEF Check, Goto, pipes, WInv, TypeOK, Held, Request, Closing
<1>5. Steady'
  BY LineFacts, Distinct DEF Check, Goto, pipes, WInv, TypeOK, Held, Steady, Alone, Request, Closing
<1> QED
  BY <1>1, <1>2, <1>3, <1>4, <1>5 DEF WInv

LEMMA EnterKeeps ==
    ASSUME WireAssumption, WInv, NEW c \in Calls, Enter(c) PROVE WInv'
<1>1. TypeOK'
  BY LineFacts, Distinct, SMTT(20) DEF Enter, Goto, pipes, WInv, TypeOK, Places, Closing
<1>2. Once'
  BY LineFacts, Distinct
  DEF Enter, Goto, pipes, WInv, TypeOK, Once, Request, Early, Held, Places, Closing, Runs
<1>3. Answered'
  BY LineFacts, Distinct
  DEF Enter, Goto, pipes, WInv, TypeOK, Once, Answered, Request, Early, Held, Runs, Closing
<1>4. Held'
  BY LineFacts, Distinct DEF Enter, Goto, pipes, WInv, TypeOK, Held, Request, Closing
<1>5. Steady'
  BY LineFacts, Distinct DEF Enter, Goto, pipes, WInv, TypeOK, Held, Steady, Alone, Request, Closing
<1> QED
  BY <1>1, <1>2, <1>3, <1>4, <1>5 DEF WInv

LEMMA WriteKeeps ==
    ASSUME WireAssumption, WInv, NEW c \in Calls, Write(c) PROVE WInv'
<1> DEFINE w == Request(c)
<1>1. w \in Lines /\ w.of = c /\ w.what = "call" /\ w # None
  BY LineFacts, Distinct DEF Request
<1>2. CASE UNCHANGED pipes
  <2>1. lock' = lock /\ (pc' = [pc EXCEPT ![c] = "failed"] \/ pc' = [pc EXCEPT ![c] = "mark"])
    BY <1>1, <1>2, Appended DEF Write, Goto, Written, pipes, WInv, TypeOK, Once, Request, Early
  <2> QED
    BY <1>2, <2>1, LineFacts, Distinct
    DEF Write, pipes, WInv, TypeOK, Places, Closing, Once, Answered, Held, Steady, Alone, Request,
        Early, Runs
<1>3. CASE /\ link = "up" /\ Goto(c, "reading") /\ lock' = w /\ Written(w)
  <2>1. TypeOK'
    BY <1>1, <1>3, Appended DEF Write, Goto, Written, WInv, TypeOK, Places
  <2>2. Once'
    <3>1. \A i \in DOMAIN inbox : inbox[i] # w /\ inbox[i] \in Lines
      BY <1>1, ElementOfSeq, LenProperties DEF Write, WInv, TypeOK, Once, Early
    <3> QED
      BY <1>1, <1>3, <3>1, Appended, LineFacts
      DEF Write, Goto, Written, WInv, TypeOK, Once, Request, Early
  <2>3. Answered'
    BY <1>1, <1>3, LineFacts, Distinct
    DEF Write, Goto, Written, WInv, TypeOK, Once, Answered, Request, Early, Runs
  <2>4. Held'
    BY <1>1, <1>3, LineFacts, Distinct
    DEF Write, Goto, Written, WInv, TypeOK, Held, Request, Closing
  <2>5. Steady'
    <3> SUFFICES ASSUME ~broken, agent # "ended", \A d \in Calls : pc'[d] # "mark" PROVE Alone(c)'
      BY <1>3 DEF Write, Steady
    <3>1. \A d \in Calls : pc[d] # "mark"
      BY <1>3 DEF Write, Goto, WInv, TypeOK
    <3>2. inbox = <<>> /\ outbox = <<>> /\ readers = {}
      BY <1>1, <3>1, LineFacts, Distinct DEF Write, WInv, Steady, Alone, Request
    <3> QED
      BY <1>3, <3>2 DEF Alone, Request, Written
  <2> QED
    BY <2>1, <2>2, <2>3, <2>4, <2>5 DEF WInv
<1> QED
  BY <1>2, <1>3 DEF Write, pipes, Request

LEMMA DispatchKeeps ==
    ASSUME WireAssumption, WInv, Dispatch PROVE WInv'
<1> DEFINE w == Head(inbox)
<1>1. /\ w \in Lines /\ 1 \in DOMAIN inbox /\ w = inbox[1]
      /\ \A i \in DOMAIN inbox' : i + 1 \in DOMAIN inbox /\ inbox'[i] = inbox[i + 1] /\ i + 1 # 1
      /\ inbox' \in Seq(Lines)
  BY Shortened DEF Dispatch, WInv, TypeOK
<1>2. /\ outbox' \in Seq(Lines)
      /\ \A i \in DOMAIN outbox' : outbox'[i] = w \/ (i \in DOMAIN outbox /\ outbox'[i] = outbox[i])
  BY <1>1, Appended DEF Dispatch, WInv, TypeOK
<1>3. /\ ran' \in [Calls -> 0 .. 1]
      /\ Runs(w) => ran[w.of] = 0
      /\ \A c \in Calls : ran'[c] = IF c = w.of /\ Runs(w) THEN 1 ELSE ran[c]
  BY <1>1 DEF Dispatch, WInv, TypeOK, Once, Runs
<1>4. TypeOK'
  BY <1>1, <1>2, <1>3 DEF Dispatch, WInv, TypeOK
<1>5. Once'
  <2>1. \A c \in Calls : pc[c] \in Early => ran'[c] = 0
    BY <1>1, <1>3, LineFacts DEF WInv, Once, Runs
  <2>2. \A i \in DOMAIN inbox' : inbox'[i].what = "call" => inbox'[i] # w /\ inbox'[i] \in Lines
    BY <1>1, ElementOfSeq, LenProperties DEF WInv, Once
  <2>3. \A i \in DOMAIN inbox' : inbox'[i].what = "call" => ran'[inbox'[i].of] = 0
    BY <1>1, <1>3, <2>2, LineFacts DEF WInv, Once, Runs
  <2> QED
    BY <1>1, <2>1, <2>3 DEF Dispatch, WInv, Once, Request
<1>6. Answered'
  BY <1>1, <1>2, <1>3, ElementOfSeq, LenProperties, LineFacts
  DEF Dispatch, WInv, TypeOK, Answered, Request, Runs
<1>7. Held'
  BY DEF Dispatch, WInv, TypeOK, Held, Request, Closing
<1>8. Steady'
  <2> SUFFICES ASSUME ~broken, agent' # "ended", \A d \in Calls : pc[d] # "mark"
               PROVE  \E c \in Calls : Alone(c)'
    BY DEF Dispatch, Steady, Alone, Request
  <2>1. PICK c \in Calls :
             /\ lock = Request(c) /\ inbox = <<Request(c)>>
             /\ outbox = <<>> /\ readers = {Request(c)}
    BY DEF Dispatch, WInv, Steady, Alone
  <2>2. inbox' = <<>> /\ outbox' = <<Request(c)>>
    BY <2>1 DEF Dispatch
  <2> QED
    BY <2>1, <2>2 DEF Dispatch, Alone, Request
<1> QED
  BY <1>4, <1>5, <1>6, <1>7, <1>8 DEF WInv

LEMMA AgentEndsKeeps ==
    ASSUME WireAssumption, WInv, AgentEnds PROVE WInv'
<1>1. TypeOK'
  BY LineFacts, Distinct, SMTT(20) DEF AgentEnds, Goto, pipes, WInv, TypeOK, Places, Closing
<1>2. Once'
  BY LineFacts, Distinct
  DEF AgentEnds, Goto, pipes, WInv, TypeOK, Once, Request, Early, Held, Places, Closing, Runs
<1>3. Answered'
  BY LineFacts, Distinct
  DEF AgentEnds, Goto, pipes, WInv, TypeOK, Once, Answered, Request, Early, Held, Runs, Closing
<1>4. Held'
  BY LineFacts, Distinct DEF AgentEnds, Goto, pipes, WInv, TypeOK, Held, Request, Closing
<1>5. Steady'
  BY LineFacts, Distinct
  DEF AgentEnds, Goto, pipes, WInv, TypeOK, Held, Steady, Alone, Request, Closing
<1> QED
  BY <1>1, <1>2, <1>3, <1>4, <1>5 DEF WInv

LEMMA ReadKeeps ==
    ASSUME WireAssumption, WInv, Read PROVE WInv'
<1>1. TypeOK'
  BY LineFacts, Distinct, SMTT(20) DEF Read, Goto, pipes, Delivered, WInv, TypeOK, Places, Closing
<1>2. Once'
  BY LineFacts, Distinct
  DEF Read, Goto, pipes, Delivered, WInv, TypeOK, Once, Request, Early, Held, Places, Closing,
      Runs
<1>3. Answered'
  BY LineFacts, Distinct
  DEF Read, Goto, pipes, Delivered, WInv, TypeOK, Once, Answered, Request, Early, Held, Runs,
      Closing
<1>4. Held'
  BY LineFacts, Distinct DEF Read, Goto, pipes, Delivered, WInv, TypeOK, Held, Request, Closing
<1>5. Steady'
  BY LineFacts, Distinct
  DEF Read, Goto, pipes, Delivered, WInv, TypeOK, Held, Steady, Alone, Request, Closing, Once,
      Answered
<1> QED
  BY <1>1, <1>2, <1>3, <1>4, <1>5 DEF WInv

LEMMA ReturnKeeps ==
    ASSUME WireAssumption, WInv, NEW c \in Calls, Return(c) PROVE WInv'
<1>1. TypeOK'
  BY LineFacts, Distinct, SMTT(20) DEF Return, Goto, pipes, WInv, TypeOK, Places, Closing
<1>2. Once'
  BY LineFacts, Distinct
  DEF Return, Goto, pipes, WInv, TypeOK, Once, Request, Early, Held, Places, Closing, Runs
<1>3. Answered'
  BY LineFacts, Distinct
  DEF Return, Goto, pipes, WInv, TypeOK, Once, Answered, Request, Early, Held, Runs, Closing
<1>4. Held'
  BY LineFacts, Distinct DEF Return, Goto, pipes, WInv, TypeOK, Held, Request, Closing
<1>5. Steady'
  BY LineFacts, Distinct
  DEF Return, Goto, pipes, WInv, TypeOK, Held, Steady, Alone, Request, Closing, Once, Answered
<1> QED
  BY <1>1, <1>2, <1>3, <1>4, <1>5 DEF WInv

LEMMA TimeOutKeeps ==
    ASSUME WireAssumption, WInv, NEW c \in Calls, TimeOut(c) PROVE WInv'
<1>1. TypeOK'
  BY LineFacts, Distinct, SMTT(20) DEF TimeOut, Goto, pipes, WInv, TypeOK, Places, Closing
<1>2. Once'
  BY LineFacts, Distinct
  DEF TimeOut, Goto, pipes, WInv, TypeOK, Once, Request, Early, Held, Places, Closing, Runs
<1>3. Answered'
  BY LineFacts, Distinct
  DEF TimeOut, Goto, pipes, WInv, TypeOK, Once, Answered, Request, Early, Held, Runs, Closing
<1>4. Held'
  BY LineFacts, Distinct DEF TimeOut, Goto, pipes, WInv, TypeOK, Held, Request, Closing
<1>5. Steady'
  BY LineFacts, Distinct
  DEF TimeOut, Goto, pipes, WInv, TypeOK, Held, Steady, Alone, Request, Closing
<1> QED
  BY <1>1, <1>2, <1>3, <1>4, <1>5 DEF WInv

LEMMA MarkBrokenKeeps ==
    ASSUME WireAssumption, WInv, NEW c \in Calls, MarkBroken(c) PROVE WInv'
<1>1. TypeOK'
  BY LineFacts, Distinct, SMTT(20) DEF MarkBroken, Goto, pipes, WInv, TypeOK, Places, Closing
<1>2. Once'
  BY LineFacts, Distinct
  DEF MarkBroken, Goto, pipes, WInv, TypeOK, Once, Request, Early, Held, Places, Closing, Runs
<1>3. Answered'
  BY LineFacts, Distinct
  DEF MarkBroken, Goto, pipes, WInv, TypeOK, Once, Answered, Request, Early, Held, Runs, Closing
<1>4. Held'
  BY LineFacts, Distinct DEF MarkBroken, Goto, pipes, WInv, TypeOK, Held, Request, Closing
<1>5. Steady'
  BY LineFacts, Distinct
  DEF MarkBroken, Goto, pipes, WInv, TypeOK, Held, Steady, Alone, Request, Closing
<1> QED
  BY <1>1, <1>2, <1>3, <1>4, <1>5 DEF WInv

LEMMA CloseAskKeeps ==
    ASSUME WireAssumption, WInv, NEW c \in Calls, CloseAsk(c) PROVE WInv'
<1> DEFINE w == Line(c, pc[c])
<1>1. w \in Lines /\ w.of = c /\ w.what \in Closing /\ w # None /\ broken
  BY LineFacts, Distinct DEF CloseAsk, WInv, Held, Closing
<1>2. CASE UNCHANGED <<lock, pipes>>
  <2>1. pc' = [pc EXCEPT ![c] = "bye"] \/ pc' = [pc EXCEPT ![c] = "ended"]
    BY <1>1, <1>2 DEF CloseAsk, Goto
  <2> QED
    BY <1>1, <1>2, <2>1, LineFacts, Distinct
    DEF CloseAsk, pipes, WInv, TypeOK, Places, Closing, Once, Answered, Held, Steady, Alone,
        Request, Early, Runs
<1>3. CASE lock' = w /\ Written(w) /\ UNCHANGED pc
  <2>1. TypeOK'
    BY <1>1, <1>3, Appended DEF CloseAsk, Written, WInv, TypeOK
  <2>2. Once'
    BY <1>1, <1>3, Appended, LineFacts
    DEF CloseAsk, Written, WInv, TypeOK, Once, Request, Early, Closing
  <2>3. Answered'
    BY <1>1, <1>3, LineFacts, Distinct
    DEF CloseAsk, Written, WInv, TypeOK, Once, Answered, Request, Closing, Runs
  <2>4. Held'
    BY <1>1, <1>3, LineFacts, Distinct DEF CloseAsk, Written, WInv, TypeOK, Held, Request, Closing
  <2>5. Steady'
    BY <1>1 DEF CloseAsk, Steady
  <2> QED
    BY <2>1, <2>2, <2>3, <2>4, <2>5 DEF WInv
<1> QED
  BY <1>2, <1>3 DEF CloseAsk

LEMMA CloseGoesOnKeeps ==
    ASSUME WireAssumption, WInv, NEW c \in Calls, CloseGoesOn(c) PROVE WInv'
<1>1. TypeOK'
  BY LineFacts, Distinct, SMTT(20) DEF CloseGoesOn, Goto, pipes, WInv, TypeOK, Places, Closing
<1>2. Once'
  BY LineFacts, Distinct
  DEF CloseGoesOn, Goto, pipes, WInv, TypeOK, Once, Request, Early, Held, Places, Closing, Runs
<1>3. Answered'
  BY LineFacts, Distinct
  DEF CloseGoesOn, Goto, pipes, WInv, TypeOK, Once, Answered, Request, Early, Held, Runs, Closing
<1>4. Held'
  BY LineFacts, Distinct DEF CloseGoesOn, Goto, pipes, WInv, TypeOK, Held, Request, Closing
<1>5. Steady'
  BY LineFacts, Distinct
  DEF CloseGoesOn, Goto, pipes, WInv, TypeOK, Held, Steady, Alone, Request, Closing
<1> QED
  BY <1>1, <1>2, <1>3, <1>4, <1>5 DEF WInv

LEMMA ShutKeeps ==
    ASSUME WireAssumption, WInv, NEW c \in Calls, Shut(c) PROVE WInv'
<1>1. TypeOK'
  BY LineFacts, Distinct, SMTT(20) DEF Shut, Goto, pipes, WInv, TypeOK, Places, Closing
<1>2. Once'
  BY LineFacts, Distinct
  DEF Shut, Goto, pipes, WInv, TypeOK, Once, Request, Early, Held, Places, Closing, Runs
<1>3. Answered'
  BY LineFacts, Distinct
  DEF Shut, Goto, pipes, WInv, TypeOK, Once, Answered, Request, Early, Held, Runs, Closing
<1>4. Held'
  BY LineFacts, Distinct DEF Shut, Goto, pipes, WInv, TypeOK, Held, Request, Closing
<1>5. Steady'
  BY LineFacts, Distinct DEF Shut, Goto, pipes, WInv, TypeOK, Held, Steady, Alone, Request, Closing
<1> QED
  BY <1>1, <1>2, <1>3, <1>4, <1>5 DEF WInv

-----------------------------------------------------------------------------
LEMMA InitInv == ASSUME WireAssumption, Init PROVE WInv
<1>1. TypeOK
  <2>1. inbox \in Seq(Lines) /\ outbox \in Seq(Lines)
    BY EmptySeq DEF Init
  <2>2. pc \in [Calls -> Places] /\ ran \in [Calls -> 0 .. 1]
    BY DEF Init, Places
  <2> QED
    BY <2>1, <2>2 DEF Init, TypeOK
<1>2. Once /\ Answered
  BY Distinct DEF Init, Once, Answered, Early
<1>3. Held /\ Steady
  BY LineFacts, Distinct DEF Init, Held, Steady, Request, Closing
<1> QED
  BY <1>1, <1>2, <1>3 DEF WInv

LEMMA NextInv == ASSUME WireAssumption, WInv, [Next]_vars PROVE WInv'
<1>1. ASSUME NEW c \in Calls, Call(c) PROVE WInv'
  BY <1>1, StartKeeps, CheckKeeps, EnterKeeps, WriteKeeps, ReturnKeeps, TimeOutKeeps,
     MarkBrokenKeeps, CloseAskKeeps, CloseGoesOnKeeps, ShutKeeps DEF Call
<1>2. CASE UNCHANGED vars
  <2> USE <1>2 DEF vars, pipes
  <2>1. TypeOK' /\ Once'
    BY DEF WInv, TypeOK, Once, Request
  <2>2. Answered' /\ Held'
    BY DEF WInv, Answered, Held, Request, Runs
  <2>3. Steady'
    BY DEF WInv, Steady, Alone, Request
  <2> QED
    BY <2>1, <2>2, <2>3 DEF WInv
<1> QED
  BY <1>1, <1>2, ConnectKeeps, DispatchKeeps, AgentEndsKeeps, ReadKeeps DEF Next

THEOREM InductiveInvariant == ASSUME WireAssumption PROVE Spec => []WInv
<1>1. Init => WInv
  BY InitInv
<1>2. WInv /\ [Next]_vars => WInv'
  BY NextInv
<1> QED
  BY <1>1, <1>2, PTL DEF Spec

(* The shared entry and the pipes under it: while nothing has failed, who  *)
(* takes the lock finds no old request, answer or reader there.            *)
THEOREM Synchronised == ASSUME WireAssumption PROVE Spec => [](TypeOK /\ InSync)
<1>1. WInv => TypeOK /\ InSync
  BY LineFacts, Distinct DEF WInv, Steady, Alone, InSync, Request
<1> QED
  BY <1>1, InductiveInvariant, PTL

-----------------------------------------------------------------------------
(* With one backend the id tells a call from every other.                  *)
LEMMA ById ==
    ASSUME OneBackend, NEW c \in Calls, NEW w \in Lines, w.what = "call", IdOf(w) = c.id
    PROVE  w = Request(c)
<1>1. w.of \in Calls /\ w = Line(w.of, "call")
  BY LineFacts
<1>2. w.of = c
  BY <1>1 DEF IdOf, OneBackend, Calls
<1> QED
  BY <1>1, <1>2 DEF Request

LEMMA NextOwn ==
    ASSUME WireAssumption, OneBackend, WInv, Own, [Next]_vars
    PROVE  Own'
<1> SUFFICES ASSUME NEW c \in Calls, pc'[c] = "ok"
             PROVE  got'[c] = Request(c) /\ ran'[c] = 1 /\ Request(c) \notin readers'
  BY DEF Own, Request
<1>1. CASE pc[c] # "ok"
  <2>1. Return(c) /\ got[c] # Garbage /\ IdOf(got[c]) = c.id /\ Runs(got[c])
    BY <1>1 DEF Next, Call, Connect, Start, Check, Enter, Write, Dispatch, AgentEnds, Read, Return,
                TimeOut, MarkBroken, CloseAsk, CloseGoesOn, Shut, Goto, vars, WInv, TypeOK, Closing
  <2>2. got[c] \in Lines
    BY <2>1 DEF Return, WInv, TypeOK
  <2>3. got[c] = Request(c)
    BY <2>1, <2>2, ById DEF Runs
  <2>4. ran[c] = 1 /\ Request(c) \notin readers
    BY <2>1, <2>2, <2>3, LineFacts DEF WInv, Answered, Request
  <2> QED
    BY <2>1, <2>3, <2>4 DEF Return, pipes
<1>2. CASE pc[c] = "ok"
  <2>1. got[c] = Request(c) /\ ran[c] = 1 /\ Request(c) \notin readers
    BY <1>2 DEF Own
  <2>2. \A d \in Calls : Request(c) = Request(d) => d = c
    BY LineFacts DEF Request
  <2>3. CASE Read
    BY <2>1, <2>3, LineFacts DEF Read, Delivered, Request, WInv, TypeOK
  <2>4. CASE Dispatch
    <3>1. Runs(Head(inbox)) => ran[Head(inbox).of] = 0
      BY <2>4, Shortened DEF Dispatch, WInv, TypeOK, Once, Runs
    <3> QED
      BY <2>1, <2>4, <3>1 DEF Dispatch
  <2>5. ASSUME NEW d \in Calls, Call(d) PROVE UNCHANGED <<got, ran>> /\ Request(c) \notin readers'
    <3>1. UNCHANGED <<got, ran>>
      BY <2>5 DEF Call, Start, Check, Enter, Write, Return, TimeOut, MarkBroken, CloseAsk,
                  CloseGoesOn, Shut, Written, pipes
    <3>2. CASE Write(d)
      BY <1>2, <2>1, <2>2, <3>2 DEF Write, Written, pipes, Request
    <3>3. CASE CloseAsk(d)
      BY <2>1, <3>3, LineFacts DEF CloseAsk, Written, pipes, Request, Closing
    <3> QED
      BY <2>1, <2>5, <3>1, <3>2, <3>3
      DEF Call, Start, Check, Enter, Return, TimeOut, MarkBroken, CloseGoesOn, Shut, pipes
  <2> QED
    BY <2>1, <2>3, <2>4, <2>5 DEF Next, Connect, AgentEnds, vars, pipes
<1> QED
  BY <1>1, <1>2

THEOREM OwnInvariant == ASSUME WireAssumption, OneBackend PROVE Spec => [](WInv /\ Own)
<1>1. Init => Own
  BY DEF Init, Own
<1>2. WInv /\ Own /\ [Next]_vars => Own'
  BY NextOwn
<1> QED
  BY <1>1, <1>2, InductiveInvariant, PTL DEF Spec

(* RemoteBackend._call blocks "for exactly the matching response line", as *)
(* long as the transport has one backend only.                             *)
THEOREM OwnAnswers == ASSUME WireAssumption, OneBackend PROVE Spec => []OwnAnswer
<1>1. Own => OwnAnswer
  BY DEF Own, OwnAnswer, Request
<1> QED
  BY <1>1, OwnInvariant, PTL

(* Both together are what the run of MCTransport checks of one backend.    *)
THEOREM AnswersPaired == ASSUME WireAssumption, OneBackend PROVE Spec => []Paired
BY Synchronised, OwnAnswers, PTL DEF Paired

-----------------------------------------------------------------------------
LEMMA InitRefines == ASSUME Init PROVE Promise!Init
BY DEF Init, Promise!Init, Status

(* Until it returns a call is open, wherever it stands.                    *)
LEMMA OpenStep ==
    ASSUME WInv, NEW c \in Calls, NEW place \in Places \ {"new", "ok", "failed"},
           pc[c] \notin {"new", "ok", "failed"}, Goto(c, place)
    PROVE  \A d \in Calls : Status(d)' = Status(d)
BY DEF WInv, TypeOK, Goto, Status

(* What a failure says of the operation is nothing.                        *)
LEMMA FailStep ==
    ASSUME WInv, NEW c \in Calls, pc[c] \notin {"new", "ok", "failed"}, Goto(c, "failed"),
           UNCHANGED ran
    PROVE  Promise!Fail(c)
BY DEF WInv, TypeOK, Goto, Status, Promise!Fail

LEMMA NextRefines ==
    ASSUME WireAssumption, OneBackend, WInv, Own', [Next]_vars
    PROVE  [Promise!Next]_(Promise!vars)
<1> DEFINE Same == \A d \in Calls : Status(d)' = Status(d)
<1>1. ASSUME Same, UNCHANGED ran PROVE UNCHANGED Promise!vars
  BY <1>1 DEF Promise!vars
<1>2. CASE Dispatch
  <2>1. Same
    BY <1>2 DEF Dispatch, Status
  <2> DEFINE w == Head(inbox)
  <2>2. w \in Lines /\ 1 \in DOMAIN inbox /\ w = inbox[1] /\ w.of \in Calls
    BY <1>2, Shortened, LineFacts DEF Dispatch, WInv, TypeOK
  <2>3. CASE ~Runs(w)
    <3>1. ran' = ran
      BY <1>2, <2>3 DEF Dispatch, WInv, TypeOK
    <3> QED
      BY <1>1, <2>1, <3>1
  <2>4. CASE Runs(w)
    <3>1. ran[w.of] = 0 /\ Status(w.of) # "new"
      BY <2>2, <2>4 DEF WInv, Once, Runs, Early, Status
    <3>2. ran' = [c \in Calls |-> IF c = w.of THEN 1 ELSE ran[c]]
      BY <1>2, <2>4, <3>1 DEF Dispatch
    <3>3. ran' = [ran EXCEPT ![w.of] = 1]
      BY <3>2 DEF WInv, TypeOK
    <3>4. Promise!Run(w.of)
      BY <2>1, <2>2, <3>1, <3>3 DEF Promise!Run
    <3> QED
      BY <2>2, <3>4 DEF Promise!Next
  <2> QED
    BY <2>3, <2>4
<1>3. ASSUME NEW c \in Calls, Call(c) PROVE Promise!Next \/ (Same /\ UNCHANGED ran)
  <2>1. CASE Start(c)
    BY <2>1 DEF Start, Goto, Status, WInv, TypeOK, Promise!Next, Promise!Open
  <2>2. CASE Return(c)
    <3>1. CASE Goto(c, "failed")
      BY <2>2, <3>1, FailStep DEF Return, Promise!Next
    <3>2. CASE Goto(c, "ok")
      <4>1. ran[c] = 1
        BY <2>2, <3>2 DEF Return, Goto, Own, WInv, TypeOK
      <4>2. Promise!Succeed(c)
        BY <2>2, <3>2, <4>1 DEF Return, Goto, Status, WInv, TypeOK, Promise!Succeed
      <4> QED
        BY <4>2 DEF Promise!Next
    <3> QED
      BY <2>2, <3>1, <3>2 DEF Return
  <2>3. CASE ~Start(c) /\ ~Return(c)
    <3>1. UNCHANGED ran /\ pc[c] \notin {"new", "ok", "failed"}
      BY <1>3, <2>3 DEF Call, Check, Enter, Write, TimeOut, MarkBroken, CloseAsk, CloseGoesOn, Shut,
                        Closing
    <3>2. \/ Goto(c, "failed") \/ UNCHANGED pc
          \/ \E place \in Places \ {"new", "ok", "failed"} : Goto(c, place)
      BY <1>3, <2>3 DEF Call, Check, Enter, Write, TimeOut, MarkBroken, CloseAsk, CloseGoesOn, Shut,
                        Closing, Places
    <3>3. CASE UNCHANGED pc
      BY <3>1, <3>3 DEF Status
    <3> QED
      BY <3>1, <3>2, <3>3, FailStep, OpenStep DEF Promise!Next
  <2> QED
    BY <2>1, <2>2, <2>3
<1>4. CASE Connect \/ AgentEnds \/ Read \/ UNCHANGED vars
  <2>1. Same /\ UNCHANGED ran
    BY <1>4 DEF Connect, AgentEnds, Read, vars, Status
  <2> QED
    BY <1>1, <2>1
<1> QED
  BY <1>1, <1>2, <1>3, <1>4 DEF Next

(* What the caller of a remote operation may rely on: it runs at most once *)
(* and a success is a success, whatever is lost, late or given up.         *)
THEOREM RefinesRemoteCall == ASSUME WireAssumption, OneBackend PROVE Spec => AtMostOnce
<1>1. Init => Promise!Init
  BY InitRefines
<1>2. WInv /\ Own' /\ [Next]_vars => [Promise!Next]_(Promise!vars)
  BY NextRefines
<1> QED
  BY <1>1, <1>2, OwnInvariant, PTL DEF Spec, AtMostOnce, Promise!Spec
=============================================================================
