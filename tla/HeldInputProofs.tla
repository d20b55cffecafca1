-------------------------- MODULE HeldInputProofs --------------------------
(***************************************************************************)
(* HeldInput for every set of callers and every bound: type correctness,   *)
(* the ledger's custody of a held button, one mouse_up per press where the *)
(* release goes through the ledger, and nothing stranded without signals.  *)
(***************************************************************************)
EXTENDS HeldInput, TLAPS

(* A press is on its way into the ledger.                                  *)
Entering == {"down", "pressed", "hold", "rescue"}

(* What the callers' places say of their boxes.                            *)
Boxes ==
    \A c \in Callers :
        /\ pc[c] \in Entering => box[c] = ops[c]
        /\ pc[c] \in Entering \cup {"up", "confirm"} => box[c] # 0
        /\ pc[c] \in {"up", "confirm", "rescue"} => Windows

(* A press on its way in has left no trace yet.                            *)
Numbers ==
    /\ \A c \in Callers : box[c] <= ops[c] /\ pending[c] <= ops[c]
    /\ \A p \in confirmed \cup upped : p[2] <= ops[p[1]]
    /\ held # None => held[2] <= ops[held[1]]

Fresh ==
    \A c \in Callers : pc[c] \in Entering =>
        <<c, box[c]>> \notin confirmed \cup upped \cup {held}

(* One caller at a time is inside the lock, and then there is an entry.    *)
Exclusive ==
    /\ \A c \in Callers : pc[c] \in InLedger => held # None
    /\ \A c, d \in Callers : pc[c] \in InLedger /\ pc[d] \in InLedger => c = d

Shape == Boxes /\ Numbers /\ Fresh /\ Exclusive
-----------------------------------------------------------------------------
(* Why a button that is down need not be the ledger's entry: a mouse_up    *)
(* raised, or the press is not registered yet.                             *)
Excused == failedUp \/ \E c \in Callers : pc[c] \in {"pressed", "hold", "rescue"}

(* An explicit up is confirmed only while its press is not down any more.  *)
Settled ==
    /\ held # None /\ held \in confirmed /\ down => Excused
    /\ \A c \in Callers : pc[c] = "confirm" /\ held = <<c, box[c]>> /\ down => Excused

Guarded ==
    ~stopped =>
        /\ Settled
        /\ down => Excused \/ (held # None /\ (armed \/ fired > 0))

Once == ~Windows => twice = {} /\ held \notin upped

Clean ==
    ~Local /\ ~Signals =>
        /\ \A c \in Callers : stopped <=> pc[c] = "exited"
        /\ stopped /\ down => failedUp
-----------------------------------------------------------------------------
(* Type correctness.                                                       *)

LEMMA InitTypeOK == Init => TypeOK
<1> SUFFICES ASSUME Init PROVE TypeOK
    OBVIOUS
<1>1. 0 \in 0..MaxOps /\ 0 \in 0..MaxFail /\ fired \in Nat
      BY LimitAssumption DEF Init
<1>2. pc \in [Callers -> Places] /\ struck \in Places \cup {"none"}
      BY DEF Init, Places
<1>3. down \in BOOLEAN /\ armed \in BOOLEAN /\ stopped \in BOOLEAN /\ failedUp \in BOOLEAN
          /\ talk \in BOOLEAN
      BY DEF Init
<1> QED
    BY <1>1, <1>2, <1>3 DEF Init, TypeOK

LEMMA MouseUpType ==
    ASSUME TypeOK, NEW P, P \subseteq Presses, MouseUp(P) \/ MouseUpRaises
    PROVE  /\ down' \in BOOLEAN
           /\ fails' \in 0..MaxFail
           /\ failedUp' \in BOOLEAN
           /\ upped' \subseteq Presses
           /\ twice' \subseteq Presses
<1>1. down' \in BOOLEAN /\ failedUp' \in BOOLEAN
      BY Zenon DEF TypeOK, MouseUp, MouseUpRaises
<1>2. fails' \in 0..MaxFail
  <2>1. fails' = fails \/ (fails < MaxFail /\ fails' = fails + 1)
        BY Zenon DEF MouseUp, MouseUpRaises
  <2>2. fails \in 0..MaxFail
        BY DEF TypeOK
  <2> QED
      BY <2>1, <2>2, LimitAssumption
<1>3. upped' \subseteq Presses /\ twice' \subseteq Presses
  <2>1. upped' \subseteq upped \cup P /\ twice' \subseteq twice \cup P
        BY DEF MouseUp, MouseUpRaises
  <2> QED
      BY <2>1 DEF TypeOK
<1> QED
    BY <1>1, <1>2, <1>3

LEMMA ReleaseFnType ==
    ASSUME TypeOK, NEW p \in Presses, ReleaseFn(p)
    PROVE  /\ down' \in BOOLEAN
           /\ fails' \in 0..MaxFail
           /\ failedUp' \in BOOLEAN
           /\ upped' \subseteq Presses
           /\ twice' \subseteq Presses
           /\ held' \in {None, p}
           /\ pending' \in [Callers -> 0..MaxOps]
           /\ \A c \in Callers : pending'[c] \in {0, pending[c]}
<1>1. p[1] \in Callers
      BY DEF Presses
<1>2. CASE MouseUp({p}) \/ MouseUpRaises
  <2>1. {p} \subseteq Presses
        OBVIOUS
  <2>2. pending' = pending \/ pending' = [pending EXCEPT ![p[1]] = 0]
        BY DEF ReleaseFn, BoxPopped
  <2>3. held' \in {None, p}
        BY DEF ReleaseFn
  <2> QED
      BY <1>1, <1>2, <2>1, <2>2, <2>3, MouseUpType, LimitAssumption DEF TypeOK
<1>3. CASE UNCHANGED hand
  <2>1. pending' = pending \/ pending' = [pending EXCEPT ![p[1]] = 0]
        BY DEF ReleaseFn, BoxPopped
  <2>2. held' \in {None, p}
        BY DEF ReleaseFn
  <2> QED
      BY <1>1, <1>3, <2>1, <2>2, LimitAssumption DEF TypeOK, hand
<1> QED
    BY <1>2, <1>3 DEF ReleaseFn

LEMMA GotoType ==
    ASSUME TypeOK, NEW c \in Callers, NEW place \in Places, Goto(c, place)
    PROVE  pc' \in [Callers -> Places]
BY DEF TypeOK, Goto

LEMMA AskType ==
    ASSUME TypeOK, NEW c \in Callers, Ask(c)
    PROVE  ops' \in [Callers -> 0..MaxOps] /\ talk' \in BOOLEAN /\ ops'[c] \in 1..MaxOps
BY LimitAssumption DEF TypeOK, Ask

LEMMA NextTypeOK == TypeOK /\ Shape /\ [Next]_vars => TypeOK'
<1> SUFFICES ASSUME TypeOK, Shape, [Next]_vars PROVE TypeOK'
    OBVIOUS
<1> USE LimitAssumption DEF ledger, hand
<1>p. ASSUME NEW place \in {"idle", "down", "pressed", "hold", "rescue", "up", "confirm",
                            "direct", "release", "stop", "exited", "fn", "fnall", "fnstop"}
      PROVE  place \in Places
      BY <1>p DEF Places, InLedger
<1>b. \A c \in Callers : pc[c] \in Entering \cup {"up", "confirm"} => <<c, box[c]>> \in Presses
      BY DEF Shape, Boxes, TypeOK, Presses
<1>h. \A c \in Callers : pc[c] \in InLedger => held \in Presses
      BY DEF Shape, Exclusive, TypeOK
<1>1. ASSUME NEW c \in Callers, DownStart(c) PROVE TypeOK'
  <2>1. Goto(c, "down") /\ Ask(c)
        BY <1>1 DEF DownStart
  <2>2. pc' \in [Callers -> Places] /\ ops' \in [Callers -> 0..MaxOps]
            /\ talk' \in BOOLEAN /\ ops'[c] \in 1..MaxOps
        BY <1>p, <2>1, GotoType, AskType
  <2> QED
      BY <1>1, <2>2 DEF DownStart, TypeOK
<1>2. ASSUME NEW c \in Callers, Press(c) PROVE TypeOK'
      BY <1>2, <1>p, GotoType DEF Press, TypeOK
<1>3. ASSUME NEW c \in Callers, PressRaises(c) PROVE TypeOK'
  <2>1. Goto(c, "rescue") \/ Goto(c, "idle")
        BY <1>3 DEF PressRaises
  <2>2. pc' \in [Callers -> Places]
        BY <1>p, <2>1, GotoType
  <2>3. down' \in BOOLEAN
        BY <1>3, Zenon DEF PressRaises, TypeOK
  <2>4. pending' = pending \/ pending' = [pending EXCEPT ![c] = 0]
        BY <1>3 DEF PressRaises, BoxPopped
  <2>5. UNCHANGED <<ledger, fails, failedUp, upped, twice, box, fired, confirmed, ops, talk,
                    struck>>
        BY <1>3 DEF PressRaises
  <2> QED
      BY <2>2, <2>3, <2>4, <2>5 DEF TypeOK
<1>4. ASSUME NEW c \in Callers, Pressed(c) PROVE TypeOK'
      BY <1>4, <1>p, GotoType DEF Pressed, TypeOK
<1>5. ASSUME NEW c \in Callers, Hold(c) PROVE TypeOK'
  <2>1. <<c, box[c]>> \in Presses
        BY <1>5, <1>b DEF Hold, Entering
  <2>2. pc' \in [Callers -> Places]
        BY <1>5, <1>p, GotoType DEF Hold
  <2> QED
      BY <1>5, <2>1, <2>2 DEF Hold, Register, ResetDeadman, TypeOK
<1>6. ASSUME NEW c \in Callers, Rescue(c) PROVE TypeOK'
  <2>1. <<c, box[c]>> \in Presses
        BY <1>6, <1>b DEF Rescue, Entering
  <2>2. Goto(c, "stop") \/ Goto(c, "release")
        BY <1>6 DEF Rescue
  <2>3. pc' \in [Callers -> Places]
        BY <1>p, <2>2, GotoType
  <2>4. CASE stopped
        BY <1>6, <2>1, <2>3, <2>4, ReleaseFnType DEF Rescue, TypeOK
  <2>5. CASE ~stopped
        BY <1>6, <2>1, <2>3, <2>5 DEF Rescue, Register, ResetDeadman, TypeOK
  <2> QED
      BY <2>4, <2>5 DEF TypeOK
<1>7. ASSUME NEW c \in Callers, UpStart(c) PROVE TypeOK'
  <2>1. Ask(c) /\ (Goto(c, "direct") \/ Goto(c, "up") \/ Goto(c, "release"))
        BY <1>7 DEF UpStart
  <2>2. pc' \in [Callers -> Places] /\ ops' \in [Callers -> 0..MaxOps] /\ talk' \in BOOLEAN
        BY <1>p, <2>1, GotoType, AskType
  <2> QED
      BY <1>7, <2>2 DEF UpStart, TypeOK
<1>8. ASSUME NEW c \in Callers, Direct(c) PROVE TypeOK'
  <2>1. {} \subseteq Presses
        OBVIOUS
  <2> QED
      BY <1>8, <1>p, <2>1, GotoType, MouseUpType DEF Direct, TypeOK
<1>9. ASSUME NEW c \in Callers, Up(c) PROVE TypeOK'
  <2>1. {<<c, box[c]>>} \subseteq Presses
        BY <1>9, <1>b DEF Up
  <2>2. Goto(c, "confirm") \/ Goto(c, "release")
        BY <1>9 DEF Up
  <2>3. pc' \in [Callers -> Places]
        BY <1>p, <2>2, GotoType
  <2>4. MouseUp({<<c, box[c]>>}) \/ MouseUpRaises
        BY <1>9 DEF Up
  <2> QED
      BY <1>9, <2>1, <2>3, <2>4, MouseUpType DEF Up, TypeOK
<1>10. ASSUME NEW c \in Callers, Confirm(c) PROVE TypeOK'
  <2>1. <<c, box[c]>> \in Presses
        BY <1>10, <1>b DEF Confirm
  <2> QED
      BY <1>10, <1>p, <2>1, GotoType DEF Confirm, TypeOK
<1>11. ASSUME NEW c \in Callers, Release(c) PROVE TypeOK'
      BY <1>11, <1>p, GotoType DEF Release, TypeOK
<1>12. ASSUME NEW c \in Callers, ReleaseAll(c) PROVE TypeOK'
      BY <1>12, <1>p, GotoType, AskType DEF ReleaseAll, TypeOK
<1>13. ASSUME NEW c \in Callers, Other(c) PROVE TypeOK'
      BY <1>13, AskType DEF Other, TypeOK
<1>14. ASSUME NEW c \in Callers, InCallback(c) PROVE TypeOK'
  <2>1. held \in Presses /\ ReleaseFn(held)
        BY <1>14, <1>h DEF InCallback, InLedger
  <2> QED
      BY <1>14, <1>p, <2>1, GotoType, ReleaseFnType DEF InCallback, ResetDeadman, TypeOK
<1>15. ASSUME NEW c \in Callers, EndOfInput(c) \/ Close(c) PROVE TypeOK'
      BY <1>15, <1>p, GotoType DEF EndOfInput, Close, TypeOK
<1>16. ASSUME NEW c \in Callers, Stop(c) PROVE TypeOK'
      BY <1>16, <1>p, GotoType DEF Stop, TypeOK
<1>17. ASSUME NEW c \in Callers, StopCallback(c) PROVE TypeOK'
  <2>1. held \in Presses /\ ReleaseFn(held)
        BY <1>17, <1>h DEF StopCallback, InLedger
  <2> QED
      BY <1>17, <1>p, <2>1, GotoType, ReleaseFnType DEF StopCallback, TypeOK
<1>r. ASSUME ReleaseHeld
      PROVE  /\ held' \in Presses \cup {None}
             /\ pending' \in [Callers -> 0..MaxOps]
             /\ down' \in BOOLEAN
             /\ fails' \in 0..MaxFail
             /\ failedUp' \in BOOLEAN
             /\ upped' \subseteq Presses
             /\ twice' \subseteq Presses
  <2>1. CASE held = None
        BY <1>r, <2>1 DEF ReleaseHeld, TypeOK
  <2>2. CASE held # None
    <3>1. held \in Presses /\ ReleaseFn(held)
          BY <1>r, <2>2 DEF ReleaseHeld, TypeOK
    <3> QED
        BY <3>1, ReleaseFnType
  <2> QED
      BY <2>1, <2>2
<1>18. ASSUME NEW c \in Callers, Signal(c) PROVE TypeOK'
  <2>1. Goto(c, "exited") \/ Goto(c, "rescue") \/ Goto(c, "stop")
        BY <1>18 DEF Signal
  <2>2. pc' \in [Callers -> Places] /\ pc[c] \in Places
        BY <1>p, <2>1, GotoType DEF TypeOK
  <2>3. ReleaseHeld \/ UNCHANGED <<held, pending, hand>>
        BY <1>18 DEF Signal
  <2>4. struck' \in Places \cup {"none"}
        BY <1>18, <2>2 DEF Signal
  <2>5. stopped' = TRUE /\ armed' = FALSE /\ UNCHANGED <<box, fired, confirmed, ops, talk>>
        BY <1>18 DEF Signal
  <2>6. CASE ReleaseHeld
        BY <1>r, <2>2, <2>4, <2>5, <2>6 DEF TypeOK
  <2>7. CASE UNCHANGED <<held, pending, hand>>
        BY <2>2, <2>4, <2>5, <2>7 DEF TypeOK
  <2> QED
      BY <2>3, <2>6, <2>7
<1>19. CASE Expire
  <2>0. fired' = fired + 1 /\ armed' = FALSE
        BY <1>19 DEF Expire
  <2>1. armed' \in BOOLEAN
        BY <2>0, Zenon
  <2>3. fired' \in Nat
    <3>1. fired \in Nat /\ fired' = fired + 1
          BY <2>0 DEF TypeOK
    <3> QED
        BY <3>1
  <2>2. UNCHANGED <<held, stopped, hand, pending, box, pc, confirmed, ops, talk, struck>>
        BY <1>19 DEF Expire
  <2> QED
      BY <2>1, <2>2, <2>3 DEF TypeOK
<1>20. CASE Deadman
  <2>0. ReleaseHeld /\ fired > 0 /\ fired' = fired - 1
        BY <1>20 DEF Deadman
  <2>1. ReleaseHeld /\ fired' \in Nat
    <3>1. fired \in Nat
          BY DEF TypeOK
    <3> QED
        BY <2>0, <3>1
  <2>2. UNCHANGED <<armed, stopped, box, pc, confirmed, ops, talk, struck>>
        BY <1>20 DEF Deadman
  <2> QED
      BY <1>r, <2>1, <2>2 DEF TypeOK
<1>21. CASE UNCHANGED vars
      BY <1>21 DEF vars, TypeOK
<1> QED
    BY <1>1, <1>2, <1>3, <1>4, <1>5, <1>6, <1>7, <1>8, <1>9, <1>10, <1>11, <1>12, <1>13,
       <1>14, <1>15, <1>16, <1>17, <1>18, <1>19, <1>20, <1>21 DEF Next, Step, Request
-----------------------------------------------------------------------------
(* The shape of the callers' places, boxes and press numbers.              *)

LEMMA InitShape == Init => Shape
BY LimitAssumption DEF Init, Shape, Boxes, Numbers, Fresh, Exclusive, Entering, InLedger

(* A caller moves: it numbers no press, what it adds to the records is its *)
(* own press on the way in, which it then leaves, and it enters the lock   *)
(* only when that is free.                                                 *)
LEMMA Move ==
    ASSUME TypeOK, TypeOK', Shape, NEW c \in Callers, NEW place \in Places, Goto(c, place),
           \A d \in Callers : ops[d] <= ops'[d],
           \A d \in Callers : pending'[d] <= ops'[d],
           \A d \in Callers : d # c => box'[d] = box[d] /\ ops'[d] = ops[d],
           box'[c] <= ops'[c],
           place \in Entering => pc[c] \in Entering /\ box'[c] = box[c] /\ ops'[c] = ops[c],
           place \in {"up", "confirm"} => box'[c] # 0,
           place \in {"up", "confirm", "rescue"} => Windows,
           \A q \in confirmed' \cup upped' :
                q \in confirmed \cup upped \/ (q = <<c, box[c]>> /\ place \notin Entering),
           held' = held \/ (held' = <<c, box[c]>> /\ place \notin Entering /\ LockFree),
           box'[c] = box[c] \/ held' = held,
           place \in InLedger => LockFree /\ held' # None
    PROVE  Shape'
<1> USE DEF TypeOK, Goto
<1>0. \A d \in Callers : pc'[d] = IF d = c THEN place ELSE pc[d]
      OBVIOUS
<1>n. \A d \in Callers : ops[d] \in Nat /\ ops'[d] \in Nat /\ box[d] \in Nat
      BY LimitAssumption
<1>1. Boxes'
  <2> SUFFICES ASSUME NEW d \in Callers
               PROVE  /\ pc'[d] \in Entering => box'[d] = ops'[d]
                      /\ pc'[d] \in Entering \cup {"up", "confirm"} => box'[d] # 0
                      /\ pc'[d] \in {"up", "confirm", "rescue"} => Windows
      BY DEF Boxes
  <2>1. CASE d = c
        BY <1>0, <2>1 DEF Shape, Boxes
  <2>2. CASE d # c
        BY <1>0, <2>2 DEF Shape, Boxes
  <2> QED
      BY <2>1, <2>2
<1>2. Numbers'
  <2>1. \A d \in Callers : box'[d] <= ops'[d] /\ pending'[d] <= ops'[d]
        BY <1>n DEF Shape, Numbers
  <2>2. box[c] <= ops[c] /\ ops[c] <= ops'[c]
        BY DEF Shape, Numbers
  <2>3. \A q \in Presses : q[1] \in Callers
        BY DEF Presses
  <2>4. \A q \in confirmed' \cup upped' : q[2] <= ops'[q[1]]
    <3> SUFFICES ASSUME NEW q \in confirmed' \cup upped' PROVE q[2] <= ops'[q[1]]
        OBVIOUS
    <3>0. q \in Presses
          OBVIOUS
    <3>1. CASE q = <<c, box[c]>>
          BY <1>n, <2>2, <3>1
    <3>2. CASE q \in confirmed \cup upped
      <4>1. q[2] <= ops[q[1]] /\ ops[q[1]] <= ops'[q[1]]
            BY <2>3, <3>0, <3>2 DEF Shape, Numbers
      <4>2. q[2] \in Nat /\ ops[q[1]] \in Nat /\ ops'[q[1]] \in Nat
            BY <1>n, <2>3, <3>0 DEF Presses
      <4> QED
          BY <4>1, <4>2
    <3> QED
        BY <3>1, <3>2
  <2>5. held' # None => held'[2] <= ops'[held'[1]]
    <3>1. CASE held' = <<c, box[c]>>
          BY <1>n, <2>2, <3>1
    <3>2. CASE held' = held /\ held # None
      <4>1. held \in Presses
            BY <3>2
      <4>2. held[2] <= ops[held[1]] /\ ops[held[1]] <= ops'[held[1]]
            BY <2>3, <3>2, <4>1 DEF Shape, Numbers
      <4>3. held[2] \in Nat /\ ops[held[1]] \in Nat /\ ops'[held[1]] \in Nat
            BY <1>n, <2>3, <4>1 DEF Presses
      <4> QED
          BY <3>2, <4>2, <4>3
    <3> QED
        BY <3>1, <3>2
  <2> QED
      BY <2>1, <2>4, <2>5 DEF Numbers
<1>3. Fresh'
  <2> SUFFICES ASSUME NEW d \in Callers, pc'[d] \in Entering
               PROVE  <<d, box'[d]>> \notin confirmed' \cup upped' \cup {held'}
      BY DEF Fresh
  <2>1. pc[d] \in Entering /\ box'[d] = box[d] /\ (d = c => place \in Entering)
        BY <1>0
  <2>2. <<d, box[d]>> \notin confirmed \cup upped \cup {held}
        BY <2>1 DEF Shape, Fresh
  <2>3. <<d, box[d]>> = <<c, box[c]>> => place \in Entering
        BY <2>1
  <2> QED
      BY <2>1, <2>2, <2>3
<1>4. Exclusive'
  <2>1. \A d \in Callers : pc'[d] \in InLedger => held' # None
    <3> SUFFICES ASSUME NEW d \in Callers, pc'[d] \in InLedger PROVE held' # None
        OBVIOUS
    <3>1. CASE d = c
          BY <1>0, <3>1
    <3>2. CASE d # c
      <4>1. pc[d] \in InLedger /\ ~LockFree
            BY <1>0, <3>2 DEF LockFree
      <4> QED
          BY <4>1 DEF Shape, Exclusive
    <3> QED
        BY <3>1, <3>2
  <2>2. \A d, e \in Callers : pc'[d] \in InLedger /\ pc'[e] \in InLedger => d = e
        BY <1>0 DEF Shape, Exclusive, LockFree
  <2> QED
      BY <2>1, <2>2 DEF Exclusive
<1> QED
    BY <1>1, <1>2, <1>3, <1>4 DEF Shape

(* The ledger's entry goes or stays while its press is released; the       *)
(* caller that had the lock, if any, leaves it.                            *)
LEMMA Retire ==
    ASSUME TypeOK, Shape, NEW p \in Presses, ReleaseFn(p),
           NEW c \in Callers, NEW place \in Places,
           Goto(c, place) \/ UNCHANGED pc,
           place \notin InLedger \cup {"up", "confirm"},
           place \in Entering => pc[c] \in Entering /\ p = held,
           place = "rescue" => Windows,
           UNCHANGED <<box, confirmed, ops>>,
           \A d \in Callers : pc[d] \in InLedger => d = c /\ Goto(c, place),
           p[2] <= ops[p[1]],
           p = held \/ (p = <<c, box[c]>> /\ Goto(c, place))
    PROVE  Shape'
<1> USE DEF TypeOK, Goto
<1>t. /\ held' \in {None, p}
      /\ \A d \in Callers : pending'[d] \in {0, pending[d]}
      /\ upped' \subseteq upped \cup {p}
  <2>1. upped' \subseteq upped \cup {p}
        BY DEF ReleaseFn, MouseUp, MouseUpRaises, hand
  <2> QED
      BY <2>1, ReleaseFnType
<1>1. Boxes'
      BY DEF Shape, Boxes, Entering
<1>2. Numbers'
  <2>1. \A d \in Callers : box'[d] <= ops'[d] /\ pending'[d] <= ops'[d]
        BY <1>t DEF Shape, Numbers
  <2>2. \A q \in confirmed' \cup upped' : q[2] <= ops'[q[1]]
        BY <1>t DEF Shape, Numbers
  <2>3. held' # None => held'[2] <= ops'[held'[1]]
        BY <1>t DEF Shape, Numbers
  <2> QED
      BY <2>1, <2>2, <2>3 DEF Numbers
<1>3. Fresh'
  <2> SUFFICES ASSUME NEW d \in Callers, pc'[d] \in Entering
               PROVE  <<d, box[d]>> \notin confirmed \cup upped' \cup {held'}
      BY DEF Fresh
  <2>1. pc[d] \in Entering /\ (p # held => d # c)
        BY DEF Entering
  <2>2. <<d, box[d]>> \notin confirmed \cup upped \cup {held}
        BY <2>1 DEF Shape, Fresh
  <2>3. <<d, box[d]>> # p
        BY <2>1, <2>2
  <2>4. <<d, box[d]>> # None
    <3>1. box[d] \in 1..MaxOps
          BY <2>1, LimitAssumption DEF Shape, Boxes
    <3> QED
        BY <3>1, NoneAssumption DEF Presses
  <2> QED
      BY <1>t, <2>2, <2>3, <2>4
<1>4. Exclusive'
      BY DEF Shape, Exclusive, InLedger
<1> QED
    BY <1>1, <1>2, <1>3, <1>4 DEF Shape

LEMMA NextShape == TypeOK /\ Shape /\ [Next]_vars => Shape'
<1> SUFFICES ASSUME TypeOK, Shape, [Next]_vars PROVE Shape'
    OBVIOUS
<1>t. TypeOK'
      BY NextTypeOK
<1>n. \A c \in Callers : /\ ops[c] \in Nat /\ box[c] \in Nat /\ pending[c] \in Nat
                         /\ box[c] <= ops[c] /\ pending[c] <= ops[c]
      BY LimitAssumption DEF TypeOK, Shape, Numbers
<1>a. ASSUME NEW c \in Callers, Ask(c)
      PROVE  /\ pc[c] = "idle"
             /\ ops'[c] = ops[c] + 1
             /\ \A d \in Callers : d # c => ops'[d] = ops[d]
             /\ \A d \in Callers : ops[d] <= ops'[d] /\ box[d] <= ops'[d] /\ pending[d] <= ops'[d]
      BY <1>a, <1>n DEF Ask, TypeOK
<1>p. Places = {"idle", "down", "pressed", "hold", "rescue", "up", "confirm", "direct",
               "release", "stop", "exited", "fn", "fnall", "fnstop"}
      BY DEF Places, InLedger
<1>h. held # None => held \in Presses /\ held[2] <= ops[held[1]]
      BY DEF TypeOK, Shape, Numbers
<1> USE DEF Entering, InLedger, ledger, hand
<1>1. ASSUME NEW c \in Callers, DownStart(c) PROVE Shape'
  <2>1. /\ Goto(c, "down") /\ pc[c] = "idle" /\ ops'[c] = ops[c] + 1
        /\ box' = [box EXCEPT ![c] = ops'[c]]
        /\ pending' = pending \/ pending' = [pending EXCEPT ![c] = ops'[c]]
        /\ UNCHANGED <<held, confirmed, upped>>
        BY <1>1, <1>a DEF DownStart
  <2>2. /\ \A d \in Callers : pc'[d] = IF d = c THEN "down" ELSE pc[d]
        /\ \A d \in Callers : box'[d] = IF d = c THEN ops[c] + 1 ELSE box[d]
        /\ \A d \in Callers : ops'[d] = IF d = c THEN ops[c] + 1 ELSE ops[d]
        /\ \A d \in Callers : pending'[d] = pending[d] \/ (d = c /\ pending'[d] = ops[c] + 1)
        BY <1>1, <1>a, <2>1 DEF Goto, TypeOK, DownStart
  <2>3. Boxes'
        BY <1>n, <2>2 DEF Shape, Boxes
  <2>4. Numbers'
    <3>1. \A d \in Callers : box'[d] <= ops'[d] /\ pending'[d] <= ops'[d]
          BY <1>n, <2>2
    <3>2. \A q \in Presses : q[1] \in Callers /\ q[2] \in Nat
          BY LimitAssumption DEF Presses
    <3>3. \A q \in Presses : q[2] <= ops[q[1]] => q[2] <= ops'[q[1]]
          BY <1>n, <2>2, <3>2
    <3> QED
        BY <2>1, <3>1, <3>3 DEF Shape, Numbers, TypeOK
  <2>5. Fresh'
    <3> SUFFICES ASSUME NEW d \in Callers, pc'[d] \in Entering
                 PROVE  <<d, box'[d]>> \notin confirmed \cup upped \cup {held}
        BY <2>1 DEF Fresh
    <3>1. CASE d # c
          BY <2>2, <3>1 DEF Shape, Fresh
    <3>2. CASE d = c
      <4>1. \A q \in confirmed \cup upped \cup {held} : q # None => q[2] <= ops[q[1]]
            BY DEF Shape, Numbers
      <4>2. <<c, ops[c] + 1>> # None
            BY <1>t, <1>1, <2>2, NoneAssumption, AskType DEF DownStart, Presses
      <4> QED
          BY <1>n, <2>2, <3>2, <4>1, <4>2
    <3> QED
        BY <3>1, <3>2
  <2>6. Exclusive'
        BY <2>1, <2>2 DEF Shape, Exclusive
  <2> QED
      BY <2>3, <2>4, <2>5, <2>6 DEF Shape
<1>2. ASSUME NEW c \in Callers, Press(c) \/ Pressed(c) PROVE Shape'
  <2>1. PICK place \in {"pressed", "hold"} : Goto(c, place)
        BY <1>2 DEF Press, Pressed
  <2>2. \A d \in Callers : pending'[d] <= ops[d]
        BY <1>2, <1>n DEF Press, Pressed, TypeOK
  <2>3. pc[c] \in Entering /\ UNCHANGED <<held, box, confirmed, upped, ops>>
        BY <1>2 DEF Press, Pressed
  <2> QED
      BY <1>n, <1>p, <1>t, <2>1, <2>2, <2>3, Move
<1>3. ASSUME NEW c \in Callers, PressRaises(c) PROVE Shape'
  <2>1. PICK place \in {"rescue", "idle"} : Goto(c, place) /\ (place = "rescue" => Windows)
        BY <1>3 DEF PressRaises
  <2>2. pending' = pending \/ pending' = [pending EXCEPT ![c] = 0]
        BY <1>3 DEF PressRaises, BoxPopped
  <2>3. \A d \in Callers : pending'[d] <= ops[d]
        BY <1>n, <2>2 DEF TypeOK
  <2>4. pc[c] \in Entering /\ UNCHANGED <<held, box, confirmed, upped, ops>>
        BY <1>3 DEF PressRaises
  <2> QED
      BY <1>n, <1>p, <1>t, <2>1, <2>3, <2>4, Move
<1>4. ASSUME NEW c \in Callers, Hold(c) PROVE Shape'
  <2>1. /\ Goto(c, "idle") /\ held' = <<c, box[c]>> /\ LockFree
        /\ UNCHANGED <<pending, box, confirmed, upped, ops>>
        BY <1>4 DEF Hold, Register
  <2> QED
      BY <1>n, <1>p, <1>t, <2>1, Move
<1>5. ASSUME NEW c \in Callers, Rescue(c) PROVE Shape'
  <2>1. LockFree /\ pc[c] = "rescue" /\ UNCHANGED <<box, confirmed, ops>>
        BY <1>5 DEF Rescue
  <2>2. CASE stopped
    <3>1. <<c, box[c]>> \in Presses
          BY <2>1, LimitAssumption DEF Shape, Boxes, TypeOK, Presses
    <3>2. ReleaseFn(<<c, box[c]>>) /\ Goto(c, "stop")
          BY <1>5, <2>2 DEF Rescue
    <3> QED
        BY <1>n, <1>p, <2>1, <3>1, <3>2, Retire DEF LockFree
  <2>3. CASE ~stopped
    <3>1. Goto(c, "release") /\ held' = <<c, box[c]>> /\ UNCHANGED upped
              /\ pending' = [pending EXCEPT ![c] = box[c]]
          BY <1>5, <2>3 DEF Rescue, Register
    <3>2. \A d \in Callers : pending'[d] <= ops[d]
          BY <1>n, <3>1 DEF TypeOK
    <3> QED
        BY <1>n, <1>p, <1>t, <2>1, <3>1, <3>2, Move
  <2> QED
      BY <2>2, <2>3
<1>6. ASSUME NEW c \in Callers, UpStart(c) PROVE Shape'
  <2>1. PICK place \in {"direct", "up", "release"} :
            /\ Goto(c, place)
            /\ place = "up" => Windows /\ pending[c] # 0
        BY <1>6 DEF UpStart
  <2>2. /\ box' = [box EXCEPT ![c] = pending[c]]
        /\ UNCHANGED <<held, pending, confirmed, upped>>
        BY <1>6 DEF UpStart
  <2>3. box'[c] = pending[c] /\ \A d \in Callers : d # c => box'[d] = box[d]
        BY <2>2 DEF TypeOK
  <2>4. Ask(c)
        BY <1>6 DEF UpStart
  <2> QED
      BY <1>a, <1>n, <1>p, <1>t, <2>1, <2>2, <2>3, <2>4, Move
<1>7. ASSUME NEW c \in Callers, Direct(c) PROVE Shape'
  <2>1. Goto(c, "idle") /\ UNCHANGED <<held, pending, box, confirmed, ops>>
        BY <1>7 DEF Direct
  <2>2. upped' \subseteq upped
        BY <1>7 DEF Direct, MouseUp, MouseUpRaises
  <2> QED
      BY <1>n, <1>p, <1>t, <2>1, <2>2, Move
<1>8. ASSUME NEW c \in Callers, Up(c) PROVE Shape'
  <2>1. PICK place \in {"confirm", "release"} : Goto(c, place)
        BY <1>8 DEF Up
  <2>2. upped' \subseteq upped \cup {<<c, box[c]>>}
        BY <1>8 DEF Up, MouseUp, MouseUpRaises
  <2>3. pc[c] = "up" /\ UNCHANGED <<held, pending, box, confirmed, ops>>
        BY <1>8 DEF Up
  <2>4. Windows /\ box[c] # 0
        BY <2>3 DEF Shape, Boxes
  <2> QED
      BY <1>n, <1>p, <1>t, <2>1, <2>2, <2>3, <2>4, Move
<1>9. ASSUME NEW c \in Callers, Confirm(c) PROVE Shape'
  <2>1. /\ Goto(c, "release") /\ confirmed' = confirmed \cup {<<c, box[c]>>}
        /\ UNCHANGED <<held, pending, box, upped, ops>>
        BY <1>9 DEF Confirm
  <2> QED
      BY <1>n, <1>p, <1>t, <2>1, Move
<1>10. ASSUME NEW c \in Callers, Release(c) \/ Stop(c) PROVE Shape'
  <2>1. PICK place \in {"idle", "fn", "exited", "fnstop"} :
            /\ Goto(c, place)
            /\ place \in InLedger => LockFree /\ held # None
        BY <1>10 DEF Release, Stop
  <2>2. UNCHANGED <<held, pending, box, confirmed, upped, ops>>
        BY <1>10 DEF Release, Stop
  <2> QED
      BY <1>n, <1>p, <1>t, <2>1, <2>2, Move
<1>11. ASSUME NEW c \in Callers, ReleaseAll(c) PROVE Shape'
  <2>1. PICK place \in {"idle", "fnall"} :
            /\ Goto(c, place)
            /\ place \in InLedger => LockFree /\ held # None
        BY <1>11 DEF ReleaseAll
  <2>2. Ask(c) /\ UNCHANGED <<held, pending, box, confirmed, upped>>
        BY <1>11 DEF ReleaseAll
  <2> QED
      BY <1>a, <1>n, <1>p, <1>t, <2>1, <2>2, Move
<1>12. ASSUME NEW c \in Callers, Other(c) PROVE Shape'
  <2>1. Ask(c) /\ UNCHANGED <<held, pending, box, pc, confirmed, upped>>
        BY <1>12 DEF Other
  <2>2. Goto(c, "idle")
        BY <1>a, <2>1 DEF Goto, TypeOK
  <2> QED
      BY <1>a, <1>n, <1>p, <1>t, <2>1, <2>2, Move
<1>13. ASSUME NEW c \in Callers, InCallback(c) \/ StopCallback(c) PROVE Shape'
  <2>1. PICK place \in {"idle", "exited"} : Goto(c, place)
        BY <1>13 DEF InCallback, StopCallback
  <2>2. pc[c] \in InLedger /\ ReleaseFn(held) /\ UNCHANGED <<box, confirmed, ops>>
        BY <1>13 DEF InCallback, StopCallback
  <2>3. held # None /\ \A d \in Callers : pc[d] \in InLedger => d = c
        BY <2>2 DEF Shape, Exclusive
  <2> QED
      BY <1>h, <1>p, <2>1, <2>2, <2>3, Retire
<1>14. ASSUME NEW c \in Callers, EndOfInput(c) \/ Close(c) PROVE Shape'
  <2>1. PICK place \in {"stop", "exited"} : Goto(c, place)
        BY <1>14 DEF EndOfInput, Close
  <2>2. UNCHANGED <<held, pending, box, confirmed, upped, ops>>
        BY <1>14 DEF EndOfInput, Close
  <2> QED
      BY <1>n, <1>p, <1>t, <2>1, <2>2, Move
<1>15. ASSUME NEW c \in Callers, Signal(c) PROVE Shape'
  <2>1. PICK place \in {"exited", "rescue", "stop"} :
            /\ Goto(c, place)
            /\ place = "rescue" => Windows /\ pc[c] \in Entering
        BY <1>15 DEF Signal
  <2>2. UNCHANGED <<box, confirmed, ops>> /\ Callers = {c}
        BY <1>15, AgentAssumption, KindAssumption DEF Signal
  <2>3. CASE pc[c] \in InLedger \/ held = None
    <3>1. UNCHANGED <<held, pending, upped>>
          BY <1>15, <2>3 DEF Signal, ReleaseHeld
    <3> QED
        BY <1>n, <1>p, <1>t, <2>1, <2>2, <3>1, Move
  <2>4. CASE pc[c] \notin InLedger /\ held # None
    <3>1. ReleaseFn(held)
          BY <1>15, <2>4 DEF Signal, ReleaseHeld
    <3> QED
        BY <1>h, <1>p, <2>1, <2>2, <2>4, <3>1, Retire
  <2> QED
      BY <2>3, <2>4
<1>16. CASE Expire
      BY <1>16 DEF Expire, Shape, Boxes, Numbers, Fresh, Exclusive
<1>17. CASE Deadman
  <2>1. LockFree /\ ReleaseHeld /\ UNCHANGED <<box, pc, confirmed, ops>>
        BY <1>17 DEF Deadman
  <2>2. CASE held = None
        BY <2>1, <2>2 DEF ReleaseHeld, Shape, Boxes, Numbers, Fresh, Exclusive
  <2>3. CASE held # None
    <3>1. PICK c \in Callers : TRUE
          BY CallersAssumption
    <3>2. ReleaseFn(held)
          BY <2>1, <2>3 DEF ReleaseHeld
    <3> QED
        BY <1>h, <1>p, <2>1, <2>3, <3>2, Retire DEF LockFree
  <2> QED
      BY <2>2, <2>3
<1>18. CASE UNCHANGED vars
      BY <1>18 DEF vars, Shape, Boxes, Numbers, Fresh, Exclusive
<1> QED
    BY <1>1, <1>2, <1>3, <1>4, <1>5, <1>6, <1>7, <1>8, <1>9, <1>10, <1>11, <1>12, <1>13,
       <1>14, <1>15, <1>16, <1>17, <1>18 DEF Next, Step, Request
-----------------------------------------------------------------------------
LEMMA Shaped == Spec => [](TypeOK /\ Shape)
<1>1. Init => TypeOK /\ Shape
      BY InitTypeOK, InitShape
<1>2. TypeOK /\ Shape /\ [Next]_vars => TypeOK' /\ Shape'
      BY NextTypeOK, NextShape
<1> QED
    BY <1>1, <1>2, PTL DEF Spec

(* Every variable of a reachable state has its type.                       *)
THEOREM TypeCorrect == Spec => []TypeOK
BY Shaped, PTL
-----------------------------------------------------------------------------
(* One mouse_up per press.                                                 *)

LEMMA ReleaseOnce ==
    ASSUME TypeOK, ~Windows, Once, held # None, ReleaseFn(held)
    PROVE  twice' = {} /\ held' \notin upped'
<1>1. held \in Presses /\ held' = None
      BY DEF TypeOK, ReleaseFn
<1>2. None \notin upped'
      BY <1>1, ReleaseFnType, NoneAssumption
<1>3. twice' = {}
      BY DEF Once, ReleaseFn, MouseUp, MouseUpRaises
<1> QED
    BY <1>1, <1>2, <1>3

LEMMA NextOnce == TypeOK /\ Shape /\ Once /\ [Next]_vars => Once'
<1> SUFFICES ASSUME TypeOK, Shape, Once, [Next]_vars, ~Windows
             PROVE  twice' = {} /\ held' \notin upped'
    BY DEF Once
<1> USE DEF ledger, hand
<1>u. None \notin upped
      BY NoneAssumption DEF TypeOK
<1>1. ASSUME NEW c \in Callers, Hold(c) PROVE twice' = {} /\ held' \notin upped'
  <2>1. pc[c] = "hold" /\ held' = <<c, box[c]>> /\ UNCHANGED <<upped, twice>>
        BY <1>1 DEF Hold, Register
  <2>2. <<c, box[c]>> \notin upped
        BY <2>1 DEF Shape, Fresh, Entering
  <2> QED
      BY <2>1, <2>2 DEF Once
<1>2. ASSUME NEW c \in Callers, InCallback(c) \/ StopCallback(c)
      PROVE  twice' = {} /\ held' \notin upped'
  <2>1. pc[c] \in InLedger /\ ReleaseFn(held)
        BY <1>2 DEF InCallback, StopCallback, InLedger
  <2>2. held # None
        BY <2>1 DEF Shape, Exclusive
  <2> QED
      BY <2>1, <2>2, ReleaseOnce
<1>3. ASSUME ReleaseHeld PROVE twice' = {} /\ held' \notin upped'
      BY <1>3, ReleaseOnce DEF ReleaseHeld, Once
<1>4. ASSUME NEW c \in Callers, Direct(c) PROVE twice' = {} /\ held' \notin upped'
      BY <1>4 DEF Direct, MouseUp, MouseUpRaises, Once
<1>5. ASSUME NEW c \in Callers, Up(c) \/ Confirm(c) \/ Rescue(c) PROVE FALSE
      BY <1>5 DEF Up, Confirm, Rescue, Shape, Boxes
<1>6. ASSUME NEW c \in Callers, Signal(c) PROVE twice' = {} /\ held' \notin upped'
  <2>1. ReleaseHeld \/ UNCHANGED <<held, upped, twice>>
        BY <1>6 DEF Signal
  <2> QED
      BY <1>3, <2>1 DEF Once
<1>7. CASE Deadman
      BY <1>3, <1>7 DEF Deadman
<1>8. CASE Expire \/ UNCHANGED vars
      BY <1>8 DEF Expire, vars, Once
<1>9. ASSUME NEW c \in Callers,
             \/ DownStart(c) \/ Press(c) \/ PressRaises(c) \/ Pressed(c) \/ UpStart(c)
             \/ Release(c) \/ ReleaseAll(c) \/ Other(c) \/ EndOfInput(c) \/ Close(c)
             \/ Stop(c)
      PROVE  twice' = {} /\ held' \notin upped'
  <2>1. UNCHANGED <<held, upped, twice>>
        BY <1>9 DEF DownStart, Press, PressRaises, Pressed, UpStart, Release, ReleaseAll,
                    Other, EndOfInput, Close, Stop
  <2> QED
      BY <2>1 DEF Once
<1> QED
    BY <1>1, <1>2, <1>4, <1>5, <1>6, <1>7, <1>8, <1>9 DEF Next, Step, Request

(* Where releases are not acknowledged, so that the explicit up goes       *)
(* through the ledger alone, no press is answered with two mouse_up calls, *)
(* whoever releases it: the caller, a guard, the deadman, a signal, stop.  *)
THEOREM OneUp == Spec => [](~Windows => OneUpPerPress)
<1>1. Init => Once
      BY DEF Init, Once
<1>2. TypeOK /\ Shape /\ Once /\ [Next]_vars => Once'
      BY NextOnce
<1>3. Once => (~Windows => OneUpPerPress)
      BY DEF Once, OneUpPerPress
<1> QED
    BY <1>1, <1>2, <1>3, Shaped, PTL DEF Spec
-----------------------------------------------------------------------------
(* The custody of a button that is down.                                   *)

Awaiting == {"pressed", "hold", "rescue"}

(* A caller moves while button, ledger and timers stay as they are.        *)
LEMMA Calm ==
    ASSUME TypeOK, Guarded, UNCHANGED <<ledger, hand, fired>>,
           NEW c \in Callers, NEW place \in Places, Goto(c, place),
           pc[c] \in Awaiting => place \in Awaiting,
           place # "confirm",
           confirmed' = confirmed \/ (confirmed' = confirmed \cup {<<c, box[c]>>}
                                        /\ pc[c] = "confirm"),
           \A d \in Callers : d # c => box'[d] = box[d]
    PROVE  Guarded'
<1> USE DEF ledger, hand
<1>1. \A d \in Callers : pc'[d] = IF d = c THEN place ELSE pc[d]
      BY DEF Goto, TypeOK
<1>2. Excused => Excused'
      BY <1>1 DEF Excused, Awaiting
<1>3. ~stopped => Settled'
  <2> SUFFICES ASSUME ~stopped, down PROVE Settled'
      BY DEF Settled
  <2>1. held # None /\ held \in confirmed' => Excused
        BY DEF Guarded, Settled
  <2>2. ASSUME NEW d \in Callers, pc'[d] = "confirm", held = <<d, box'[d]>>
        PROVE  Excused
        BY <1>1, <2>2 DEF Guarded, Settled
  <2> QED
      BY <1>2, <2>1, <2>2 DEF Settled
<1> QED
    BY <1>2, <1>3 DEF Guarded

(* Nothing is owed while the button is up or the exception holds.          *)
LEMMA Eased == ASSUME ~down' \/ Excused' PROVE Guarded'
BY DEF Guarded, Settled

(* A release of the entry, by a callback or by the deadman.                *)
LEMMA ReleaseGuarded ==
    ASSUME TypeOK, Guarded, ~stopped, held # None, ReleaseFn(held),
           \A d \in Callers : pc[d] \in Awaiting => pc'[d] = pc[d]
    PROVE  ~down' \/ Excused'
<1>1. CASE MouseUp({held}) \/ MouseUpRaises
      BY <1>1 DEF MouseUp, MouseUpRaises, Excused
<1>2. CASE UNCHANGED hand /\ held \in confirmed
  <2>1. down => Excused
        BY <1>2 DEF Guarded, Settled
  <2>2. Excused => Excused'
        BY <1>2 DEF Excused, Awaiting, hand
  <2> QED
      BY <1>2, <2>1, <2>2 DEF hand
<1> QED
    BY <1>1, <1>2 DEF ReleaseFn

(* A press enters the ledger.                                              *)
LEMMA RegisterGuarded ==
    ASSUME TypeOK, Shape, NEW c \in Callers, NEW place \in Places,
           pc[c] \in {"hold", "rescue"}, Register(c), Goto(c, place), place # "confirm",
           UNCHANGED <<box, confirmed>>
    PROVE  Guarded'
<1>1. \A d \in Callers : pc'[d] = IF d = c THEN place ELSE pc[d]
      BY DEF Goto, TypeOK
<1>2. held' = <<c, box[c]>> /\ held' # None /\ held' \notin confirmed
  <2>1. <<c, box[c]>> \in Presses
        BY DEF Shape, Boxes, TypeOK, Presses, Entering
  <2> QED
      BY <2>1, NoneAssumption DEF Shape, Fresh, Register, Entering
<1>3. armed'
      BY <1>2, Zenon DEF Register, ResetDeadman
<1>4. Settled'
      BY <1>1, <1>2 DEF Settled
<1> QED
    BY <1>2, <1>3, <1>4 DEF Guarded

LEMMA NextGuarded == TypeOK /\ Shape /\ Guarded /\ [Next]_vars => Guarded'
<1> SUFFICES ASSUME TypeOK, Shape, Guarded, [Next]_vars PROVE Guarded'
    OBVIOUS
<1>p. Places = {"idle", "down", "pressed", "hold", "rescue", "up", "confirm", "direct",
               "release", "stop", "exited", "fn", "fnall", "fnstop"}
      BY DEF Places, InLedger
<1>s. ASSUME stopped' PROVE Guarded'
      BY <1>s DEF Guarded
<1> USE DEF Awaiting
<1>1. ASSUME NEW c \in Callers, DownStart(c) \/ UpStart(c) PROVE Guarded'
  <2>1. PICK place \in {"down", "direct", "up", "release"} : Goto(c, place)
        BY <1>1 DEF DownStart, UpStart
  <2>2. pc[c] = "idle" /\ UNCHANGED <<ledger, hand, fired, confirmed>>
        BY <1>1 DEF DownStart, UpStart, Ask
  <2>3. \A d \in Callers : d # c => box'[d] = box[d]
        BY <1>1 DEF DownStart, UpStart, TypeOK
  <2> QED
      BY <1>p, <2>1, <2>2, <2>3, Calm
<1>2. ASSUME NEW c \in Callers, Press(c) PROVE Guarded'
  <2>1. pc'[c] = "pressed"
        BY <1>2 DEF Press, Goto, TypeOK
  <2> QED
      BY <2>1, Eased DEF Excused
<1>3. ASSUME NEW c \in Callers, PressRaises(c) PROVE Guarded'
  <2>1. CASE Windows
    <3>1. pc'[c] = "rescue"
          BY <1>3, <2>1 DEF PressRaises, Goto, TypeOK
    <3> QED
        BY <3>1, Eased DEF Excused
  <2>2. CASE ~Windows
    <3>1. Goto(c, "idle") /\ pc[c] = "down" /\ UNCHANGED <<ledger, hand, fired, confirmed, box>>
          BY <1>3, <2>2 DEF PressRaises, hand
    <3> QED
        BY <1>p, <3>1, Calm
  <2> QED
      BY <2>1, <2>2
<1>4. ASSUME NEW c \in Callers, Pressed(c) PROVE Guarded'
  <2>1. pc'[c] = "hold"
        BY <1>4 DEF Pressed, Goto, TypeOK
  <2> QED
      BY <2>1, Eased DEF Excused
<1>5. ASSUME NEW c \in Callers, Hold(c) PROVE Guarded'
  <2>1. pc[c] = "hold" /\ Register(c) /\ Goto(c, "idle") /\ UNCHANGED <<box, confirmed>>
        BY <1>5 DEF Hold
  <2> QED
      BY <1>p, <2>1, RegisterGuarded
<1>6. ASSUME NEW c \in Callers, Rescue(c) PROVE Guarded'
  <2>1. CASE stopped
        BY <1>6, <1>s, <2>1 DEF Rescue
  <2>2. CASE ~stopped
    <3>1. /\ pc[c] = "rescue" /\ Register(c) /\ Goto(c, "release")
          /\ UNCHANGED <<box, confirmed>>
          BY <1>6, <2>2 DEF Rescue
    <3> QED
        BY <1>p, <3>1, RegisterGuarded
  <2> QED
      BY <2>1, <2>2
<1>7. ASSUME NEW c \in Callers, Direct(c) \/ Up(c) PROVE Guarded'
      BY <1>7, Eased DEF Direct, Up, MouseUp, MouseUpRaises, Excused
<1>8. ASSUME NEW c \in Callers, Confirm(c) PROVE Guarded'
  <2>1. /\ pc[c] = "confirm" /\ confirmed' = confirmed \cup {<<c, box[c]>>}
        /\ Goto(c, "release") /\ UNCHANGED <<ledger, hand, fired, box>>
        BY <1>8 DEF Confirm
  <2> QED
      BY <1>p, <2>1, Calm
<1>9. ASSUME NEW c \in Callers,
             Release(c) \/ ReleaseAll(c) \/ EndOfInput(c) \/ Close(c)
      PROVE  Guarded'
  <2>1. PICK place \in {"idle", "fn", "fnall", "stop", "exited"} : Goto(c, place)
        BY <1>9 DEF Release, ReleaseAll, EndOfInput, Close
  <2>2. /\ pc[c] \in {"idle", "release"}
        /\ UNCHANGED <<ledger, hand, fired, confirmed, box>>
        BY <1>9 DEF Release, ReleaseAll, EndOfInput, Close, Ask
  <2> QED
      BY <1>p, <2>1, <2>2, Calm
<1>10. ASSUME NEW c \in Callers, Other(c) PROVE Guarded'
  <2>1. /\ pc[c] = "idle" /\ Goto(c, "idle")
        /\ UNCHANGED <<ledger, hand, fired, confirmed, box>>
        BY <1>10 DEF Other, Ask, Goto, TypeOK
  <2> QED
      BY <1>p, <2>1, Calm
<1>11. ASSUME NEW c \in Callers, InCallback(c) PROVE Guarded'
  <2>1. /\ pc[c] \in InLedger /\ ReleaseFn(held) /\ Goto(c, "idle")
        /\ UNCHANGED stopped
        BY <1>11 DEF InCallback, InLedger
  <2>2. held # None /\ \A d \in Callers : pc[d] \in {"pressed", "hold", "rescue"} => pc'[d] = pc[d]
        BY <2>1 DEF Shape, Exclusive, Goto, TypeOK, InLedger
  <2> QED
      BY <1>s, <2>1, <2>2, ReleaseGuarded, Eased
<1>12. ASSUME NEW c \in Callers, Stop(c) PROVE Guarded'
  <2>1. CASE stopped'
        BY <1>s, <2>1
  <2>2. CASE ~stopped'
    <3>1. /\ pc[c] = "stop" /\ Goto(c, "fnstop")
          /\ UNCHANGED <<ledger, hand, fired, confirmed, box>>
          BY <1>12, <2>2 DEF Stop, ledger
    <3> QED
        BY <1>p, <3>1, Calm
  <2> QED
      BY <2>1, <2>2
<1>13. ASSUME NEW c \in Callers, StopCallback(c) \/ Signal(c) PROVE Guarded'
      BY <1>13, <1>s DEF StopCallback, Signal
<1>14. CASE Expire
  <2>1. fired' > 0
        BY <1>14 DEF Expire, TypeOK
  <2>2. UNCHANGED <<held, stopped, hand, box, pc, confirmed>>
        BY <1>14 DEF Expire
  <2> QED
      BY <2>1, <2>2 DEF Guarded, Settled, Excused, hand
<1>15. CASE Deadman
  <2>1. ~stopped /\ ReleaseHeld /\ UNCHANGED <<stopped, box, pc, confirmed>>
        BY <1>15 DEF Deadman
  <2>2. CASE held = None
    <3>1. UNCHANGED <<held, hand>> /\ (down => Excused)
          BY <2>1, <2>2 DEF ReleaseHeld, Guarded
    <3> QED
        BY <2>1, <3>1, Eased DEF Excused, hand
  <2>3. CASE held # None
        BY <2>1, <2>3, ReleaseGuarded, Eased DEF ReleaseHeld
  <2> QED
      BY <2>2, <2>3
<1>16. CASE UNCHANGED vars
      BY <1>16 DEF vars, ledger, hand, Guarded, Settled, Excused
<1> QED
    BY <1>1, <1>2, <1>3, <1>4, <1>5, <1>6, <1>7, <1>8, <1>9, <1>10, <1>11, <1>12, <1>13,
       <1>14, <1>15, <1>16 DEF Next, Step, Request

(* Whenever no caller is at work, a button that is down is the ledger's    *)
(* entry and its deadman runs or waits for the lock, unless a mouse_up     *)
(* raised: no interleaving of sessions, guards and timer threads loses it. *)
THEOREM CustodyKept == Spec => []Custody
<1>1. Init => Guarded
      BY DEF Init, Guarded, Settled
<1>2. TypeOK /\ Shape /\ Guarded /\ [Next]_vars => Guarded'
      BY NextGuarded
<1>3. Guarded => Custody
      BY DEF Guarded, Custody, Excused, Quiescent
<1> QED
    BY <1>1, <1>2, <1>3, Shaped, PTL DEF Spec
-----------------------------------------------------------------------------
(* The agent's exit, without signals.                                      *)

LEMMA NextClean == TypeOK /\ Shape /\ Guarded /\ Clean /\ [Next]_vars => Clean'
<1> SUFFICES ASSUME TypeOK, Shape, Guarded, Clean, [Next]_vars, ~Local, ~Signals
             PROVE  /\ \A c \in Callers : stopped' <=> pc'[c] = "exited"
                    /\ stopped' /\ down' => failedUp'
    BY DEF Clean
<1>0. PICK agent \in Callers : Callers = {agent}
      BY AgentAssumption
<1> SUFFICES /\ stopped' <=> pc'[agent] = "exited"
             /\ stopped' /\ down' => failedUp'
    BY <1>0
<1>c. stopped <=> pc[agent] = "exited"
      BY DEF Clean
<1> USE DEF ledger, hand
<1>1. ASSUME stopped' = stopped, pc[agent] # "exited", pc'[agent] # "exited"
      PROVE  (stopped' <=> pc'[agent] = "exited") /\ (stopped' /\ down' => failedUp')
      BY <1>1, <1>c
<1>2. ASSUME Step(agent), ~Stop(agent), ~StopCallback(agent)
      PROVE  stopped' = stopped /\ pc[agent] # "exited" /\ pc'[agent] # "exited"
      BY <1>2 DEF Step, Press, PressRaises, Pressed, Hold, Rescue, Direct, Up, Confirm,
                  Release, InCallback, Register, Goto, TypeOK
<1>3. ASSUME DownStart(agent) \/ UpStart(agent) \/ ReleaseAll(agent) \/ Other(agent)
                \/ EndOfInput(agent)
      PROVE  stopped' = stopped /\ pc[agent] # "exited" /\ pc'[agent] # "exited"
      BY <1>3 DEF DownStart, UpStart, ReleaseAll, Other, EndOfInput, Ask, Goto, TypeOK
<1>4. CASE Stop(agent)
  <2>1. pc[agent] = "stop" /\ UNCHANGED <<down, failedUp>>
        BY <1>4 DEF Stop
  <2>2. CASE held # None
    <3>1. stopped' = stopped /\ Goto(agent, "fnstop")
          BY <1>4, <2>2 DEF Stop
    <3> QED
        BY <1>1, <2>1, <3>1 DEF Goto, TypeOK
  <2>3. CASE held = None
    <3>1. stopped' /\ pc'[agent] = "exited"
          BY <1>4, <2>3 DEF Stop, Goto, TypeOK
    <3>2. down => failedUp
          BY <1>0, <1>c, <2>1, <2>3 DEF Guarded, Excused
    <3> QED
        BY <2>1, <3>1, <3>2
  <2> QED
      BY <2>2, <2>3
<1>5. CASE StopCallback(agent)
  <2>1. pc[agent] = "fnstop" /\ ReleaseFn(held) /\ stopped' /\ pc'[agent] = "exited"
        BY <1>5 DEF StopCallback, Goto, TypeOK
  <2>2. held # None
        BY <2>1 DEF Shape, Exclusive, InLedger
  <2>3. \A d \in Callers : pc[d] \in Awaiting => pc'[d] = pc[d]
        BY <1>0, <2>1 DEF Awaiting
  <2>4. ~down' \/ Excused'
        BY <1>c, <2>1, <2>2, <2>3, ReleaseGuarded
  <2> QED
      BY <1>0, <2>1, <2>4 DEF Excused
<1>6. ASSUME Close(agent) \/ Signal(agent) PROVE FALSE
      BY <1>6 DEF Close, Signal
<1>7. CASE Deadman
  <2>1. ~stopped /\ UNCHANGED <<stopped, pc>>
        BY <1>7 DEF Deadman
  <2> QED
      BY <1>1, <1>c, <2>1
<1>8. CASE Expire \/ UNCHANGED vars
      BY <1>8, <1>c DEF Expire, vars, Clean
<1> QED
    BY <1>0, <1>1, <1>2, <1>3, <1>4, <1>5, <1>6, <1>7, <1>8 DEF Next, Request

(* An agent no signal hits never exits with the button down, unless a      *)
(* release raised: its final stop finds in the ledger what is still held.  *)
THEOREM CleanExit == Spec => [](~Signals => NothingStranded)
<1>1. Init => Guarded /\ Clean
      BY DEF Init, Guarded, Settled, Clean
<1>2. TypeOK /\ Shape /\ Guarded /\ Clean /\ [Next]_vars => Guarded' /\ Clean'
      BY NextGuarded, NextClean
<1>3. Clean => (~Signals => NothingStranded)
      BY DEF Clean, NothingStranded
<1> QED
    BY <1>1, <1>2, <1>3, Shaped, PTL DEF Spec
-----------------------------------------------------------------------------
(* The agent's exit, with signals.                                         *)

(* Where a signal may leave the button down.                               *)
Window == InLedger \cup {"hold", IF Windows THEN "rescue" ELSE "pressed"}

(* A stopped agent is on its way out, and what is down was released with   *)
(* an error, or was hit in the window, or is the Windows press whose own   *)
(* handler is about to release it.                                         *)
Leaving ==
    ~Local => \A c \in Callers :
        /\ pc[c] = "exited" => stopped
        /\ stopped => pc[c] \in {"rescue", "stop", "fnstop", "exited"}
        /\ stopped /\ down => failedUp \/ struck \in Window \/ pc[c] = "rescue"

(* A callback's release leaves the button down only if it raised, or if it *)
(* had been released with an error before.                                 *)
LEMMA ReleaseLeaves ==
    ASSUME NEW p, ReleaseFn(p), p \in confirmed /\ down => failedUp
    PROVE  down' => failedUp'
BY DEF ReleaseFn, MouseUp, MouseUpRaises, hand

(* The signal's own stop.                                                  *)
LEMMA SignalLeaves ==
    ASSUME TypeOK, Shape, Guarded, ~Local, NEW c \in Callers, Signal(c)
    PROVE  /\ stopped'
           /\ pc'[c] \in {"rescue", "stop", "exited"}
           /\ down' => failedUp' \/ struck' \in Window \/ pc'[c] = "rescue"
<1>0. Callers = {c}
      BY AgentAssumption
<1>1. stopped' /\ struck' = pc[c] /\ ~stopped
      BY DEF Signal
<1>2. CASE pc[c] \in InLedger
      BY <1>1, <1>2 DEF Signal, Goto, TypeOK, Window
<1>3. CASE pc[c] \notin InLedger
  <2>1. /\ pc'[c] = IF Windows /\ pc[c] \in {"down", "pressed"} THEN "rescue" ELSE "stop"
        /\ ReleaseHeld
        BY <1>3 DEF Signal, Goto, TypeOK
  <2>2. pc[c] = "rescue" => Windows
        BY DEF Shape, Boxes
  <2>3. CASE pc'[c] = "rescue" \/ pc[c] \in Window
        BY <1>1, <2>1, <2>3
  <2>4. CASE pc'[c] # "rescue" /\ pc[c] \notin Window
    <3>1. pc[c] \notin {"pressed", "hold", "rescue"}
          BY <2>1, <2>2, <2>4 DEF Window
    <3>2. Excused <=> failedUp
          BY <1>0, <3>1 DEF Excused
    <3>3. CASE held = None
          BY <1>1, <2>1, <3>2, <3>3 DEF ReleaseHeld, hand, Guarded
    <3>4. CASE held # None
      <4>1. ReleaseFn(held) /\ (held \in confirmed /\ down => failedUp)
            BY <1>1, <2>1, <3>2, <3>4 DEF ReleaseHeld, Guarded, Settled
      <4> QED
          BY <1>1, <2>1, <4>1, ReleaseLeaves
    <3> QED
        BY <1>1, <2>1, <3>3, <3>4
  <2> QED
      BY <2>3, <2>4
<1> QED
    BY <1>2, <1>3

LEMMA NextLeaving == TypeOK /\ Shape /\ Guarded /\ Leaving /\ [Next]_vars => Leaving'
<1> SUFFICES ASSUME TypeOK, Shape, Guarded, Leaving, [Next]_vars, ~Local PROVE Leaving'
    BY DEF Leaving
<1>0. PICK agent \in Callers : Callers = {agent}
      BY AgentAssumption
<1> DEFINE Out == /\ pc'[agent] = "exited" => stopped'
                  /\ stopped' => pc'[agent] \in {"rescue", "stop", "fnstop", "exited"}
                  /\ stopped' /\ down' =>
                        failedUp' \/ struck' \in Window \/ pc'[agent] = "rescue"
<1> SUFFICES Out
    BY <1>0 DEF Leaving, Window
<1>i. /\ pc[agent] = "exited" => stopped
      /\ stopped => pc[agent] \in {"rescue", "stop", "fnstop", "exited"}
      /\ stopped /\ down => failedUp \/ struck \in Window \/ pc[agent] = "rescue"
      BY DEF Leaving
<1>n. ASSUME ~stopped', pc'[agent] # "exited" PROVE Out
      BY <1>n
<1> USE DEF ledger, hand
<1>1. ASSUME Step(agent), ~Rescue(agent), ~Stop(agent), ~StopCallback(agent)
      PROVE  ~stopped' /\ pc'[agent] # "exited"
  <2>1. pc[agent] \notin {"rescue", "stop", "fnstop", "exited"} /\ UNCHANGED stopped
        BY <1>1 DEF Step, Press, PressRaises, Pressed, Hold, Direct, Up, Confirm, Release,
                    InCallback
  <2>2. pc'[agent] # "exited"
        BY <1>1 DEF Step, Press, PressRaises, Pressed, Hold, Direct, Up, Confirm, Release,
                    InCallback, Goto, TypeOK
  <2> QED
      BY <1>i, <2>1, <2>2
<1>2. ASSUME DownStart(agent) \/ UpStart(agent) \/ ReleaseAll(agent) \/ Other(agent)
                \/ EndOfInput(agent)
      PROVE  ~stopped' /\ pc'[agent] # "exited"
  <2>1. pc[agent] = "idle" /\ UNCHANGED stopped
        BY <1>2 DEF DownStart, UpStart, ReleaseAll, Other, EndOfInput, Ask
  <2>2. pc'[agent] # "exited"
        BY <1>2 DEF DownStart, UpStart, ReleaseAll, Other, EndOfInput, Ask, Goto, TypeOK
  <2> QED
      BY <1>i, <2>1, <2>2
<1>3. CASE Rescue(agent)
  <2>0. pc[agent] = "rescue" /\ UNCHANGED stopped
        BY <1>3 DEF Rescue
  <2>1. CASE stopped
    <3>1. ReleaseFn(<<agent, box[agent]>>) /\ pc'[agent] = "stop"
          BY <1>3, <2>1 DEF Rescue, Goto, TypeOK
    <3>2. <<agent, box[agent]>> \notin confirmed
          BY <2>0 DEF Shape, Fresh, Entering
    <3>3. down' => failedUp'
          BY <3>1, <3>2, ReleaseLeaves
    <3> QED
        BY <3>1, <3>3
  <2>2. CASE ~stopped
    <3>1. pc'[agent] = "release"
          BY <1>3, <2>2 DEF Rescue, Goto, TypeOK
    <3> QED
        BY <2>0, <2>2, <3>1
  <2> QED
      BY <2>1, <2>2
<1>e. ~stopped /\ pc[agent] \notin Awaiting => (Excused <=> failedUp)
      BY <1>0 DEF Excused, Awaiting
<1>4. CASE Stop(agent)
  <2>1. pc[agent] = "stop" /\ UNCHANGED <<down, failedUp, struck, held>>
        BY <1>4 DEF Stop
  <2>2. CASE held # None
    <3>1. stopped' = stopped /\ pc'[agent] = "fnstop"
          BY <1>4, <2>2 DEF Stop, Goto, TypeOK
    <3> QED
        BY <1>i, <2>1, <3>1
  <2>3. CASE held = None
    <3>1. stopped' /\ pc'[agent] = "exited"
          BY <1>4, <2>3 DEF Stop, Goto, TypeOK
    <3>2. ~stopped /\ down => failedUp
          BY <1>e, <2>1, <2>3 DEF Guarded, Awaiting
    <3> QED
        BY <1>i, <2>1, <3>1, <3>2
  <2> QED
      BY <2>2, <2>3
<1>5. CASE StopCallback(agent)
  <2>1. pc[agent] = "fnstop" /\ ReleaseFn(held) /\ stopped' /\ pc'[agent] = "exited"
            /\ UNCHANGED struck
        BY <1>5 DEF StopCallback, Goto, TypeOK
  <2>2. held # None
        BY <2>1 DEF Shape, Exclusive, InLedger
  <2>3. CASE ~stopped
    <3>1. held \in confirmed /\ down => failedUp
          BY <1>e, <2>1, <2>2, <2>3 DEF Guarded, Settled, Awaiting
    <3> QED
        BY <2>1, <3>1, ReleaseLeaves
  <2>4. CASE stopped /\ struck \notin Window
    <3>1. down => failedUp
          BY <1>i, <2>1, <2>4
    <3> QED
        BY <2>1, <3>1, ReleaseLeaves
  <2>5. CASE struck \in Window
        BY <2>1, <2>5
  <2> QED
      BY <2>3, <2>4, <2>5
<1>6. CASE Close(agent)
      BY <1>6 DEF Close
<1>7. CASE Signal(agent)
      BY <1>7, SignalLeaves
<1>8. CASE Expire \/ UNCHANGED vars
  <2>1. UNCHANGED <<pc, stopped, down, failedUp, struck>>
        BY <1>8 DEF Expire, vars
  <2> QED
      BY <1>i, <2>1
<1>9. CASE Deadman
  <2>1. ~stopped /\ UNCHANGED <<stopped, pc>>
        BY <1>9 DEF Deadman
  <2> QED
      BY <1>i, <2>1
<1> QED
    BY <1>0, <1>n, <1>1, <1>2, <1>3, <1>4, <1>5, <1>6, <1>7, <1>8, <1>9 DEF Next, Request

(* A signal leaves an exiting agent's button down only if it hits between  *)
(* the press and its registration, or inside a release callback: at every  *)
(* other place its stop, or the handler of a Windows press, releases it.   *)
THEOREM SignalsLeave == Spec => []SignalWindow
<1>1. Init => Guarded /\ Leaving
      BY DEF Init, Guarded, Settled, Leaving
<1>2. TypeOK /\ Shape /\ Guarded /\ Leaving /\ [Next]_vars => Guarded' /\ Leaving'
      BY NextGuarded, NextLeaving
<1>3. Leaving => SignalWindow
      BY DEF Leaving, SignalWindow, Window
<1> QED
    BY <1>1, <1>2, <1>3, Shaped, PTL DEF Spec
=============================================================================
