----------------------------- MODULE ServerProofs -----------------------------
(***************************************************************************)
(* Theorems about Server for every pool of workers, every set of session   *)
(* addresses and every bound.                                              *)
(***************************************************************************)
EXTENDS Server, FiniteSetTheorems, TLAPS

Owns(w, s) == running[w].does = "handler" /\ running[w].session = s
TakesAccept(w) == running[w] = Accepting \/ InHandler(w, "accepting")
Requests == {"ok", "unrouted", "malformed"}

(* What was completed is what was outstanding. *)
ReadyWasOutstanding == \A s \in Sessions : ready[s] # "no" => phase[s] # "none"

(* OneOwner without cardinalities. *)
Owned ==
    \A s \in Sessions :
        IF s \in alive
        THEN \/ phase[s] # "none" /\ \A w \in Workers : ~Owns(w, s)
             \/ phase[s] = "none" /\ \E w \in Workers : \A v \in Workers : Owns(v, s) <=> v = w
        ELSE phase[s] = "none" /\ \A w \in Workers : ~Owns(w, s)

(* OneAccept without cardinalities. *)
Chained ==
    \/ /\ \E s \in Sessions : \A t \in Sessions : phase[t] = "accepting" <=> t = s
       /\ \A w \in Workers : ~TakesAccept(w)
    \/ /\ \A t \in Sessions : phase[t] # "accepting"
       /\ \E w \in Workers : \A v \in Workers : TakesAccept(v) <=> v = w

(* A request was read from s and its response is not written yet. *)
InHand(s) ==
    \/ phase[s] = "reading" /\ ready[s] \in Requests
    \/ phase[s] = "writing" /\ ready[s] = "no"
    \/ \E w \in Workers : Owns(w, s) /\ running[w].op = "reading" /\ running[w].code \in Requests

(* Every request of an open connection that waits or is in hand is owed. *)
Counted ==
    \A s \in Sessions :
        /\ owed[s] <= sent[s]
        /\ peer[s] = "none" => inbox[s] = <<>>
        /\ peer[s] = "open" => owed[s] >= Len(inbox[s])
        /\ peer[s] = "open" /\ InHand(s) => owed[s] > Len(inbox[s])

(* A session is connected to nobody before its accept completes. *)
Unconnected ==
    \A s \in Sessions : s \notin alive \/ Outstanding(s, "accepting") => peer[s] = "none"

IInv == TypeOK /\ ReadyWasOutstanding /\ Owned /\ Chained /\ Unconnected /\ Counted

------------------------------------------------------------------------------
LEMMA NoHandler ==
    /\ Idle.does = "idle" /\ Exited.does = "exited" /\ Accepting.does = "start_accept"
    /\ Stopping.does = "close" /\ StoppingService.does = "stop"
    /\ Idle # Accepting /\ Exited # Accepting
    /\ Stopping # Accepting /\ StoppingService # Accepting
  BY DEF Idle, Exited, Accepting, Stopping, StoppingService

LEMMA HandlerHolds ==
    \A s, op, code :
        /\ Handler(s, op, code).does = "handler" /\ Handler(s, op, code).session = s
        /\ Handler(s, op, code).op = op /\ Handler(s, op, code).code = code
        /\ Handler(s, op, code) # Accepting /\ Handler(s, op, code) # Idle
  BY DEF Handler, Accepting, Idle

(* What a handler's record holds. *)
LEMMA HandlerFields ==
    ASSUME TypeOK, NEW w \in Workers, running[w].does = "handler"
    PROVE  /\ running[w].session \in Sessions
           /\ running[w].op \in Operations
           /\ running[w].code \in Codes
           /\ running[w] # Accepting /\ running[w] # Idle
<1>1. PICK s \in Sessions, op \in Operations, code \in Codes : running[w] = Handler(s, op, code)
  <2>1. running[w] \in Activities
    BY DEF TypeOK
  <2>2. running[w] \notin {Idle, Exited, Accepting, Stopping, StoppingService}
    BY NoHandler
  <2> QED BY <2>1, <2>2 DEF Activities
<1> QED BY <1>1, HandlerHolds

LEMMA ActivityTypes ==
    /\ {Idle, Exited, Accepting, Stopping, StoppingService} \subseteq Activities
    /\ \A s \in Sessions, op \in Operations, code \in Codes : Handler(s, op, code) \in Activities
  BY DEF Activities

------------------------------------------------------------------------------
(* The types. *)

LEMMA InitTypeOK == Init => TypeOK
<1> SUFFICES ASSUME Init PROVE TypeOK
  OBVIOUS
<1>1. running \in [Workers -> Activities]
  BY ActivityTypes DEF Init
<1>2. inbox \in [Sessions -> Seq(Kinds)]
  BY DEF Init
<1>3. alive \subseteq Sessions /\ phase \in [Sessions -> Operations \cup {"none"}]
  BY DEF Init, Operations
<1>4. sent \in [Sessions -> 0 .. MaxSent] /\ owed \in [Sessions -> 0 .. MaxSent]
  BY BoundsAssumption DEF Init
<1>5. ready \in [Sessions -> Codes] /\ framed \in [Sessions -> BOOLEAN]
  BY DEF Init, Codes
<1>6. peer \in [Sessions -> {"none", "open", "closed", "reset"}]
  BY DEF Init
<1>7. acceptErrors \in 0 .. MaxAcceptErrors
  BY BoundsAssumption DEF Init
<1> QED BY <1>1, <1>2, <1>3, <1>4, <1>5, <1>6, <1>7 DEF Init, TypeOK

LEMMA BecomeType ==
    ASSUME TypeOK, NEW w \in Workers, NEW a \in Activities, Become(w, a)
    PROVE  running' \in [Workers -> Activities]
  BY DEF TypeOK, Become

LEMMA StartType ==
    ASSUME TypeOK, NEW s \in Sessions, NEW op \in Operations \cup {"none"}, Start(s, op)
    PROVE  phase' \in [Sessions -> Operations \cup {"none"}]
  BY DEF TypeOK, Start

LEMMA CompleteType ==
    ASSUME TypeOK, NEW s \in Sessions, NEW code \in Codes, Complete(s, code)
    PROVE  ready' \in [Sessions -> Codes]
  BY DEF TypeOK, Complete

(* delete this, of a session whose handler runs. *)
LEMMA DeleteType ==
    ASSUME TypeOK, NEW s \in Sessions, Delete(s),
           NEW w \in Workers, NEW a \in Activities, Become(w, a), Pool
    PROVE  TypeOK'
<1>1. phase' \in [Sessions -> Operations \cup {"none"}]
  BY StartType DEF Delete
<1>2. running' \in [Workers -> Activities]
  BY BecomeType
<1>3. inbox' \in [Sessions -> Seq(Kinds)]
  BY DEF TypeOK, Delete, Forget
<1>4. sent' \in [Sessions -> 0 .. MaxSent] /\ owed' \in [Sessions -> 0 .. MaxSent]
  BY BoundsAssumption DEF TypeOK, Delete, Forget
<1>5. ready' \in [Sessions -> Codes]
  BY DEF TypeOK, Delete, Forget, Codes
<1> QED BY <1>1, <1>2, <1>3, <1>4, <1>5 DEF TypeOK, Delete, Forget, Pool

LEMMA OutsideTypeOK ==
    ASSUME IInv, OutsideStep
    PROVE  TypeOK'
<1> USE DEF IInv
<1>1. CASE Signal
  BY <1>1 DEF TypeOK, Signal, Outside
<1>2. ASSUME NEW s \in Sessions, Connect(s)
      PROVE  TypeOK'
  <2>1. ready' \in [Sessions -> Codes]
    BY <1>2, CompleteType DEF Connect, Codes
  <2> QED BY <1>2, <2>1 DEF TypeOK, Connect, Outside
<1>3. ASSUME NEW s \in Sessions, AcceptFails(s)
      PROVE  TypeOK'
  <2>1. ready' \in [Sessions -> Codes]
    BY <1>3, CompleteType DEF AcceptFails, Codes
  <2>2. acceptErrors' \in 0 .. MaxAcceptErrors
    BY <1>3, BoundsAssumption DEF TypeOK, AcceptFails
  <2> QED BY <1>3, <2>1, <2>2 DEF TypeOK, AcceptFails, Outside
<1>4. ASSUME NEW s \in Sessions, AcceptAborted(s)
      PROVE  TypeOK'
  <2>1. ready' \in [Sessions -> Codes]
    BY <1>4, CompleteType DEF AcceptAborted, Codes
  <2> QED BY <1>4, <2>1 DEF TypeOK, AcceptAborted, Outside
<1>5. ASSUME NEW s \in Sessions, HandshakeCompletes(s)
      PROVE  TypeOK'
  <2>1. ready' \in [Sessions -> Codes]
    BY <1>5, CompleteType DEF HandshakeCompletes, Codes
  <2> QED BY <1>5, <2>1 DEF TypeOK, HandshakeCompletes, Outside
<1>6. ASSUME NEW s \in Sessions, NEW kind \in Kinds, Send(s, kind)
      PROVE  TypeOK'
  <2>1. sent' \in [Sessions -> 0 .. MaxSent]
    BY <1>6, BoundsAssumption DEF TypeOK, Send
  <2>2. owed[s] <= sent[s] /\ owed[s] \in Nat /\ sent[s] \in Nat /\ sent[s] < MaxSent
    BY <1>6, BoundsAssumption DEF TypeOK, Counted, Send
  <2>3. owed' \in [Sessions -> 0 .. MaxSent]
    BY <1>6, <2>2, BoundsAssumption DEF TypeOK, Send
  <2>4. inbox' \in [Sessions -> Seq(Kinds)]
    BY <1>6 DEF TypeOK, Send
  <2> QED BY <1>6, <2>1, <2>3, <2>4 DEF TypeOK, Send, Outside
<1>7. ASSUME NEW s \in Sessions, Leave(s)
      PROVE  TypeOK'
  <2>1. owed' \in [Sessions -> 0 .. MaxSent]
    BY <1>7, BoundsAssumption DEF TypeOK, Leave
  <2>2. peer' \in [Sessions -> {"none", "open", "closed", "reset"}]
    BY <1>7 DEF TypeOK, Leave
  <2> QED BY <1>7, <2>1, <2>2 DEF TypeOK, Leave, Outside
<1>8. ASSUME NEW s \in Sessions, RequestArrives(s)
      PROVE  TypeOK'
  <2>1. inbox[s] \in Seq(Kinds) /\ inbox[s] # <<>>
    BY <1>8 DEF TypeOK, RequestArrives
  <2>2. Head(inbox[s]) \in Kinds /\ Tail(inbox[s]) \in Seq(Kinds)
    BY <2>1
  <2>3. (IF Head(inbox[s]) = "served" THEN "ok" ELSE Head(inbox[s])) \in Codes
    BY <2>2, KindsAssumption DEF Codes
  <2>4. ready' \in [Sessions -> Codes]
    BY <1>8, <2>3, CompleteType DEF RequestArrives
  <2>5. inbox' \in [Sessions -> Seq(Kinds)]
    BY <1>8, <2>2 DEF TypeOK, RequestArrives
  <2> QED BY <1>8, <2>4, <2>5 DEF TypeOK, RequestArrives, Outside
<1>9. ASSUME NEW s \in Sessions, ReadEnds(s)
      PROVE  TypeOK'
  <2>1. ready' \in [Sessions -> Codes]
    BY <1>9, CompleteType DEF ReadEnds, Codes
  <2> QED BY <1>9, <2>1 DEF TypeOK, ReadEnds, Outside
<1>10. ASSUME NEW s \in Sessions, WriteCompletes(s)
       PROVE  TypeOK'
  <2>1. ready' \in [Sessions -> Codes]
    BY <1>10, CompleteType DEF WriteCompletes, Codes
  <2>2. peer[s] = "open" => owed[s] > 0
    <3>1. InHand(s)
      BY <1>10 DEF WriteCompletes, Outstanding, InHand
    <3>2. Len(inbox[s]) \in Nat /\ owed[s] \in Nat
      BY BoundsAssumption DEF TypeOK
    <3> QED BY <3>1, <3>2 DEF Counted
  <2>3. owed' \in [Sessions -> 0 .. MaxSent]
    BY <1>10, <2>2, BoundsAssumption DEF TypeOK, WriteCompletes
  <2> QED BY <1>10, <2>1, <2>3 DEF TypeOK, WriteCompletes, Outside
<1> QED BY <1>1, <1>2, <1>3, <1>4, <1>5, <1>6, <1>7, <1>8, <1>9, <1>10
        DEF OutsideStep, Completion

LEMMA WorkerTypeOK ==
    ASSUME IInv, NEW w \in Workers,
           TakeSignal(w) \/ (\E s \in Sessions : Take(w, s)) \/ Handling(w)
    PROVE  TypeOK'
<1> USE DEF IInv
<1>0. /\ {Idle, Exited, Accepting, Stopping, StoppingService} \subseteq Activities
      /\ {"handshaking", "reading", "writing", "accepting"} \subseteq Operations
      /\ "no" \in Codes
  BY ActivityTypes DEF Operations, Codes
<1>1. CASE TakeSignal(w)
  <2>1. running' \in [Workers -> Activities]
    BY <1>0, <1>1, BecomeType DEF TakeSignal
  <2> QED BY <1>1, <2>1 DEF TypeOK, TakeSignal, Same, Net
<1>2. ASSUME NEW s \in Sessions, Take(w, s)
      PROVE  TypeOK'
  <2>1. phase[s] \in Operations /\ ready[s] \in Codes
    BY <1>2 DEF TypeOK, Take, ReadyWasOutstanding
  <2>2. running' \in [Workers -> Activities]
    BY <1>2, <2>1, ActivityTypes, BecomeType DEF Take
  <2>3. phase' \in [Sessions -> Operations \cup {"none"}]
    BY <1>2, StartType DEF Take
  <2>4. ready' \in [Sessions -> Codes]
    BY <1>0, <1>2, CompleteType DEF Take
  <2> QED BY <1>2, <2>2, <2>3, <2>4 DEF TypeOK, Take, Net, Pool
<1>3. ASSUME NEW op \in Operations, InHandler(w, op)
      PROVE  Of(w) \in Sessions
  BY <1>3, HandlerFields DEF InHandler, Of
<1>4. CASE Accepted(w)
  <2>1. running' \in [Workers -> Activities]
    BY <1>0, <1>4, BecomeType DEF Accepted
  <2>2. phase' \in [Sessions -> Operations \cup {"none"}]
    BY <1>0, <1>3, <1>4, StartType DEF Accepted
  <2> QED BY <1>4, <2>1, <2>2 DEF TypeOK, Accepted, Same, Net, Pool
<1>5. CASE AcceptFailed(w)
  BY <1>0, <1>3, <1>5, DeleteType DEF AcceptFailed
<1>6. CASE StartAccept(w)
  <2>1. PICK s \in Free : Start(s, "accepting") /\ alive' = alive \cup {s}
    BY <1>6 DEF StartAccept
  <2>2. s \in Sessions
    BY DEF Free
  <2>3. running' \in [Workers -> Activities]
    BY <1>0, <1>6, BecomeType DEF StartAccept
  <2>4. phase' \in [Sessions -> Operations \cup {"none"}]
    BY <1>0, <2>1, <2>2, StartType
  <2> QED BY <1>6, <2>1, <2>2, <2>3, <2>4 DEF TypeOK, StartAccept, Net, Pool
<1>7. CASE Handshaken(w)
  <2>1. running' \in [Workers -> Activities]
    BY <1>0, <1>7, BecomeType DEF Handshaken
  <2>2. phase' \in [Sessions -> Operations \cup {"none"}]
    BY <1>0, <1>3, <1>7, StartType DEF Handshaken
  <2> QED BY <1>7, <2>1, <2>2 DEF TypeOK, Handshaken, Same, Net, Pool
<1>8. CASE HandshakeFailed(w)
  BY <1>0, <1>3, <1>8, DeleteType DEF HandshakeFailed
<1>9. CASE Serve(w)
  <2>1. running' \in [Workers -> Activities]
    BY <1>0, <1>9, BecomeType DEF Serve
  <2>2. phase' \in [Sessions -> Operations \cup {"none"}]
    BY <1>0, <1>3, <1>9, StartType DEF Serve
  <2>3. framed' \in [Sessions -> BOOLEAN]
    BY <1>9 DEF TypeOK, Serve
  <2> QED BY <1>9, <2>1, <2>2, <2>3 DEF TypeOK, Serve, Net, Pool
<1>10. CASE BadRequest(w)
  BY <1>0, <1>3, <1>10, DeleteType DEF BadRequest
<1>11. CASE HandlerThrows(w)
  BY <1>11 DEF TypeOK, HandlerThrows, Same, Net
<1>12. CASE ReadEnded(w)
  BY <1>0, <1>3, <1>12, DeleteType DEF ReadEnded
<1>13. CASE Written(w)
  <2>1. running' \in [Workers -> Activities]
    BY <1>0, <1>13, BecomeType DEF Written
  <2>2. phase' \in [Sessions -> Operations \cup {"none"}]
    BY <1>0, <1>3, <1>13, StartType DEF Written
  <2>3. framed' \in [Sessions -> BOOLEAN]
    BY <1>13 DEF TypeOK, Written
  <2> QED BY <1>13, <2>1, <2>2, <2>3 DEF TypeOK, Written, Net, Pool
<1>14. CASE CloseAcceptor(w)
  <2>1. running' \in [Workers -> Activities]
    BY <1>0, <1>14, BecomeType DEF CloseAcceptor
  <2> QED BY <1>14, <2>1 DEF TypeOK, CloseAcceptor, Same, Net
<1>15. CASE StopService(w)
  <2>1. running' \in [Workers -> Activities]
    BY <1>0, <1>15, BecomeType DEF StopService
  <2> QED BY <1>15, <2>1 DEF TypeOK, StopService, Same, Net
<1>16. CASE Exit(w)
  <2>1. running' \in [Workers -> Activities]
    BY <1>0, <1>16, BecomeType DEF Exit
  <2> QED BY <1>16, <2>1 DEF TypeOK, Exit, Same, Net, Pool
<1> QED BY <1>1, <1>2, <1>4, <1>5, <1>6, <1>7, <1>8, <1>9, <1>10, <1>11, <1>12, <1>13, <1>14,
           <1>15, <1>16 DEF Handling

------------------------------------------------------------------------------
(* One owner.  The handlers change who owns a session in five ways. *)

(* Nothing the ownership of a session rests on has changed. *)
LEMMA UntouchedOwned ==
    ASSUME Owned, UNCHANGED <<alive, phase, running>>
    PROVE  Owned'
  BY DEF Owned, Owns

(* A worker goes from one thing that is no handler to another. *)
LEMMA ElsewhereOwned ==
    ASSUME TypeOK, Owned, NEW w \in Workers, running[w].does # "handler",
           NEW a \in {Idle, Exited, Accepting, Stopping, StoppingService}, Become(w, a),
           UNCHANGED <<alive, phase>>
    PROVE  Owned'
<1>1. a.does # "handler"
  BY NoHandler
<1>2. \A s \in Sessions, v \in Workers : Owns(v, s)' <=> Owns(v, s)
  BY <1>1 DEF TypeOK, Become, Owns
<1> QED BY <1>2 DEF Owned

(* Ownership is settled session by session. *)
LEMMA OwnedElsewhere ==
    ASSUME Owned, NEW s \in Sessions,
           \A t \in Sessions \ {s} :
                /\ phase'[t] = phase[t] /\ (t \in alive' <=> t \in alive)
                /\ \A v \in Workers : Owns(v, t)' <=> Owns(v, t),
           IF s \in alive'
           THEN \/ phase'[s] # "none" /\ \A v \in Workers : ~Owns(v, s)'
                \/ phase'[s] = "none"
                   /\ \E w \in Workers : \A v \in Workers : Owns(v, s)' <=> v = w
           ELSE phase'[s] = "none" /\ \A v \in Workers : ~Owns(v, s)'
    PROVE  Owned'
<1>1. ASSUME NEW t \in Sessions
      PROVE  IF t \in alive'
             THEN \/ phase'[t] # "none" /\ \A v \in Workers : ~Owns(v, t)'
                  \/ phase'[t] = "none"
                     /\ \E w \in Workers : \A v \in Workers : Owns(v, t)' <=> v = w
             ELSE phase'[t] = "none" /\ \A v \in Workers : ~Owns(v, t)'
  <2>1. CASE t = s
    BY <2>1
  <2>2. CASE t # s
    BY <2>2 DEF Owned
  <2> QED BY <2>1, <2>2
<1> QED BY <1>1 DEF Owned

(* The completion becomes a handler. *)
LEMMA TakeOwned ==
    ASSUME IInv, NEW w \in Workers, NEW s \in Sessions, Take(w, s)
    PROVE  Owned'
<1> USE DEF IInv
<1>1. phase[s] # "none" /\ s \in alive /\ \A v \in Workers : ~Owns(v, s)
  BY DEF Take, ReadyWasOutstanding, Owned
<1>2. /\ running'[w] = Handler(s, phase[s], ready[s])
      /\ \A v \in Workers \ {w} : running'[v] = running[v]
  BY DEF TypeOK, Take, Become
<1>3. \A v \in Workers : Owns(v, s)' <=> v = w
  BY <1>1, <1>2, HandlerHolds DEF Owns
<1>4. \A t \in Sessions \ {s}, v \in Workers : Owns(v, t)' <=> Owns(v, t)
  BY <1>2, NoHandler, HandlerHolds DEF Take, Owns
<1>5. phase'[s] = "none" /\ \A t \in Sessions \ {s} : phase'[t] = phase[t]
  BY DEF TypeOK, Take, Start
<1> QED BY <1>1, <1>3, <1>4, <1>5, OwnedElsewhere DEF Take

(* A worker that leaves a handler leaves its session without an owner. *)
LEMMA HandlerLeft ==
    ASSUME TypeOK, Owned, NEW w \in Workers, running[w].does = "handler",
           NEW a \in {Idle, Accepting}, Become(w, a), NEW s, s = Of(w)
    PROVE  /\ s \in alive /\ s \in Sessions
           /\ phase[s] = "none"
           /\ \A v \in Workers : ~Owns(v, s)'
           /\ \A t \in Sessions \ {s}, v \in Workers : Owns(v, t)' <=> Owns(v, t)
<1>1. s \in Sessions /\ Owns(w, s)
  BY HandlerFields DEF Of, Owns
<1>2. s \in alive /\ phase[s] = "none" /\ \A v \in Workers : Owns(v, s) <=> v = w
  BY <1>1 DEF Owned
<1>3. running'[w].does # "handler" /\ \A v \in Workers \ {w} : running'[v] = running[v]
  BY NoHandler DEF TypeOK, Become
<1>4. \A v \in Workers, r \in Sessions : Owns(v, r)' <=> Owns(v, r) /\ v # w
  BY <1>3 DEF Owns
<1>5. \A t \in Sessions \ {s} : ~Owns(w, t)
  BY DEF Owns, Of
<1> QED BY <1>1, <1>2, <1>4, <1>5

(* A handler starts the next operation of its session. *)
LEMMA ContinueOwned ==
    ASSUME IInv, NEW w \in Workers, running[w].does = "handler",
           NEW op \in Operations, Start(Of(w), op),
           NEW a \in {Idle, Accepting}, Become(w, a), UNCHANGED alive
    PROVE  Owned'
<1> USE DEF IInv
<1>1. PICK s : s = Of(w)
  OBVIOUS
<1>2. /\ s \in alive /\ s \in Sessions
      /\ \A v \in Workers : ~Owns(v, s)'
      /\ \A t \in Sessions \ {s}, v \in Workers : Owns(v, t)' <=> Owns(v, t)
  BY <1>1, HandlerLeft
<1>3. phase'[s] # "none" /\ \A t \in Sessions \ {s} : phase'[t] = phase[t]
  BY <1>1, <1>2 DEF TypeOK, Start, Operations
<1> QED BY <1>2, <1>3, OwnedElsewhere

(* A handler deletes its session. *)
LEMMA DeleteOwned ==
    ASSUME IInv, NEW w \in Workers, running[w].does = "handler", Delete(Of(w)),
           NEW a \in {Idle, Accepting}, Become(w, a)
    PROVE  Owned'
<1> USE DEF IInv
<1>1. PICK s : s = Of(w)
  OBVIOUS
<1>2. /\ s \in alive /\ s \in Sessions
      /\ \A v \in Workers : ~Owns(v, s)'
      /\ \A t \in Sessions \ {s}, v \in Workers : Owns(v, t)' <=> Owns(v, t)
  BY <1>1, HandlerLeft
<1>3. /\ phase'[s] = "none" /\ s \notin alive'
      /\ \A t \in Sessions \ {s} : phase'[t] = phase[t] /\ (t \in alive' <=> t \in alive)
  BY <1>1, <1>2 DEF TypeOK, Delete, Forget, Start
<1> QED BY <1>2, <1>3, OwnedElsewhere

(* start_accept makes a session and accepts into it. *)
LEMMA StartAcceptOwned ==
    ASSUME IInv, NEW w \in Workers, StartAccept(w)
    PROVE  Owned'
<1> USE DEF IInv
<1>1. PICK s \in Free : Start(s, "accepting") /\ alive' = alive \cup {s}
  BY DEF StartAccept
<1>2. s \in Sessions /\ s \notin alive
  BY DEF Free
<1>3. \A t \in Sessions, v \in Workers : Owns(v, t)' <=> Owns(v, t)
  BY NoHandler DEF TypeOK, StartAccept, Become, Owns
<1>4. phase'[s] # "none" /\ \A t \in Sessions \ {s} : phase'[t] = phase[t]
  BY <1>1, <1>2 DEF TypeOK, Start
<1> QED BY <1>1, <1>2, <1>3, <1>4, OwnedElsewhere DEF Owned

LEMMA WorkerOwned ==
    ASSUME IInv, NEW w \in Workers,
           TakeSignal(w) \/ (\E s \in Sessions : Take(w, s)) \/ Handling(w)
    PROVE  Owned'
<1> USE DEF IInv
<1>0. {"handshaking", "reading", "writing"} \subseteq Operations
  BY DEF Operations
<1>1. CASE TakeSignal(w)
  BY <1>1, NoHandler, ElsewhereOwned DEF TakeSignal, Same
<1>2. ASSUME NEW s \in Sessions, Take(w, s)
      PROVE  Owned'
  BY <1>2, TakeOwned
<1>3. CASE Accepted(w)
  BY <1>0, <1>3, ContinueOwned DEF Accepted, InHandler, Same
<1>4. CASE AcceptFailed(w)
  BY <1>4, DeleteOwned DEF AcceptFailed, InHandler
<1>5. CASE StartAccept(w)
  BY <1>5, StartAcceptOwned
<1>6. CASE Handshaken(w)
  BY <1>0, <1>6, ContinueOwned DEF Handshaken, InHandler, Same
<1>7. CASE HandshakeFailed(w)
  BY <1>7, DeleteOwned DEF HandshakeFailed, InHandler
<1>8. CASE Serve(w)
  BY <1>0, <1>8, ContinueOwned DEF Serve, InHandler
<1>9. CASE BadRequest(w)
  BY <1>9, DeleteOwned DEF BadRequest, InHandler
<1>10. CASE HandlerThrows(w)
  BY <1>10, UntouchedOwned DEF HandlerThrows, Same
<1>11. CASE ReadEnded(w)
  BY <1>11, DeleteOwned DEF ReadEnded, InHandler
<1>12. CASE Written(w)
  BY <1>0, <1>12, ContinueOwned DEF Written, InHandler
<1>13. CASE CloseAcceptor(w)
  BY <1>13, NoHandler, ElsewhereOwned DEF CloseAcceptor, Same
<1>14. CASE StopService(w)
  BY <1>14, NoHandler, ElsewhereOwned DEF StopService, Same
<1>15. CASE Exit(w)
  BY <1>15, NoHandler, ElsewhereOwned DEF Exit, Same
<1> QED BY <1>1, <1>2, <1>3, <1>4, <1>5, <1>6, <1>7, <1>8, <1>9, <1>10, <1>11, <1>12, <1>13,
           <1>14, <1>15 DEF Handling

------------------------------------------------------------------------------
(* A completion belongs to an outstanding operation. *)

LEMMA OutsideReady ==
    ASSUME IInv, OutsideStep
    PROVE  ReadyWasOutstanding'
<1> USE DEF IInv
<1>1. phase' = phase
  BY DEF OutsideStep, Completion, Outside, Signal, Connect, AcceptFails, AcceptAborted,
         HandshakeCompletes, RequestArrives, ReadEnds, WriteCompletes, Send, Leave
<1>2. \/ ready' = ready
      \/ \E s \in Sessions : phase[s] # "none" /\ \A t \in Sessions \ {s} : ready'[t] = ready[t]
  BY DEF TypeOK, OutsideStep, Completion, Signal, Connect, AcceptFails, AcceptAborted,
         HandshakeCompletes, RequestArrives, ReadEnds, WriteCompletes, Send, Leave,
         Complete, Outstanding
<1> QED BY <1>1, <1>2 DEF ReadyWasOutstanding

LEMMA WorkerReady ==
    ASSUME IInv, NEW w \in Workers,
           TakeSignal(w) \/ (\E s \in Sessions : Take(w, s)) \/ Handling(w)
    PROVE  ReadyWasOutstanding'
<1> USE DEF IInv
<1>1. ASSUME NEW s \in Sessions, Take(w, s)
      PROVE  ReadyWasOutstanding'
  BY <1>1 DEF TypeOK, Take, Start, Complete, ReadyWasOutstanding
<1>2. ASSUME NEW op \in Operations, NEW s \in Sessions, Start(s, op), UNCHANGED ready
      PROVE  ReadyWasOutstanding'
  BY <1>2 DEF TypeOK, Start, Operations, ReadyWasOutstanding
<1>3. ASSUME NEW s \in Sessions, Delete(s)
      PROVE  ReadyWasOutstanding'
  BY <1>3 DEF TypeOK, Delete, Forget, Start, ReadyWasOutstanding
<1>4. ASSUME NEW op \in Operations, InHandler(w, op)
      PROVE  Of(w) \in Sessions
  BY <1>4, HandlerFields DEF InHandler, Of
<1>5. CASE Accepted(w) \/ Handshaken(w) \/ Serve(w) \/ Written(w)
  BY <1>2, <1>4, <1>5 DEF Accepted, Handshaken, Serve, Written, Same, Operations
<1>6. CASE AcceptFailed(w) \/ HandshakeFailed(w) \/ BadRequest(w) \/ ReadEnded(w)
  BY <1>3, <1>4, <1>6 DEF AcceptFailed, HandshakeFailed, BadRequest, ReadEnded, Operations
<1>7. CASE StartAccept(w)
  BY <1>2, <1>7 DEF StartAccept, Free, Operations
<1>8. CASE TakeSignal(w) \/ HandlerThrows(w) \/ CloseAcceptor(w) \/ StopService(w) \/ Exit(w)
  BY <1>8 DEF TakeSignal, HandlerThrows, CloseAcceptor, StopService, Exit, Same, ReadyWasOutstanding
<1> QED BY <1>1, <1>5, <1>6, <1>7, <1>8 DEF Handling

------------------------------------------------------------------------------
(* One accept.  The token of the accept chain is a session that accepts or a
   worker in handle_accept or start_accept. *)

LEMMA UntouchedChained ==
    ASSUME Chained,
           \A s \in Sessions : phase'[s] = "accepting" <=> phase[s] = "accepting",
           \A w \in Workers : TakesAccept(w)' <=> TakesAccept(w)
    PROVE  Chained'
  BY DEF Chained

(* A worker turns from one thing outside the chain to another. *)
LEMMA ElsewhereChained ==
    ASSUME TypeOK, Chained, NEW w \in Workers, ~TakesAccept(w),
           NEW a \in {Idle, Exited, Stopping, StoppingService}, Become(w, a),
           \A s \in Sessions : phase'[s] = "accepting" <=> phase[s] = "accepting"
    PROVE  Chained'
<1>1. ~(a = Accepting \/ (a.does = "handler" /\ a.op = "accepting"))
  BY NoHandler
<1>2. running'[w] = a /\ \A v \in Workers \ {w} : running'[v] = running[v]
  BY DEF TypeOK, Become
<1>3. \A v \in Workers : TakesAccept(v)' <=> TakesAccept(v)
  BY <1>1, <1>2 DEF TakesAccept, InHandler
<1> QED BY <1>3, UntouchedChained

LEMMA TakeChained ==
    ASSUME IInv, NEW w \in Workers, NEW s \in Sessions, Take(w, s)
    PROVE  Chained'
<1> USE DEF IInv
<1>1. /\ running'[w] = Handler(s, phase[s], ready[s])
      /\ \A v \in Workers \ {w} : running'[v] = running[v]
  BY DEF TypeOK, Take, Become
<1>2. TakesAccept(w)' <=> phase[s] = "accepting"
  BY <1>1, HandlerHolds DEF TakesAccept, InHandler
<1>3. ~TakesAccept(w) /\ \A v \in Workers \ {w} : TakesAccept(v)' <=> TakesAccept(v)
  BY <1>1, NoHandler DEF Take, TakesAccept, InHandler
<1>4. phase'[s] = "none" /\ \A t \in Sessions \ {s} : phase'[t] = phase[t]
  BY DEF TypeOK, Take, Start
<1>5. CASE phase[s] = "accepting"
  <2>1. /\ \A t \in Sessions : phase[t] = "accepting" <=> t = s
        /\ \A v \in Workers : ~TakesAccept(v)
    BY <1>5 DEF Chained
  <2>2. \A t \in Sessions : phase'[t] # "accepting"
    BY <1>4, <2>1
  <2>3. \A v \in Workers : TakesAccept(v)' <=> v = w
    BY <1>2, <1>3, <1>5, <2>1
  <2> QED BY <2>2, <2>3 DEF Chained
<1>6. CASE phase[s] # "accepting"
  BY <1>2, <1>3, <1>4, <1>6, UntouchedChained
<1> QED BY <1>5, <1>6

(* handle_accept, its session aside: the worker goes on to start_accept. *)
LEMMA AcceptChained ==
    ASSUME IInv, NEW w \in Workers, InHandler(w, "accepting"), Become(w, Accepting),
           \A t \in Sessions : phase'[t] = "accepting" => phase[t] = "accepting"
    PROVE  Chained'
<1> USE DEF IInv
<1>1. TakesAccept(w)
  BY DEF TakesAccept
<1>2. \A t \in Sessions : phase[t] # "accepting"
  BY <1>1 DEF Chained
<1>3. \A v \in Workers : TakesAccept(v)' <=> TakesAccept(v)
  BY <1>1 DEF TypeOK, Become, TakesAccept, InHandler
<1> QED BY <1>2, <1>3, UntouchedChained

LEMMA StartAcceptChained ==
    ASSUME IInv, NEW w \in Workers, StartAccept(w)
    PROVE  Chained'
<1> USE DEF IInv
<1>1. PICK s \in Free : Start(s, "accepting")
  BY DEF StartAccept
<1>2. s \in Sessions
  BY <1>1 DEF Free
<1>3. TakesAccept(w)
  BY DEF StartAccept, TakesAccept
<1>4. /\ \A t \in Sessions : phase[t] # "accepting"
      /\ \A v \in Workers : TakesAccept(v) <=> v = w
  BY <1>3 DEF Chained
<1>5. \A t \in Sessions : phase'[t] = "accepting" <=> t = s
  BY <1>1, <1>2, <1>4 DEF TypeOK, Start
<1>6. running'[w] = Idle /\ \A v \in Workers \ {w} : running'[v] = running[v]
  BY DEF TypeOK, StartAccept, Become
<1>7. \A v \in Workers : ~TakesAccept(v)'
  BY <1>4, <1>6, NoHandler DEF TakesAccept, InHandler
<1> QED BY <1>2, <1>5, <1>7 DEF Chained

LEMMA WorkerChained ==
    ASSUME IInv, NEW w \in Workers,
           TakeSignal(w) \/ (\E s \in Sessions : Take(w, s)) \/ Handling(w)
    PROVE  Chained'
<1> USE DEF IInv
<1>1. ASSUME NEW s \in Sessions, Take(w, s)
      PROVE  Chained'
  BY <1>1, TakeChained
<1>2. ASSUME NEW op \in Operations, InHandler(w, op)
      PROVE  /\ Of(w) \in Sessions /\ phase[Of(w)] = "none"
             /\ op # "accepting" => ~TakesAccept(w)
  <2>1. Of(w) \in Sessions /\ running[w] # Accepting /\ Owns(w, Of(w))
    BY <1>2, HandlerFields DEF InHandler, Of, Owns
  <2> QED BY <1>2, <2>1 DEF Owned, TakesAccept, InHandler
<1>3. ASSUME NEW s \in Sessions, phase[s] = "none",
             NEW op \in {"none", "handshaking", "reading", "writing"}, Start(s, op)
      PROVE  \A t \in Sessions : phase'[t] = "accepting" <=> phase[t] = "accepting"
  BY <1>3 DEF TypeOK, Start
<1>4. CASE Accepted(w)
  BY <1>2, <1>3, <1>4, AcceptChained DEF Accepted, Operations
<1>5. CASE AcceptFailed(w)
  BY <1>2, <1>3, <1>5, AcceptChained DEF AcceptFailed, Delete, Operations
<1>6. CASE StartAccept(w)
  BY <1>6, StartAcceptChained
<1>7. CASE Handshaken(w)
  BY <1>2, <1>3, <1>7, ElsewhereChained DEF Handshaken, Operations
<1>8. CASE HandshakeFailed(w)
  BY <1>2, <1>3, <1>8, ElsewhereChained DEF HandshakeFailed, Delete, Operations
<1>9. CASE Serve(w)
  BY <1>2, <1>3, <1>9, ElsewhereChained DEF Serve, Operations
<1>10. CASE BadRequest(w)
  BY <1>2, <1>3, <1>10, ElsewhereChained DEF BadRequest, Delete, Operations
<1>11. CASE HandlerThrows(w)
  BY <1>11, UntouchedChained DEF HandlerThrows, TakesAccept, InHandler
<1>12. CASE ReadEnded(w)
  BY <1>2, <1>3, <1>12, ElsewhereChained DEF ReadEnded, Delete, Operations
<1>13. CASE Written(w)
  BY <1>2, <1>3, <1>13, ElsewhereChained DEF Written, Operations
<1>14. CASE TakeSignal(w) \/ CloseAcceptor(w) \/ StopService(w) \/ Exit(w)
  <2>1. running[w] \in {Idle, Stopping, StoppingService} /\ phase' = phase
    BY <1>14 DEF TakeSignal, CloseAcceptor, StopService, Exit, Same
  <2>2. ~TakesAccept(w)
    BY <2>1, NoHandler DEF TakesAccept, InHandler
  <2> QED BY <1>14, <2>1, <2>2, ElsewhereChained DEF TakeSignal, CloseAcceptor, StopService, Exit
<1> QED BY <1>1, <1>4, <1>5, <1>6, <1>7, <1>8, <1>9, <1>10, <1>11, <1>12, <1>13, <1>14
        DEF Handling

------------------------------------------------------------------------------
(* Requests that are owed. *)

LEMMA OwedTypes ==
    ASSUME TypeOK, NEW s \in Sessions
    PROVE  owed[s] \in Nat /\ sent[s] \in Nat /\ inbox[s] \in Seq(Kinds) /\ Len(inbox[s]) \in Nat
  BY BoundsAssumption DEF TypeOK

(* Only the session of the step has its requests counted anew. *)
LEMMA CountedElsewhere ==
    ASSUME Counted, NEW s \in Sessions,
           \A t \in Sessions \ {s} :
                /\ owed'[t] = owed[t] /\ sent'[t] = sent[t]
                /\ inbox'[t] = inbox[t] /\ peer'[t] = peer[t]
                /\ InHand(t)' => InHand(t),
           owed'[s] <= sent'[s],
           peer'[s] = "none" => inbox'[s] = <<>>,
           peer'[s] = "open" => owed'[s] >= Len(inbox'[s]),
           peer'[s] = "open" /\ InHand(s)' => owed'[s] > Len(inbox'[s])
    PROVE  Counted'
<1>1. ASSUME NEW t \in Sessions
      PROVE  /\ owed'[t] <= sent'[t]
             /\ peer'[t] = "none" => inbox'[t] = <<>>
             /\ peer'[t] = "open" => owed'[t] >= Len(inbox'[t])
             /\ peer'[t] = "open" /\ InHand(t)' => owed'[t] > Len(inbox'[t])
  <2>1. CASE t = s
    BY <2>1
  <2>2. CASE t # s
    BY <2>2 DEF Counted
  <2> QED BY <2>1, <2>2
<1> QED BY <1>1 DEF Counted

(* No request comes into hand: nothing else is counted. *)
LEMMA CountedKept ==
    ASSUME Counted, Net, \A s \in Sessions : InHand(s)' => InHand(s)
    PROVE  Counted'
  BY DEF Counted, Net

(* Another completion of s leaves what is in hand of the other sessions. *)
LEMMA OtherInHand ==
    ASSUME TypeOK, NEW s \in Sessions, UNCHANGED <<phase, running>>,
           \A t \in Sessions \ {s} : ready'[t] = ready[t]
    PROVE  \A t \in Sessions \ {s} : InHand(t)' <=> InHand(t)
  BY DEF InHand, Owns

LEMMA OutsideCounted ==
    ASSUME IInv, OutsideStep
    PROVE  Counted'
<1> USE DEF IInv
<1>0. phase' = phase /\ running' = running
  BY DEF OutsideStep, Completion, Outside, Signal, Connect, AcceptFails, AcceptAborted,
         HandshakeCompletes, RequestArrives, ReadEnds, WriteCompletes, Send, Leave
<1>1. ASSUME NEW s \in Sessions, NEW code, Complete(s, code)
      PROVE  ready'[s] = code /\ \A t \in Sessions \ {s} : ready'[t] = ready[t]
  BY <1>1 DEF TypeOK, Complete
<1>2. CASE Signal
  BY <1>0, <1>2, CountedKept DEF Signal, Net, InHand, Owns
<1>3. ASSUME NEW s \in Sessions, Outstanding(s, "accepting")
      PROVE  ~InHand(s)' /\ ~InHand(s)
  <2>1. phase[s] = "accepting" /\ \A w \in Workers : ~Owns(w, s)
    BY <1>3 DEF Outstanding, Owned
  <2>2. \A w \in Workers : ~Owns(w, s)'
    BY <1>0, <2>1 DEF Owns
  <2> QED BY <1>0, <2>1, <2>2 DEF InHand
<1>4. ASSUME NEW s \in Sessions, Connect(s)
      PROVE  Counted'
  <2>1. \A t \in Sessions \ {s} : ready'[t] = ready[t] /\ peer'[t] = peer[t]
    BY <1>1, <1>4 DEF TypeOK, Connect
  <2>2. \A t \in Sessions \ {s} : InHand(t)' <=> InHand(t)
    BY <1>0, <2>1, OtherInHand
  <2>3. ~InHand(s)'
    BY <1>3, <1>4 DEF Connect
  <2>4. peer'[s] = "open"
    BY <1>4 DEF TypeOK, Connect
  <2>5. inbox[s] = <<>>
    BY <1>4 DEF Connect, Unconnected, Counted
  <2>6. owed[s] <= sent[s] /\ owed[s] >= Len(inbox[s])
    BY <2>5, OwedTypes DEF Counted
  <2>7. UNCHANGED <<inbox, sent, owed>>
    BY <1>4 DEF Connect
  <2> QED BY <2>1, <2>2, <2>3, <2>4, <2>6, <2>7, CountedElsewhere
<1>5. ASSUME NEW s \in Sessions, AcceptFails(s) \/ AcceptAborted(s)
      PROVE  Counted'
  <2>1. Net /\ Outstanding(s, "accepting") /\ \A t \in Sessions \ {s} : ready'[t] = ready[t]
    BY <1>1, <1>5 DEF AcceptFails, AcceptAborted, Net
  <2>2. \A t \in Sessions : InHand(t)' => InHand(t)
    BY <1>0, <1>3, <2>1, OtherInHand
  <2> QED BY <2>1, <2>2, CountedKept
<1>6. ASSUME NEW s \in Sessions, HandshakeCompletes(s)
      PROVE  Counted'
  <2>1. Net /\ phase[s] = "handshaking" /\ \A t \in Sessions \ {s} : ready'[t] = ready[t]
    BY <1>1, <1>6 DEF HandshakeCompletes, Net, Outstanding
  <2>2. InHand(s)' => InHand(s)
    BY <1>0, <2>1 DEF InHand, Owns
  <2>3. \A t \in Sessions : InHand(t)' => InHand(t)
    BY <1>0, <2>1, <2>2, OtherInHand
  <2> QED BY <2>1, <2>3, CountedKept
<1>7. ASSUME NEW s \in Sessions, NEW kind \in Kinds, Send(s, kind)
      PROVE  Counted'
  <2>1. /\ sent'[s] = sent[s] + 1 /\ owed'[s] = owed[s] + 1
        /\ inbox'[s] = Append(inbox[s], kind) /\ peer'[s] = "open" /\ peer[s] = "open"
    BY <1>7 DEF TypeOK, Send
  <2>2. \A t \in Sessions \ {s} : /\ owed'[t] = owed[t] /\ sent'[t] = sent[t]
                                 /\ inbox'[t] = inbox[t] /\ peer'[t] = peer[t]
    BY <1>7 DEF TypeOK, Send
  <2>3. ready' = ready
    BY <1>7 DEF Send
  <2>4. \A t \in Sessions : InHand(t)' <=> InHand(t)
    BY <1>0, <2>3 DEF InHand, Owns
  <2>5. Len(inbox'[s]) = Len(inbox[s]) + 1
    BY <2>1, OwedTypes
  <2>6. /\ owed[s] <= sent[s] /\ owed[s] >= Len(inbox[s])
        /\ InHand(s) => owed[s] > Len(inbox[s])
    BY <2>1 DEF Counted
  <2>7. /\ owed'[s] <= sent'[s] /\ owed'[s] >= Len(inbox'[s])
        /\ InHand(s) => owed'[s] > Len(inbox'[s])
    BY <2>1, <2>5, <2>6, OwedTypes
  <2> QED BY <2>1, <2>2, <2>4, <2>7, CountedElsewhere
<1>8. ASSUME NEW s \in Sessions, Leave(s)
      PROVE  Counted'
  <2>1. owed'[s] = 0 /\ peer'[s] \in {"closed", "reset"}
    BY <1>8 DEF TypeOK, Leave
  <2>2. \A t \in Sessions \ {s} : owed'[t] = owed[t] /\ peer'[t] = peer[t]
    BY <1>8 DEF TypeOK, Leave
  <2>3. UNCHANGED <<ready, inbox, sent>>
    BY <1>8 DEF Leave
  <2>4. \A t \in Sessions : InHand(t)' <=> InHand(t)
    BY <1>0, <2>3 DEF InHand, Owns
  <2> QED BY <2>1, <2>2, <2>3, <2>4, OwedTypes, CountedElsewhere
<1>9. ASSUME NEW s \in Sessions, RequestArrives(s)
      PROVE  Counted'
  <2>1. /\ inbox'[s] = Tail(inbox[s]) /\ inbox[s] # <<>>
        /\ UNCHANGED <<peer, sent, owed>>
        /\ \A t \in Sessions \ {s} : inbox'[t] = inbox[t]
    BY <1>9 DEF TypeOK, RequestArrives
  <2>2. \A t \in Sessions \ {s} : InHand(t)' <=> InHand(t)
    BY <1>0, <1>1, <1>9, OtherInHand DEF RequestArrives
  <2>3. Len(inbox'[s]) = Len(inbox[s]) - 1
    BY <2>1, OwedTypes
  <2>4. owed[s] <= sent[s] /\ peer[s] # "none" /\ (peer[s] = "open" => owed[s] >= Len(inbox[s]))
    BY <2>1 DEF Counted
  <2>5. peer[s] = "open" => owed[s] > Len(inbox'[s])
    BY <2>3, <2>4, OwedTypes
  <2>6. peer[s] = "open" => owed[s] >= Len(inbox'[s])
    BY <2>3, <2>4, OwedTypes
  <2> QED BY <2>1, <2>2, <2>4, <2>5, <2>6, CountedElsewhere
<1>10. ASSUME NEW s \in Sessions, ReadEnds(s)
       PROVE  Counted'
  <2>1. Net /\ phase[s] = "reading" /\ \A t \in Sessions \ {s} : ready'[t] = ready[t]
    BY <1>1, <1>10 DEF ReadEnds, Net, Outstanding
  <2>2. ready'[s] \in {"eof", "error"}
    BY <1>1, <1>10 DEF ReadEnds
  <2>3. InHand(s)' => InHand(s)
    BY <1>0, <2>1, <2>2 DEF InHand, Owns, Requests
  <2>4. \A t \in Sessions : InHand(t)' => InHand(t)
    BY <1>0, <2>1, <2>3, OtherInHand
  <2> QED BY <2>1, <2>4, CountedKept
<1>11. ASSUME NEW s \in Sessions, WriteCompletes(s)
       PROVE  Counted'
  <2>1. /\ phase[s] = "writing" /\ ready[s] = "no" /\ ready'[s] # "no"
        /\ UNCHANGED <<peer, inbox, sent>>
        /\ \A t \in Sessions \ {s} : ready'[t] = ready[t]
    BY <1>1, <1>11 DEF WriteCompletes, Outstanding
  <2>2. InHand(s) /\ \A w \in Workers : ~Owns(w, s)
    BY <2>1 DEF InHand, Owned
  <2>3. ~InHand(s)'
    BY <1>0, <2>1, <2>2 DEF InHand, Owns
  <2>4. \A t \in Sessions \ {s} : InHand(t)' <=> InHand(t)
    BY <1>0, <2>1, OtherInHand
  <2>5. /\ \A t \in Sessions \ {s} : owed'[t] = owed[t]
        /\ owed'[s] \in {owed[s], owed[s] - 1}
        /\ peer[s] # "open" => owed'[s] = owed[s]
    BY <1>11 DEF TypeOK, WriteCompletes
  <2>6. /\ owed[s] <= sent[s] /\ (peer[s] = "none" => inbox[s] = <<>>)
        /\ peer[s] = "open" => owed[s] > Len(inbox[s])
    BY <2>2 DEF Counted
  <2>7. owed'[s] <= sent[s] /\ (peer[s] = "open" => owed'[s] >= Len(inbox[s]))
    BY <2>5, <2>6, OwedTypes
  <2> QED BY <2>1, <2>3, <2>4, <2>5, <2>6, <2>7, CountedElsewhere
<1> QED BY <1>2, <1>4, <1>5, <1>6, <1>7, <1>8, <1>9, <1>10, <1>11 DEF OutsideStep, Completion

(* The handlers: what is in hand stays so or is done with. *)
LEMMA WorkerCounted ==
    ASSUME IInv, NEW w \in Workers,
           TakeSignal(w) \/ (\E s \in Sessions : Take(w, s)) \/ Handling(w)
    PROVE  Counted'
<1> USE DEF IInv
<1>1. ASSUME NEW a \in Activities, Become(w, a)
      PROVE  running'[w] = a /\ \A v \in Workers \ {w} : running'[v] = running[v]
  BY <1>1 DEF TypeOK, Become
<1>2. ASSUME NEW s \in Sessions, Take(w, s)
      PROVE  Counted'
  <2>1. phase[s] \in Operations /\ ready[s] \in Codes
    BY <1>2 DEF TypeOK, Take, ReadyWasOutstanding
  <2>2. /\ running'[w] = Handler(s, phase[s], ready[s])
        /\ \A v \in Workers \ {w} : running'[v] = running[v]
    BY <1>1, <1>2, <2>1, ActivityTypes DEF Take
  <2>3. \A v \in Workers : ~Owns(v, s)
    BY <2>1, <1>2 DEF Owned, Take, ReadyWasOutstanding
  <2>4. phase'[s] = "none"
    BY <1>2 DEF TypeOK, Take, Start
  <2>5. InHand(s)' => InHand(s)
    BY <2>2, <2>3, <2>4, HandlerHolds DEF InHand, Owns
  <2>6. \A t \in Sessions \ {s} : phase'[t] = phase[t] /\ ready'[t] = ready[t]
    BY <1>2 DEF TypeOK, Take, Start, Complete
  <2>7. \A t \in Sessions \ {s} : InHand(t)' => InHand(t)
    BY <2>2, <2>6, HandlerHolds DEF InHand, Owns
  <2> QED BY <1>2, <2>5, <2>7, CountedKept DEF Take
<1>3. ASSUME NEW op \in Operations, InHandler(w, op)
      PROVE  /\ Of(w) \in Sessions /\ Owns(w, Of(w)) /\ ready[Of(w)] = "no"
             /\ \A v \in Workers : Owns(v, Of(w)) <=> v = w
  <2>1. Of(w) \in Sessions /\ Owns(w, Of(w))
    BY <1>3, HandlerFields DEF InHandler, Of, Owns
  <2> QED BY <2>1 DEF Owned, ReadyWasOutstanding
<1>4. ASSUME NEW a \in {Idle, Exited, Accepting, Stopping, StoppingService}, Become(w, a)
      PROVE  \A v \in Workers, t \in Sessions : Owns(v, t)' => Owns(v, t) /\ running'[v] = running[v]
  <2>1. a \in Activities /\ a.does # "handler"
    BY NoHandler, ActivityTypes
  <2> QED BY <1>1, <1>4, <2>1 DEF Owns
<1>5. ASSUME NEW a \in {Idle, Exited, Accepting, Stopping, StoppingService}, Become(w, a),
             NEW s \in Sessions, NEW op \in Operations, Start(s, op), ready[s] = "no",
             op = "writing" => InHand(s), UNCHANGED ready, Net
      PROVE  Counted'
  <2>1. phase'[s] = op /\ \A t \in Sessions \ {s} : phase'[t] = phase[t]
    BY <1>5 DEF TypeOK, Start
  <2>2. \A v \in Workers, t \in Sessions : Owns(v, t)' => Owns(v, t) /\ running'[v] = running[v]
    BY <1>4, <1>5
  <2>3. \A t \in Sessions : InHand(t)' => InHand(t)
    BY <1>5, <2>1, <2>2 DEF InHand, Requests
  <2> QED BY <1>5, <2>3, CountedKept
<1>6. ASSUME NEW a \in {Idle, Accepting}, Become(w, a), NEW s \in Sessions, Delete(s)
      PROVE  Counted'
  <2>1. \A v \in Workers, t \in Sessions : Owns(v, t)' => Owns(v, t) /\ running'[v] = running[v]
    BY <1>4, <1>6
  <2>2. /\ peer'[s] = "none" /\ inbox'[s] = <<>> /\ sent'[s] = 0 /\ owed'[s] = 0
        /\ \A t \in Sessions \ {s} :
             /\ owed'[t] = owed[t] /\ sent'[t] = sent[t] /\ inbox'[t] = inbox[t]
             /\ peer'[t] = peer[t] /\ phase'[t] = phase[t] /\ ready'[t] = ready[t]
    BY <1>6 DEF TypeOK, Delete, Forget, Start
  <2>3. \A t \in Sessions \ {s} : InHand(t)' => InHand(t)
    BY <2>1, <2>2 DEF InHand
  <2> QED BY <2>2, <2>3, CountedElsewhere
<1>7. CASE Accepted(w)
  BY <1>3, <1>5, <1>7 DEF Accepted, Same, Operations
<1>8. CASE AcceptFailed(w)
  BY <1>3, <1>6, <1>8 DEF AcceptFailed, Operations
<1>9. CASE StartAccept(w)
  <2>1. PICK s \in Free : Start(s, "accepting")
    BY <1>9 DEF StartAccept
  <2>2. s \in Sessions /\ ready[s] = "no"
    BY DEF TypeOK, Free, Owned, ReadyWasOutstanding
  <2> QED BY <1>5, <1>9, <2>1, <2>2 DEF StartAccept, Operations
<1>10. CASE Handshaken(w)
  BY <1>3, <1>5, <1>10 DEF Handshaken, Same, Operations
<1>11. CASE HandshakeFailed(w)
  BY <1>3, <1>6, <1>11 DEF HandshakeFailed, Operations
<1>12. CASE Serve(w)
  <2>1. Of(w) \in Sessions /\ ready[Of(w)] = "no" /\ InHand(Of(w))
    BY <1>3, <1>12 DEF Serve, InHandler, InHand, Owns, Code, Requests, Operations
  <2> QED BY <1>5, <1>12, <2>1 DEF Serve, Operations
<1>13. CASE BadRequest(w)
  BY <1>3, <1>6, <1>13 DEF BadRequest, Operations
<1>14. CASE ReadEnded(w)
  BY <1>3, <1>6, <1>14 DEF ReadEnded, Operations
<1>15. CASE Written(w)
  BY <1>3, <1>5, <1>15 DEF Written, Operations
<1>16. CASE HandlerThrows(w)
  BY <1>16, CountedKept DEF HandlerThrows, Same, InHand, Owns
<1>17. CASE TakeSignal(w) \/ CloseAcceptor(w) \/ StopService(w) \/ Exit(w)
  <2>1. UNCHANGED <<phase, ready>> /\ Net
    BY <1>17 DEF TakeSignal, CloseAcceptor, StopService, Exit, Same
  <2>2. \A v \in Workers, t \in Sessions : Owns(v, t)' => Owns(v, t) /\ running'[v] = running[v]
    BY <1>4, <1>17 DEF TakeSignal, CloseAcceptor, StopService, Exit
  <2> QED BY <2>1, <2>2, CountedKept DEF InHand
<1> QED BY <1>2, <1>7, <1>8, <1>9, <1>10, <1>11, <1>12, <1>13, <1>14, <1>15, <1>16, <1>17
        DEF Handling

------------------------------------------------------------------------------
(* Nobody is connected to a session before its accept completes. *)

LEMMA OutsideUnconnected ==
    ASSUME IInv, OutsideStep
    PROVE  Unconnected'
<1> USE DEF IInv
<1>1. UNCHANGED <<alive, phase>>
  BY DEF OutsideStep, Completion, Outside, Signal, Connect, AcceptFails, AcceptAborted,
         HandshakeCompletes, RequestArrives, ReadEnds, WriteCompletes, Send, Leave
<1>2. ASSUME NEW s \in Sessions, NEW code \in Codes \ {"no"}, Complete(s, code)
      PROVE  \A t \in Sessions : Outstanding(t, "accepting")' => Outstanding(t, "accepting")
  BY <1>1, <1>2 DEF TypeOK, Complete, Outstanding
<1>3. ASSUME NEW s \in Sessions, Connect(s)
      PROVE  Unconnected'
  <2>1. s \in alive
    BY <1>3 DEF Connect, Outstanding, Owned
  <2>2. ready'[s] = "ok" /\ \A t \in Sessions \ {s} : ready'[t] = ready[t] /\ peer'[t] = peer[t]
    BY <1>3 DEF TypeOK, Connect, Complete
  <2> QED BY <1>1, <2>1, <2>2 DEF Unconnected, Outstanding
<1>4. ASSUME NEW s \in Sessions, AcceptFails(s) \/ AcceptAborted(s) \/ HandshakeCompletes(s) \/ ReadEnds(s)
      PROVE  Unconnected'
  <2>1. PICK code \in {"ok", "eof", "error"} : Complete(s, code)
    BY <1>4 DEF AcceptFails, AcceptAborted, HandshakeCompletes, ReadEnds
  <2>2. \A t \in Sessions : Outstanding(t, "accepting")' => Outstanding(t, "accepting")
    BY <1>2, <2>1 DEF Codes
  <2>3. peer' = peer
    BY <1>4 DEF AcceptFails, AcceptAborted, HandshakeCompletes, ReadEnds
  <2> QED BY <1>1, <2>2, <2>3 DEF Unconnected
<1>5. ASSUME NEW s \in Sessions, RequestArrives(s) \/ WriteCompletes(s)
      PROVE  Unconnected'
  <2>1. phase[s] \in {"reading", "writing"} /\ peer' = peer
        /\ \A t \in Sessions \ {s} : ready'[t] = ready[t]
    BY <1>5 DEF TypeOK, RequestArrives, WriteCompletes, Outstanding, Complete
  <2> QED BY <1>1, <2>1 DEF Unconnected, Outstanding
<1>6. ASSUME NEW s \in Sessions, Leave(s)
      PROVE  Unconnected'
  <2>1. peer[s] = "open" /\ ready' = ready /\ \A t \in Sessions \ {s} : peer'[t] = peer[t]
    BY <1>6 DEF TypeOK, Leave
  <2> QED BY <1>1, <2>1 DEF Unconnected, Outstanding
<1>7. ASSUME Signal \/ \E s \in Sessions, kind \in Kinds : Send(s, kind)
      PROVE  Unconnected'
  <2>1. UNCHANGED <<ready, peer>>
    BY <1>7 DEF Signal, Send
  <2> QED BY <1>1, <2>1 DEF Unconnected, Outstanding
<1> QED BY <1>3, <1>4, <1>5, <1>6, <1>7 DEF OutsideStep, Completion

LEMMA WorkerUnconnected ==
    ASSUME IInv, NEW w \in Workers,
           TakeSignal(w) \/ (\E s \in Sessions : Take(w, s)) \/ Handling(w)
    PROVE  Unconnected'
<1> USE DEF IInv
<1>1. ASSUME NEW s \in Sessions, Take(w, s)
      PROVE  Unconnected'
  BY <1>1 DEF TypeOK, Take, Start, Complete, Net, Unconnected, Outstanding
<1>2. ASSUME NEW op \in Operations, InHandler(w, op)
      PROVE  Of(w) \in Sessions
  BY <1>2, HandlerFields DEF InHandler, Of
<1>3. ASSUME NEW s \in Sessions, NEW op \in Operations \ {"accepting"}, Start(s, op),
             UNCHANGED <<alive, ready, peer>>
      PROVE  Unconnected'
  BY <1>3 DEF TypeOK, Start, Unconnected, Outstanding
<1>4. ASSUME NEW s \in Sessions, Delete(s)
      PROVE  Unconnected'
  BY <1>4 DEF TypeOK, Delete, Forget, Start, Unconnected, Outstanding
<1>5. CASE Accepted(w) \/ Handshaken(w) \/ Serve(w) \/ Written(w)
  BY <1>2, <1>3, <1>5 DEF Accepted, Handshaken, Serve, Written, Same, Net, Operations
<1>6. CASE AcceptFailed(w) \/ HandshakeFailed(w) \/ BadRequest(w) \/ ReadEnded(w)
  BY <1>2, <1>4, <1>6 DEF AcceptFailed, HandshakeFailed, BadRequest, ReadEnded, Operations
<1>7. CASE StartAccept(w)
  <2>1. PICK s \in Free : Start(s, "accepting") /\ alive' = alive \cup {s}
    BY <1>7 DEF StartAccept
  <2>2. UNCHANGED <<ready, peer>>
    BY <1>7 DEF StartAccept, Net
  <2> QED BY <2>1, <2>2 DEF TypeOK, Free, Start, Unconnected, Outstanding
<1>8. CASE TakeSignal(w) \/ HandlerThrows(w) \/ CloseAcceptor(w) \/ StopService(w) \/ Exit(w)
  BY <1>8 DEF TakeSignal, HandlerThrows, CloseAcceptor, StopService, Exit, Same, Net,
              Unconnected, Outstanding
<1> QED BY <1>1, <1>5, <1>6, <1>7, <1>8 DEF Handling

------------------------------------------------------------------------------
LEMMA InitIInv == Init => IInv
<1> SUFFICES ASSUME Init PROVE IInv
  OBVIOUS
<1>1. PICK s \in Sessions :
        /\ alive = {s}
        /\ phase = [t \in Sessions |-> IF t = s THEN "accepting" ELSE "none"]
  BY DEF Init
<1>2. \A w \in Workers : running[w] = Idle
  BY DEF Init
<1>3. \A w \in Workers, t \in Sessions : ~Owns(w, t) /\ ~TakesAccept(w)
  BY <1>2, NoHandler DEF Owns, TakesAccept, InHandler
<1>4. ReadyWasOutstanding
  BY DEF Init, ReadyWasOutstanding
<1>5. Owned
  BY <1>1, <1>3 DEF Owned
<1>6. Chained
  BY <1>1, <1>3 DEF Chained
<1>7. Unconnected
  BY DEF Init, Unconnected
<1>8. ASSUME NEW t \in Sessions
      PROVE  owed[t] = 0 /\ sent[t] = 0 /\ inbox[t] = <<>> /\ peer[t] = "none"
  BY DEF Init
<1>9. Counted
  BY <1>8 DEF Counted
<1> QED BY <1>4, <1>5, <1>6, <1>7, <1>9, InitTypeOK DEF IInv

LEMMA NextIInv == IInv /\ [Next]_vars => IInv'
<1> SUFFICES ASSUME IInv, [Next]_vars PROVE IInv'
  OBVIOUS
<1>1. CASE OutsideStep
  <2>1. UNCHANGED <<alive, phase, running>>
    BY <1>1 DEF OutsideStep, Completion, Outside, Signal, Connect, AcceptFails, AcceptAborted,
           HandshakeCompletes, RequestArrives, ReadEnds, WriteCompletes, Send, Leave
  <2>2. Owned'
    BY <2>1, UntouchedOwned DEF IInv
  <2>3. Chained'
    BY <2>1, UntouchedChained DEF IInv, TakesAccept, InHandler
  <2> QED BY <1>1, <2>2, <2>3, OutsideTypeOK, OutsideReady, OutsideUnconnected, OutsideCounted
          DEF IInv
<1>2. CASE WorkerStep
  <2>1. PICK w \in Workers : TakeSignal(w) \/ (\E s \in Sessions : Take(w, s)) \/ Handling(w)
    BY <1>2 DEF WorkerStep
  <2> QED BY <2>1, WorkerTypeOK, WorkerReady, WorkerOwned, WorkerChained, WorkerUnconnected,
             WorkerCounted DEF IInv
<1>3. CASE UNCHANGED vars
  BY <1>3 DEF vars, IInv, TypeOK, ReadyWasOutstanding, Owned, Owns, Chained, TakesAccept,
              InHandler, Unconnected, Outstanding, Counted, InHand
<1> QED BY <1>1, <1>2, <1>3 DEF Next

LEMMA SpecIInv == Spec => []IInv
  BY InitIInv, NextIInv, PTL DEF Spec

(* Every variable keeps its type: no client is owed less than nothing, and no
   handler runs for something that is no operation of a session. *)
THEOREM SpecTypeOK == Spec => []TypeOK
<1>1. IInv => TypeOK
  BY DEF IInv
<1> QED BY <1>1, SpecIInv, PTL

LEMMA OwnedIsOneOwner == Owned => OneOwner
<1> SUFFICES ASSUME Owned, NEW s \in Sessions
             PROVE  Cardinality(Owners(s)) + (IF phase[s] = "none" THEN 0 ELSE 1)
                        = IF s \in alive THEN 1 ELSE 0
  BY DEF OneOwner
<1>1. \A w : w \in Owners(s) <=> w \in Workers /\ Owns(w, s)
  BY DEF Owners, Owns
<1>2. ASSUME \A w \in Workers : ~Owns(w, s)
      PROVE  Cardinality(Owners(s)) = 0
  <2>1. Owners(s) = {}
    BY <1>1, <1>2
  <2> QED BY <2>1, FS_EmptySet
<1>3. ASSUME NEW w \in Workers, \A v \in Workers : Owns(v, s) <=> v = w
      PROVE  Cardinality(Owners(s)) = 1
  <2>1. Owners(s) = {w}
    BY <1>1, <1>3
  <2> QED BY <2>1, FS_Singleton
<1> QED BY <1>2, <1>3 DEF Owned

(* A session that lives has one operation outstanding or one handler running,
   never both, and a deleted one has neither: no handler runs on a session that
   `delete this` has freed (session::start, read_request, write_response). *)
THEOREM SpecOneOwner == Spec => []OneOwner
<1>1. IInv => OneOwner
  BY OwnedIsOneOwner DEF IInv
<1> QED BY <1>1, SpecIInv, PTL

LEMMA ChainedIsOneAccept == Chained => OneAccept
<1> SUFFICES ASSUME Chained PROVE OneAccept
  OBVIOUS
<1> DEFINE S == {s \in Sessions : phase[s] = "accepting"}
           W == {w \in Workers : running[w] = Accepting \/ InHandler(w, "accepting")}
<1>1. ASSUME NEW s \in Sessions, \A t \in Sessions : phase[t] = "accepting" <=> t = s
      PROVE  Cardinality(S) = 1
  <2>1. S = {s}
    BY <1>1
  <2> QED BY <2>1, FS_Singleton
<1>2. ASSUME NEW w \in Workers, \A v \in Workers : TakesAccept(v) <=> v = w
      PROVE  Cardinality(W) = 1
  <2>1. W = {w}
    BY <1>2 DEF TakesAccept
  <2> QED BY <2>1, FS_Singleton
<1>3. (\A t \in Sessions : phase[t] # "accepting") => Cardinality(S) = 0
  <2>1. (\A t \in Sessions : phase[t] # "accepting") => S = {}
    OBVIOUS
  <2> QED BY <2>1, FS_EmptySet
<1>4. (\A w \in Workers : ~TakesAccept(w)) => Cardinality(W) = 0
  <2>1. (\A w \in Workers : ~TakesAccept(w)) => W = {}
    BY DEF TakesAccept
  <2> QED BY <2>1, FS_EmptySet
<1>5. \/ Cardinality(S) = 1 /\ Cardinality(W) = 0
      \/ Cardinality(S) = 0 /\ Cardinality(W) = 1
  BY <1>1, <1>2, <1>3, <1>4 DEF Chained
<1>6. Cardinality(S) + Cardinality(W) = 1
  BY <1>5
<1> QED BY <1>6 DEF OneAccept

(* The accept chain of start_accept and handle_accept neither breaks nor
   forks, whatever fails and however many threads run handlers. *)
THEOREM SpecOneAccept == Spec => []OneAccept
<1>1. IInv => OneAccept
  BY ChainedIsOneAccept DEF IInv
<1> QED BY <1>1, SpecIInv, PTL
==============================================================================
