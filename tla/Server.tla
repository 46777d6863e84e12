-------------------------------- MODULE Server -------------------------------
(***************************************************************************)
(* server and session: a pool of worker threads runs the completion        *)
(* handlers of one io_service.  A session owns itself: its handlers hold   *)
(* the raw `this`, start the next operation, or `delete this`.             *)
(*                                                                         *)
(* An operation (accept, handshake, read, write) is outstanding until its  *)
(* completion is ready; a worker takes the completion and runs the handler.*)
(* Handlers run in the steps that other threads can see: handle_accept     *)
(* starts the session before it accepts again, Stop closes the acceptor    *)
(* before it stops the service.                                            *)
(***************************************************************************)
EXTENDS Integers, Sequences, FiniteSets

CONSTANTS
    Workers,        \* the num_threads_ threads
    Sessions,       \* addresses a session object may have
    Kinds,          \* requests clients send: "served", "unrouted", "malformed"
    MaxSent,        \* bound: requests of one connection
    MaxAcceptErrors,\* bound: failing accepts while the acceptor is open
    MayReset        \* whether a peer may vanish without closing

ASSUME KindsAssumption == Kinds \subseteq {"served", "unrouted", "malformed"}
ASSUME BoundsAssumption == MaxSent \in Nat /\ MaxAcceptErrors \in Nat

VARIABLES
    alive,      \* sessions that new made and no delete has ended
    phase,      \* the operation outstanding on every session
    ready,      \* its completion code, once it has completed
    framed,     \* whether response_ says where its body ends
    peer,       \* the connection as its client left it
    inbox,      \* requests on the connection, not read yet
    sent,       \* how many its client has sent
    owed,       \* requests whose complete response the client still waits for
    running,    \* the handler every worker is in
    acceptor,   \* acceptor_: open or closed
    signal,     \* signals_: armed, raised, taken
    stopped,    \* io_service_.stop() was called
    terminated, \* an exception left a worker's run()
    acceptErrors

vars == <<alive, phase, ready, framed, peer, inbox, sent, owed, running, acceptor, signal,
          stopped, terminated, acceptErrors>>

Operations == {"accepting", "handshaking", "reading", "writing"}
Codes == {"no", "ok", "malformed", "unrouted", "eof", "error"}

(* What a worker does: nothing, the handler of a completion, the rest of
   handle_accept, Stop, the rest of Stop; or its run() has returned. *)
Idle == [does |-> "idle"]
Exited == [does |-> "exited"]
Accepting == [does |-> "start_accept"]
Stopping == [does |-> "close"]
StoppingService == [does |-> "stop"]
Handler(s, op, code) == [does |-> "handler", session |-> s, op |-> op, code |-> code]

Activities ==
    {Idle, Exited, Accepting, Stopping, StoppingService}
    \cup {Handler(s, op, code) : s \in Sessions, op \in Operations, code \in Codes}

TypeOK ==
    /\ alive \subseteq Sessions
    /\ phase \in [Sessions -> Operations \cup {"none"}]
    /\ ready \in [Sessions -> Codes]
    /\ framed \in [Sessions -> BOOLEAN]
    /\ peer \in [Sessions -> {"none", "open", "closed", "reset"}]
    /\ inbox \in [Sessions -> Seq(Kinds)]
    /\ sent \in [Sessions -> 0 .. MaxSent]
    /\ owed \in [Sessions -> 0 .. MaxSent]
    /\ running \in [Workers -> Activities]
    /\ acceptor \in {"open", "closed"}
    /\ signal \in {"armed", "raised", "taken"}
    /\ stopped \in BOOLEAN /\ terminated \in BOOLEAN
    /\ acceptErrors \in 0 .. MaxAcceptErrors

Free == Sessions \ alive

(* server::server has called start_accept and armed the signals. *)
Init ==
    /\ \E s \in Sessions :
        /\ alive = {s}
        /\ phase = [t \in Sessions |-> IF t = s THEN "accepting" ELSE "none"]
    /\ framed = [s \in Sessions |-> TRUE]
    /\ ready = [s \in Sessions |-> "no"]
    /\ peer = [s \in Sessions |-> "none"]
    /\ inbox = [s \in Sessions |-> <<>>]
    /\ sent = [s \in Sessions |-> 0]
    /\ owed = [s \in Sessions |-> 0]
    /\ running = [w \in Workers |-> Idle]
    /\ acceptor = "open"
    /\ signal = "armed"
    /\ stopped = FALSE /\ terminated = FALSE
    /\ acceptErrors = 0

------------------------------------------------------------------------------
(* The clients and the kernel. *)

Outside == UNCHANGED <<alive, phase, framed, running, acceptor, stopped, terminated>>

Complete(s, code) == ready' = [ready EXCEPT ![s] = code]
Outstanding(s, op) == phase[s] = op /\ ready[s] = "no"

(* A client connects.  Another address must be left for the next accept. *)
Connect(s) ==
    /\ Outstanding(s, "accepting") /\ acceptor = "open" /\ Free # {}
    /\ Complete(s, "ok")
    /\ peer' = [peer EXCEPT ![s] = "open"]
    /\ UNCHANGED <<inbox, sent, owed, signal, acceptErrors>> /\ Outside

(* accept fails: no descriptor left, or the connection was aborted. *)
AcceptFails(s) ==
    /\ Outstanding(s, "accepting") /\ acceptor = "open"
    /\ acceptErrors < MaxAcceptErrors
    /\ acceptErrors' = acceptErrors + 1
    /\ Complete(s, "error")
    /\ UNCHANGED <<peer, inbox, sent, owed, signal>> /\ Outside

(* A closed acceptor completes every accept at once, with an error. *)
AcceptAborted(s) ==
    /\ Outstanding(s, "accepting") /\ acceptor = "closed"
    /\ Complete(s, "error")
    /\ UNCHANGED <<peer, inbox, sent, owed, signal, acceptErrors>> /\ Outside

HandshakeCompletes(s) ==
    /\ Outstanding(s, "handshaking")
    /\ \E code \in (IF peer[s] = "open" THEN {"ok", "error"} ELSE {"error"}) :
            Complete(s, code)
    /\ UNCHANGED <<peer, inbox, sent, owed, signal, acceptErrors>> /\ Outside

Send(s, kind) ==
    /\ peer[s] = "open"
    /\ sent[s] < MaxSent
    /\ sent' = [sent EXCEPT ![s] = @ + 1]
    /\ owed' = [owed EXCEPT ![s] = @ + 1]
    /\ inbox' = [inbox EXCEPT ![s] = Append(@, kind)]
    /\ UNCHANGED <<ready, peer, signal, acceptErrors>> /\ Outside

(* The client closes, or vanishes; it waits for nothing any more. *)
Leave(s) ==
    /\ peer[s] = "open"
    /\ \E how \in {"closed"} \cup (IF MayReset THEN {"reset"} ELSE {}) :
            peer' = [peer EXCEPT ![s] = how]
    /\ owed' = [owed EXCEPT ![s] = 0]
    /\ UNCHANGED <<ready, inbox, sent, signal, acceptErrors>> /\ Outside

(* http::async_read delivers one whole request. *)
RequestArrives(s) ==
    /\ Outstanding(s, "reading") /\ inbox[s] # <<>>
    /\ Complete(s, IF Head(inbox[s]) = "served" THEN "ok" ELSE Head(inbox[s]))
    /\ inbox' = [inbox EXCEPT ![s] = Tail(@)]
    /\ UNCHANGED <<peer, sent, owed, signal, acceptErrors>> /\ Outside

(* ... or finds the connection ended; a reset discards what was under way. *)
ReadEnds(s) ==
    /\ Outstanding(s, "reading")
    /\ \/ peer[s] = "closed" /\ inbox[s] = <<>>
       \/ peer[s] = "reset"
    /\ \E code \in (IF peer[s] = "closed" THEN {"eof", "error"} ELSE {"error"}) :
            Complete(s, code)
    /\ UNCHANGED <<peer, inbox, sent, owed, signal, acceptErrors>> /\ Outside

(* async_write is done.  The client has its whole response when that says
   where it ends; a response that does not ends with the connection. *)
WriteCompletes(s) ==
    /\ Outstanding(s, "writing")
    /\ Complete(s, IF peer[s] = "open" THEN "ok" ELSE "error")
    /\ owed' = [owed EXCEPT ![s] = IF peer[s] = "open" /\ framed[s] THEN @ - 1 ELSE @]
    /\ UNCHANGED <<peer, inbox, sent, signal, acceptErrors>> /\ Outside

(* SIGINT or SIGTERM. *)
Signal ==
    /\ signal = "armed"
    /\ signal' = "raised"
    /\ UNCHANGED <<ready, peer, inbox, sent, owed, acceptErrors>> /\ Outside

------------------------------------------------------------------------------
(* The workers. *)

Become(w, activity) == running' = [running EXCEPT ![w] = activity]
Start(s, op) == phase' = [phase EXCEPT ![s] = op]
Same == UNCHANGED <<alive, ready, framed>>
InHandler(w, op) == running[w].does = "handler" /\ running[w].op = op
Code(w) == running[w].code
Of(w) == running[w].session
Pool == UNCHANGED <<acceptor, signal, stopped, terminated, acceptErrors>>
Net == UNCHANGED <<peer, inbox, sent, owed>>

(* delete this, or delete new_session: the connection closes with the socket. *)
Forget(s) ==
    /\ alive' = alive \ {s}
    /\ framed' = [framed EXCEPT ![s] = TRUE]
    /\ ready' = [ready EXCEPT ![s] = "no"]
    /\ peer' = [peer EXCEPT ![s] = "none"]
    /\ inbox' = [inbox EXCEPT ![s] = <<>>]
    /\ sent' = [sent EXCEPT ![s] = 0]
    /\ owed' = [owed EXCEPT ![s] = 0]

Delete(s) == Forget(s) /\ Start(s, "none")

(* A worker takes a completion; of a session there is one, on its strand. *)
Take(w, s) ==
    /\ running[w] = Idle /\ ~stopped
    /\ ready[s] # "no"
    /\ Become(w, Handler(s, phase[s], ready[s]))
    /\ Start(s, "none")
    /\ Complete(s, "no")
    /\ UNCHANGED <<alive, framed>> /\ Net /\ Pool

TakeSignal(w) ==
    /\ running[w] = Idle /\ ~stopped
    /\ signal = "raised"
    /\ signal' = "taken"
    /\ Become(w, Stopping)
    /\ UNCHANGED <<phase, acceptor, stopped, terminated, acceptErrors>> /\ Same /\ Net

(* handle_accept, no error: new_session->start() begins the handshake; the
   accept comes after it. *)
Accepted(w) ==
    /\ InHandler(w, "accepting") /\ Code(w) = "ok"
    /\ Start(Of(w), "handshaking")
    /\ Become(w, Accepting)
    /\ Same /\ Net /\ Pool

(* Slip: a failed accept leaves handle_accept before start_accept. *)
AcceptFailedReturns(w) ==
    /\ InHandler(w, "accepting") /\ Code(w) # "ok"
    /\ Delete(Of(w))
    /\ Become(w, Idle)
    /\ Pool

(* handle_accept, error: delete new_session. *)
AcceptFailed(w) ==
    /\ InHandler(w, "accepting") /\ Code(w) # "ok"
    /\ Delete(Of(w))
    /\ Become(w, Accepting)
    /\ Pool

(* start_accept: a new session and an accept into it. *)
StartAccept(w) ==
    /\ running[w] = Accepting
    /\ \E s \in Free : Start(s, "accepting") /\ alive' = alive \cup {s}
    /\ Become(w, Idle)
    /\ UNCHANGED <<ready, framed>> /\ Net /\ Pool

(* session::start's handler. *)
Handshaken(w) ==
    /\ InHandler(w, "handshaking") /\ Code(w) = "ok"
    /\ Start(Of(w), "reading")
    /\ Become(w, Idle)
    /\ Same /\ Net /\ Pool

(* Slip: the session reads although it deleted itself. *)
HandshakeFailedReads(w) ==
    /\ InHandler(w, "handshaking") /\ Code(w) # "ok"
    /\ Forget(Of(w)) /\ Start(Of(w), "reading")
    /\ Become(w, Idle)
    /\ Pool

HandshakeFailed(w) ==
    /\ InHandler(w, "handshaking") /\ Code(w) # "ok"
    /\ Delete(Of(w))
    /\ Become(w, Idle)
    /\ Pool

(* read_request's handler: the dispatcher prepares a response (500 when it has
   no handler), write_response sends it. *)
Serve(w) ==
    /\ InHandler(w, "reading") /\ Code(w) \in {"ok", "unrouted"}
    /\ framed' = [framed EXCEPT ![Of(w)] = Code(w) = "ok"]
    /\ Start(Of(w), "writing")
    /\ Become(w, Idle)
    /\ UNCHANGED <<alive, ready>> /\ Net /\ Pool

(* bad_target: a 400 written at once, and the session is over. *)
BadRequest(w) ==
    /\ InHandler(w, "reading") /\ Code(w) = "malformed"
    /\ Delete(Of(w))
    /\ Become(w, Idle)
    /\ Pool

(* Logging the remote endpoint, and writing the 400, throw when the peer has
   gone; nothing catches it on a worker thread, and the process ends. *)
HandlerThrows(w) ==
    /\ InHandler(w, "reading") /\ Code(w) \in {"ok", "unrouted", "malformed"}
    /\ peer[Of(w)] = "reset"
    /\ terminated' = TRUE
    /\ UNCHANGED <<phase, running, acceptor, signal, stopped, acceptErrors>>
    /\ Same /\ Net

(* Slip: the end of the stream is answered like a request. *)
ReadEndedServes(w) ==
    /\ InHandler(w, "reading") /\ Code(w) \in {"eof", "error"}
    /\ Start(Of(w), "writing")
    /\ Become(w, Idle)
    /\ Same /\ Net /\ Pool

(* end_of_stream or any other error. *)
ReadEnded(w) ==
    /\ InHandler(w, "reading") /\ Code(w) \in {"eof", "error"}
    /\ Delete(Of(w))
    /\ Become(w, Idle)
    /\ Pool

(* Slip: reset does not read the next request. *)
WrittenStays(w) ==
    /\ InHandler(w, "writing")
    /\ Become(w, Idle)
    /\ UNCHANGED phase /\ Same /\ Net /\ Pool

(* Slip: the response that was written is written again. *)
WrittenAgain(w) ==
    /\ InHandler(w, "writing")
    /\ Start(Of(w), "writing")
    /\ Become(w, Idle)
    /\ Same /\ Net /\ Pool

(* write_response's handler, whatever the error code: reset, and read on. *)
Written(w) ==
    /\ InHandler(w, "writing")
    /\ framed' = [framed EXCEPT ![Of(w)] = TRUE]
    /\ Start(Of(w), "reading")
    /\ Become(w, Idle)
    /\ UNCHANGED <<alive, ready>> /\ Net /\ Pool

(* Stop: acceptor_.close() *)
CloseAcceptor(w) ==
    /\ running[w] = Stopping
    /\ acceptor' = "closed"
    /\ Become(w, StoppingService)
    /\ UNCHANGED <<phase, signal, stopped, terminated, acceptErrors>> /\ Same /\ Net

(* Slip: Stop closes the acceptor and lets the service run. *)
StopServiceSkipped(w) ==
    /\ running[w] = StoppingService
    /\ Become(w, Idle)
    /\ UNCHANGED <<phase, acceptor, signal, stopped, terminated, acceptErrors>> /\ Same /\ Net

(* Stop: io_service_.stop() *)
StopService(w) ==
    /\ running[w] = StoppingService
    /\ stopped' = TRUE
    /\ Become(w, Idle)
    /\ UNCHANGED <<phase, acceptor, signal, terminated, acceptErrors>> /\ Same /\ Net

(* io_service::run returns; completions that are left are destroyed unrun. *)
Exit(w) ==
    /\ running[w] = Idle /\ stopped
    /\ Become(w, Exited)
    /\ UNCHANGED phase /\ Same /\ Net /\ Pool

------------------------------------------------------------------------------
(* The kernel finishes the operation of s that can be finished. *)
Completion(s) ==
    \/ AcceptAborted(s) \/ HandshakeCompletes(s)
    \/ RequestArrives(s) \/ ReadEnds(s) \/ WriteCompletes(s)

OutsideStep ==
    \/ Signal
    \/ \E s \in Sessions :
        \/ Connect(s) \/ AcceptFails(s) \/ Completion(s)
        \/ \E kind \in Kinds : Send(s, kind)
        \/ Leave(s)

(* The handler that w is in, to its next step. *)
Handling(w) ==
    \/ Accepted(w) \/ AcceptFailed(w) \/ StartAccept(w)
    \/ Handshaken(w) \/ HandshakeFailed(w)
    \/ Serve(w) \/ BadRequest(w) \/ HandlerThrows(w) \/ ReadEnded(w)
    \/ Written(w)
    \/ CloseAcceptor(w) \/ StopService(w) \/ Exit(w)

WorkerStep ==
    \E w \in Workers :
        \/ TakeSignal(w)
        \/ \E s \in Sessions : Take(w, s)
        \/ Handling(w)

(* The process is over when its threads were joined, or an exception ended it. *)
Finished == terminated \/ \A w \in Workers : running[w] = Exited

Next == ~Finished /\ (OutsideStep \/ WorkerStep)

Spec == Init /\ [][Next]_vars

(* Threads are scheduled, the kernel completes what can complete, and the
   completion queue is first in, first out: what waits in it is not overtaken
   for ever.  Clients owe nothing. *)
FairSpec ==
    /\ Spec
    /\ \A w \in Workers : WF_vars(~Finished /\ Handling(w))
    /\ SF_vars(~Finished /\ \E w \in Workers : TakeSignal(w))
    /\ \A s \in Sessions :
        /\ SF_vars(~Finished /\ \E w \in Workers : Take(w, s))
        /\ WF_vars(~Finished /\ Completion(s))

------------------------------------------------------------------------------
Owners(s) ==
    {w \in Workers : running[w].does = "handler" /\ running[w].session = s}

(* Sessions own themselves (session::start, read_request, write_response): one
   that lives has one operation outstanding or one handler running, never both
   and never two, and none is outstanding or runs for one that was deleted. *)
OneOwner ==
    \A s \in Sessions :
        Cardinality(Owners(s)) + (IF phase[s] = "none" THEN 0 ELSE 1)
            = IF s \in alive THEN 1 ELSE 0

(* The accept chain (start_accept, handle_accept) never breaks and never forks:
   failing accepts, a closed acceptor and a stopping service included. *)
OneAccept ==
    Cardinality({s \in Sessions : phase[s] = "accepting"})
      + Cardinality({w \in Workers : running[w] = Accepting \/ InHandler(w, "accepting")})
      = 1

(* A session whose client closed is deleted, whatever it was doing; a stop may
   leave it, with everything else, to the end of the process. *)
LeftSessionsEnd ==
    \A s \in Sessions :
        (peer[s] \in {"closed", "reset"}) ~> (peer[s] \in {"none", "open"} \/ stopped \/ terminated)

(* A client gets the whole response to every request, or the connection ends
   (session::read_request: "generate error message if failed to generate
   response"). *)
RequestsAnswered ==
    \A s \in Sessions : (owed[s] > 0) ~> (owed[s] = 0 \/ stopped \/ terminated)

(* A signal ends server::run: every worker returns, although a closed acceptor
   keeps completing accepts (server::Stop, handle_accept). *)
RunReturns == (signal = "raised") ~> Finished
==============================================================================
