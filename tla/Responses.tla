------------------------------- MODULE Responses -------------------------------
(***************************************************************************)
(* What a session answers: read_request hands each request of a connection *)
(* to the dispatcher, the handler of its location fills response_, and     *)
(* reset clears it for the next one.  Server has the operations of the     *)
(* connection, this module the one object that all its answers share.      *)
(*                                                                         *)
(* A body is named by the request that it was made for (0 is no body), and *)
(* a Content-Length by the body it was counted from.  What the files and   *)
(* the score manager say is a free choice, except that a handler throws:   *)
(* the static handler's calls of the file system may, read_request does    *)
(* not catch it, and the process ends without an answer, as in Server's    *)
(* HandlerThrows.                                                          *)
(***************************************************************************)
EXTENDS Startup

CONSTANTS
    Requests,            \* what clients ask for: [target, method]
    MaxRequests          \* bound on the requests of a connection

ASSUME ResponsesAssumption ==
    /\ MaxRequests \in Nat
    /\ \A req \in Requests : req.target \in Seq(Texts)

VARIABLES
    response,        \* response_: result, body, length
    answered,        \* history: the requests of this connection, this one included
    request          \* request_ while it is answered, nothing before

responseVars == <<response, answered, request>>

NoLength == -1

------------------------------------------------------------------------------
(* Calls on the response.                                                  *)

(* clear(): the header fields go, the status and the body stay. *)
Cleared(r) == [r EXCEPT !.length = NoLength]

(* prepare_payload() *)
Prepared(r) == [r EXCEPT !.length = r.body]

Result(r, result) == [r EXCEPT !.result = result]
Body(r, result) == [Result(r, result) EXCEPT !.body = answered']
Whole(r, result) == Prepared(Body(r, result))

(* A response that a handler leaves, and whether it says that it has answered. *)
Answers(responses) == [response : responses, true : {TRUE}]

(* RequestHandler::handle_bad_request *)
BadRequest(r) == {[response |-> Whole(r, "400"), true |-> FALSE]}

------------------------------------------------------------------------------
(* The handlers.                                                           *)

(* The url without request_path_.  Where the path is "/" nothing is left of the
   slash that begins the next segment. *)
Below(path, target) ==
    IF path = Root THEN IF Len(target) = 1 THEN target ELSE Tail(target)
    ELSE <<"">> \o SubSeq(target, Len(path) + 1, Len(target))

(* parseURL: what follows the slashes, empty tokens left out. *)
ParseURL(url) == SelectSeq(Tail(url), LAMBDA token : token # "")

(* CRUDApiHandler::handle_request *)
Crud(r, method, n) ==
    LET cleared == Cleared(r)
        say(results) == {Result(cleared, result) : result \in results}
        tell(results) == {Body(cleared, result) : result \in results}
        done(responses) == Answers({Prepared(s) : s \in responses})
        failed == [response |-> Prepared(Result(cleared, "500")), true |-> FALSE]
    IN  CASE method = "get" -> done(IF n \in {1, 2} THEN tell({"200"}) \cup say({"404"})
                                    ELSE tell({"400"}))
          [] method = "post" -> IF n = 1 THEN done(tell({"200"})) \cup {failed}
                                ELSE done(say({"400"}))
          [] method = "put" -> done(say(IF n = 2 THEN {"200", "404", "500"} ELSE {"400"}))
          [] method = "delete" -> done(say(IF n = 2 THEN {"204", "404", "500"} ELSE {"400"}))
          [] OTHER -> done(tell({"501"}))

(* ScoreRequestHandler::handle_request.  The body of a POST may not parse, be no
   score, have the wrong hash, or be refused by the manager. *)
Score(r, method, tokens) ==
    LET cleared == Cleared(r)
        posted == {Whole(cleared, "400"), Whole(cleared, "500"),
                   Prepared(Result(cleared, "200"))}
        shown == {Whole(cleared, "500"), Whole(cleared, "200")}
    IN  CASE Len(tokens) # 1 -> BadRequest(r)
          [] tokens = <<"newscore">> /\ method = "post" -> Answers(posted)
          [] tokens = <<"scoreboard">> /\ method = "get" -> Answers(shown)
          [] OTHER -> BadRequest(cleared)

(* handle_request of the location's handler, on the response of the session. *)
Handle(location, req, r) ==
    LET tokens == ParseURL(Below(location.path, req.target))
        type == location.type
    IN  CASE type = "Static" -> Answers({Whole(r, "200"), Whole(r, "403"), Whole(r, "404")})
          [] type = "NotFound" -> Answers({Whole(r, "404")})
          [] type \in {"Echo", "Health", "Block"} -> Answers({Whole(r, "200")})
          [] type = "CRUDApi" -> Crud(r, req.method, Len(tokens))
          [] type = "Score" -> Score(r, req.method, tokens)

(* Dispatcher::assign_request *)
AssignRequest(req, r) ==
    LET matched == Match(routes, req.target)
    IN  IF matched = {} THEN {[response |-> r, true |-> FALSE]}
        ELSE UNION {Handle(location, req, r) : location \in matched}

------------------------------------------------------------------------------

ResponsesInit ==
    /\ response = [result |-> "200", body |-> 0, length |-> NoLength]
    /\ answered = 0 /\ request = {}

(* read_request's handler: a handler that has not answered makes it a 500. *)
Answer(req) ==
    /\ stage = "serving" /\ request = {} /\ answered < MaxRequests
    /\ answered' = answered + 1 /\ request' = {req}
    /\ \E a \in AssignRequest(req, response) :
          response' = IF a.true THEN a.response ELSE Result(a.response, "500")

(* Slip: the body of the response is kept. *)
ResetKeepsBody ==
    /\ request # {}
    /\ response' = Cleared(response)
    /\ request' = {} /\ UNCHANGED answered

(* write_response's handler: reset. *)
Reset ==
    /\ request # {}
    /\ response' = [Cleared(response) EXCEPT !.body = 0]
    /\ request' = {} /\ UNCHANGED answered

ResponsesNext == Reset \/ \E req \in Requests : Answer(req)

(* One connection, to a server that starts from its configuration. *)
ConnectionInit == StartupInit /\ ResponsesInit

ConnectionNext ==
    \/ StartupNext /\ UNCHANGED responseVars
    \/ ResponsesNext /\ UNCHANGED startupVars

ConnectionSpec == ConnectionInit /\ [][ConnectionNext]_<<startupVars, responseVars>>

------------------------------------------------------------------------------

(* The answers of a connection share one response_, and handlers fill different
   parts of it.  Still what is written has the body that was made for its own
   request, or none, and the Content-Length of exactly that body; only a request
   without a location is a 500 that has neither (session::read_request, reset,
   and prepare_payload in every handler; Server's framed rests on it). *)
ResponsesAreWhole ==
    \A req \in request :
        IF Match(routes, req.target) = {}
        THEN response = [result |-> "500", body |-> 0, length |-> NoLength]
        ELSE response.length = response.body /\ response.body \in {0, answered}
==============================================================================
