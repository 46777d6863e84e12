---------------------------- MODULE SequentialParts ----------------------------
(***************************************************************************)
(* The parts of the server that run with nobody else around, checked side  *)
(* by side: the ranking of a score manager, the parser of the              *)
(* configuration file, the way from a configuration to the handlers, and   *)
(* one connection's answers in a server that has started.  They share no   *)
(* state but the start, so a behaviour is one of one part.                 *)
(***************************************************************************)
EXTENDS RankingFold, ConfigPrinter, Responses

VARIABLE part

partVars == <<part, foldVars, parserVars, startupVars, responseVars>>

Location(path, type) == [whole |-> TRUE, path |-> path, type |-> type, complete |-> TRUE]

(* "/", "/a" twice, "/a/b", "/a/" and a path without a slash; a type nobody
   knows, a block without its settings and a statement without a type. *)
LocationStatementsDef ==
    {Location(<<"", "">>, "Static"), Location(<<"", "a">>, "Echo"),
     Location(<<"", "a">>, "Health"), Location(<<"", "a", "b">>, "CRUDApi"),
     Location(<<"", "a", "">>, "Block"), Location(<<"a">>, "NotFound"),
     Location(<<"", "b">>, "Proxy"),
     [Location(<<"", "b">>, "Score") EXCEPT !.complete = FALSE],
     [Location(<<"", "b">>, "Undefined") EXCEPT !.whole = FALSE]}

(* A port, one too large for a short, and a statement with too many words. *)
PortStatementsDef ==
    {[whole |-> TRUE, value |-> 80], [whole |-> TRUE, value |-> 40000],
     [whole |-> FALSE, value |-> 80]}

ThreadStatementsDef ==
    {[whole |-> TRUE, value |-> 0], [whole |-> TRUE, value |-> 2],
     [whole |-> TRUE, value |-> NoNumber]}

(* A score location, an API below it, any other handler beside them, and "/" or
   not; requests for each, with tokens that fit and that do not. *)
ConnectionConfigs ==
    {[ports |-> <<[whole |-> TRUE, value |-> 80]>>, threads |-> <<>>,
      ssl |-> {"ssl_certificate_path", "ssl_private_key_path"},
      locations |-> <<Location(<<"", "a">>, "Score"), Location(<<"", "a", "b">>, "CRUDApi"),
                      Location(path, type)>>] :
        path \in {<<"", "c">>, Root},
        type \in {"Static", "Echo", "Health", "NotFound", "Block", "CRUDApi", "Score"}}

RequestsDef ==
    [target : {<<"", "">>, <<"", "c">>, <<"", "a">>, <<"", "a", "newscore">>,
               <<"", "a", "scoreboard">>, <<"", "a", "">>, <<"", "a", "b", "x">>,
               <<"", "a", "b", "x", "1">>, <<"", "x", "1">>, <<"*">>},
     method : {"get", "post", "put", "delete", "head"}]

Init ==
    /\ part \in {"ranking", "parser", "startup", "connection"}
    /\ FoldInit
    /\ part # "ranking" => size = 0
    /\ ParserInit
    /\ CASE part = "startup" -> StartupInit
         [] part = "connection" -> config \in ConnectionConfigs /\ Off
         [] OTHER -> config = [ports |-> <<>>, threads |-> <<>>, ssl |-> {},
                               locations |-> <<>>] /\ Off
    /\ ResponsesInit

Next ==
    /\ UNCHANGED part
    /\ \/ /\ part = "ranking" /\ FoldNext
          /\ UNCHANGED <<parserVars, startupVars, responseVars>>
       \/ /\ part = "parser" /\ ParserNext
          /\ UNCHANGED <<foldVars, startupVars, responseVars>>
       \/ /\ part = "startup" /\ StartupNext
          /\ UNCHANGED <<foldVars, parserVars, responseVars>>
       \/ /\ part = "connection" /\ Main(TRUE)
          /\ UNCHANGED <<foldVars, parserVars, responseVars>>
       \/ /\ part = "connection" /\ ResponsesNext
          /\ UNCHANGED <<foldVars, parserVars, startupVars>>

Spec == Init /\ [][Next]_partVars
==============================================================================
