-------------------------------- MODULE Startup --------------------------------
(***************************************************************************)
(* From a parsed configuration to the handler of a request: the getters    *)
(* and validateConfig of config_util, main, map_config_to_handler_factory  *)
(* and Dispatcher::match.  The configuration is any sequence of statements *)
(* of each kind; the order of statements of different kinds is left out,   *)
(* since every getter looks for one kind.                                  *)
(*                                                                         *)
(* A path is the sequence of the texts between its slashes: <<"">> is the  *)
(* empty path, <<"", "">> is "/", <<"", "a", "">> is "/a/" and <<"*">> is  *)
(* a path without a slash.                                                 *)
(***************************************************************************)
EXTENDS Integers, Sequences, SequencesExt

CONSTANTS
    PortStatements,      \* [whole, value]: with one word after its name, and that word
    ThreadStatements,    \* the same
    LocationStatements,  \* [whole, path, type, complete]
    NoNumber,            \* a word that std::stoi refuses
    MaxStatements,       \* bound on the port statements
    MaxLocations,        \* bound on the location statements
    Texts,               \* the texts between the slashes of a path
    Segments,            \* those of the requests that are tried
    MaxSegments          \* bound on their number

(* A path is a word of the file, which is not empty.
   complete, of a location: its block is there and has the settings that
   ValidateLocationBlock requires for its type. *)
HandlerTypes == {"Echo", "Static", "NotFound", "CRUDApi", "Health", "Block", "Score"}

ASSUME StartupAssumption ==
    /\ MaxStatements \in Nat /\ MaxLocations \in Nat /\ MaxSegments \in Nat
    /\ \A s \in PortStatements \cup ThreadStatements :
          s.whole \in BOOLEAN /\ (s.value = NoNumber \/ s.value \in Int)
    /\ \A s \in LocationStatements :
          /\ s.whole \in BOOLEAN /\ s.complete \in BOOLEAN
          /\ s.path \in Seq(Texts) \ {<<>>, <<"">>}
    /\ "" \in Texts /\ Segments \subseteq Texts

VARIABLES
    config,          \* what the parser has built: ports, threads, ssl, locations
    stage,           \* main: "off", "refused", "serving" or "ended"
    port,            \* of the acceptor
    workers,         \* the threads that server::run has started
    routes           \* Dispatcher.routes_: from paths to location statements

startupVars == <<config, stage, port, workers, routes>>

------------------------------------------------------------------------------
(* config_util                                                             *)

(* The getters: the first statement with the right number of words decides; if
   its word is not a number that fits, there is no value. *)
Get(statements, Numbers) ==
    LET i == SelectInSeq(statements, LAMBDA s : s.whole)
    IN  IF i = 0 \/ statements[i].value = NoNumber THEN {}
        ELSE {statements[i].value} \cap Numbers

Short == -32768 .. 32767
PortOf(c) == Get(c.ports, Short)
NumThreadsOf(c) == Get(c.threads, Nat)

(* Slip: the type of a location is not looked at. *)
ValidateConfigAnyType(c) ==
    /\ PortOf(c) # {}
    /\ \A i \in DOMAIN c.locations :
          c.locations[i].whole /\ c.locations[i].complete

(* validateConfig *)
ValidateConfig(c) ==
    /\ PortOf(c) # {}
    /\ \A i \in DOMAIN c.locations :
          LET s == c.locations[i]
          IN  s.whole /\ s.type \in HandlerTypes /\ s.complete

(* getDispatcherEntriesFromConfig, as the places of the entries: an unknown type
   ends the search, and there are none. *)
DispatcherEntries(c) ==
    LET whole == {i \in DOMAIN c.locations : c.locations[i].whole}
    IN  IF \E i \in whole : c.locations[i].type \notin HandlerTypes THEN {} ELSE whole

(* map_config_to_handler_factory: a later location replaces an earlier one.
   There is a factory for every type that an entry may have. *)
MapConfig(c) ==
    LET entries == DispatcherEntries(c)
        Having(path) == {i \in entries : c.locations[i].path = path}
    IN  [path \in {c.locations[i].path : i \in entries} |-> c.locations[Max(Having(path))]]

------------------------------------------------------------------------------
(* Dispatcher                                                              *)

Root == <<"", "">>

(* What is before the last slash, "/" if that is nothing. *)
Parent(path) == IF Front(path) \in {<<>>, <<"">>} THEN Root ELSE Front(path)

(* match(request_url): the factory of one location, or none. *)
Match(r, request_url) ==
    LET match[path \in Seq(Texts)] ==
            IF path \in DOMAIN r THEN {r[path]}
            ELSE IF path = Root THEN {} ELSE match[Parent(path)]
    IN  match[request_url]

------------------------------------------------------------------------------

Off == stage = "off" /\ port = 0 /\ workers = 0 /\ routes = <<>>

StartupInit ==
    /\ config \in [ports : SeqOf(PortStatements, MaxStatements),
                   threads : SeqOf(ThreadStatements, 1),
                   ssl : SUBSET {"ssl_certificate_path", "ssl_private_key_path"},
                   locations : {<<>>}]
    /\ Off

(* One more location in the file. *)
Locate(s) ==
    /\ stage = "off" /\ Len(config.locations) < MaxLocations
    /\ config' = [config EXCEPT !.locations = Append(@, s)]
    /\ UNCHANGED <<stage, port, workers, routes>>

Refuse == stage' = "refused" /\ UNCHANGED <<config, port, workers, routes>>

(* The default is one thread; a server without threads returns from run(). *)
Run ==
    /\ port' \in {p % 65536 : p \in PortOf(config)}
    /\ workers' \in IF NumThreadsOf(config) = {} THEN {1} ELSE NumThreadsOf(config)
    /\ routes' = MapConfig(config)
    /\ stage' = IF workers' = 0 THEN "ended" ELSE "serving"
    /\ UNCHANGED config

(* main.  The certificates and the port may be refused by the system. *)
Main(available) ==
    /\ stage = "off"
    /\ IF ValidateConfig(config)
          /\ config.ssl = {"ssl_certificate_path", "ssl_private_key_path"} /\ available
       THEN Run ELSE Refuse

StartupNext ==
    \/ \E s \in LocationStatements : Locate(s)
    \/ \E available \in BOOLEAN : Main(available)

StartupSpec == StartupInit /\ [][StartupNext]_startupVars

------------------------------------------------------------------------------

(* The paths that requests ask for. *)
Targets == SeqOf(Segments, MaxSegments) \ {<<>>}

(* The paths that begin the target and end before a slash of it, and "/". *)
Above(target) == (Prefixes(target) \ {<<>>, <<"">>}) \cup {Root}

(* The location that the file means for a target, if any: the last one of the
   longest path that begins it; "/" counts as the shortest. *)
Meant(c, target) ==
    LET Path(i) == c.locations[i].path
        here == {i \in DOMAIN c.locations : Path(i) \in Above(target)}
        below == {i \in here : Path(i) # Root \/ target = Root}
        longest == {i \in below : \A j \in below : Len(Path(j)) <= Len(Path(i))}
    IN  IF here = {} THEN {}
        ELSE {c.locations[Max(IF below = {} THEN here ELSE longest)]}

(* A server that serves sends every request to the handler of the location that
   its configuration means for it, whatever the path looks like; what validation
   lets through leaves no location out and no request without the handler it
   could have (validateConfig, map_config_to_handler_factory, match). *)
RequestsFindTheirLocation ==
    stage = "serving" =>
        \A target \in Targets : Match(routes, target) = Meant(config, target)
==============================================================================
