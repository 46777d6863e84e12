----------------------------- MODULE EntityStore -----------------------------
(***************************************************************************)
(* What the CRUD API promises (crud_api_handler.h; NoEntity is the one     *)
(* place where it is asked for less): every entity is a finite map from    *)
(* identifiers to bodies, and every request acts on it at one instant      *)
(* between its arrival and its response.  There are no files and no        *)
(* intermediate steps.  A crash, or a storage that may fail, can spoil the *)
(* one entity that is being written and nothing else.                      *)
(***************************************************************************)
EXTENDS Integers, Sequences

CONSTANTS Clients, Entities, Ids, Bodies, Spoiled

VARIABLES
    store, request, response,
    faulty      \* a call of the file system has failed before

vars == <<store, request, response, faulty>>

None == [verb |-> "none"]
Pending == [status |-> 0]
Status(code) == [status |-> code]
Created(i) == [status |-> 200, id |-> i]
Answer(c, r) == response' = [response EXCEPT ![c] = r]
Sound == UNCHANGED faulty
MayFail == faulty' \in {faulty, TRUE}
Keep == UNCHANGED <<store, request>>

Targets == {<<>>} \cup {<<e>> : e \in Entities} \cup (Entities \X Ids)
Requests == [verb : {"GET", "DELETE", "PATCH"}, target : Targets]
            \cup [verb : {"POST", "PUT"}, target : Targets, body : Bodies]

(* store[e] maps the identifiers in use to bodies. *)
Init ==
    /\ store = [e \in Entities |-> <<>>]
    /\ request = [c \in Clients |-> None]
    /\ response = [c \in Clients |-> Pending]
    /\ faulty = FALSE

Open(c, verb, n) ==
    /\ request[c].verb = verb /\ response[c] = Pending
    /\ Len(request[c].target) = n

Entity(c) == request[c].target[1]
Id(c) == request[c].target[2]
Known(c) == Id(c) \in DOMAIN store[Entity(c)]

With(map, i, body) == [j \in DOMAIN map \cup {i} |-> IF j = i THEN body ELSE map[j]]
Without(map, i) == [j \in DOMAIN map \ {i} |-> map[j]]

(* A body as it arrives in the store, which failing calls may spoil. *)
Landed(c) == {request[c].body} \cup (IF faulty' THEN {Spoiled} ELSE {})

(* What the API takes for a request of its own. *)
Proper(r) ==
    \/ r.verb = "GET" /\ Len(r.target) > 0
    \/ r.verb = "POST" /\ Len(r.target) = 1
    \/ r.verb \in {"PUT", "DELETE"} /\ Len(r.target) = 2

Ask(c) ==
    /\ request[c] = None
    /\ \E r \in Requests : Proper(r) /\ request' = [request EXCEPT ![c] = r]
    /\ UNCHANGED <<store, response>> /\ Sound

(* POST /entity: a new identifier, larger than all in use. *)
CreateAs(c, i, body) ==
    /\ \A j \in DOMAIN store[Entity(c)] : j < i
    /\ store' = [store EXCEPT ![Entity(c)] = With(@, i, body)]
    /\ Answer(c, Created(i))

Create(c) ==
    /\ Open(c, "POST", 1)
    /\ MayFail
    /\ \E i \in Ids, body \in Landed(c) : CreateAs(c, i, body)
    /\ UNCHANGED request

(* PUT /entity/id *)
Update(c) ==
    /\ Open(c, "PUT", 2)
    /\ Known(c)
    /\ MayFail
    /\ \E b \in Landed(c) : store' = [store EXCEPT ![Entity(c)] = With(@, Id(c), b)]
    /\ Answer(c, Status(200))
    /\ UNCHANGED request

(* DELETE /entity/id *)
Delete(c) ==
    /\ Open(c, "DELETE", 2)
    /\ Known(c)
    /\ store' = [store EXCEPT ![Entity(c)] = Without(@, Id(c))]
    /\ Answer(c, Status(204))
    /\ UNCHANGED request /\ Sound

(* GET /entity/id *)
Retrieve(c) ==
    /\ Open(c, "GET", 2)
    /\ Known(c)
    /\ Answer(c, [status |-> 200, body |-> store[Entity(c)][Id(c)]])
    /\ Keep /\ Sound

(* GET /entity *)
List(c) ==
    /\ Open(c, "GET", 1)
    /\ Answer(c, [status |-> 200, list |-> DOMAIN store[Entity(c)]])
    /\ Keep /\ Sound

(* 404: what the request names is not there. *)
NotFound(c) ==
    /\ MayFail
    /\ Open(c, "GET", 2) \/ Open(c, "PUT", 2) \/ Open(c, "DELETE", 2)
    /\ ~Known(c) \/ faulty'
    /\ Answer(c, Status(404))
    /\ Keep

(* 404 for an entity that has nothing stored.  Here the store promises less than
   the header, which says "empty list for no existing entity": the handler
   answers so for an entity that has never had a directory. *)
NoEntity(c) ==
    /\ Open(c, "GET", 1)
    /\ store[Entity(c)] = <<>>
    /\ Answer(c, Status(404))
    /\ Keep /\ Sound

(* 500 for a create, an update or a delete: only when storage fails, and then
   nothing has changed. *)
Failed(c) ==
    /\ faulty' = TRUE
    /\ Open(c, "POST", 1) \/ Open(c, "PUT", 2) \/ Open(c, "DELETE", 2)
    /\ Answer(c, Status(500))
    /\ Keep

(* 400 and 501: anything else is refused as it comes. *)
Refuse(c, r, code) ==
    /\ ~Proper(r) /\ (code = 501 <=> r.verb = "PATCH")
    /\ request' = [request EXCEPT ![c] = r]
    /\ Answer(c, Status(code))

Refused(c) ==
    /\ request[c] = None
    /\ \E r \in Requests, code \in {400, 501} : Refuse(c, r, code)
    /\ UNCHANGED store /\ Sound

Done(c) ==
    /\ response[c] # Pending
    /\ request' = [request EXCEPT ![c] = None]
    /\ response' = [response EXCEPT ![c] = Pending]
    /\ UNCHANGED store /\ Sound

(* What c was writing is spoiled. *)
Spoils(c, i) ==
    /\ \/ Open(c, "POST", 1) /\ \A j \in DOMAIN store[Entity(c)] : j < i
       \/ Open(c, "PUT", 2) /\ i = Id(c) /\ Known(c)
    /\ store' = [store EXCEPT ![Entity(c)] = With(@, i, Spoiled)]

(* All requests are lost; one that was writing may spoil its entity. *)
Restart ==
    /\ UNCHANGED store \/ \E c \in Clients, i \in Ids : Spoils(c, i)
    /\ request' = [c \in Clients |-> None]
    /\ response' = [c \in Clients |-> Pending]
    /\ Sound

Next ==
    \/ \E c \in Clients :
        \/ Ask(c) \/ Create(c) \/ Update(c) \/ Delete(c) \/ Retrieve(c) \/ List(c)
        \/ NotFound(c) \/ NoEntity(c) \/ Failed(c) \/ Refused(c) \/ Done(c)
    \/ Restart

Spec == Init /\ [][Next]_vars
==============================================================================
