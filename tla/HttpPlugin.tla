----------------------------- MODULE HttpPlugin -----------------------------
(***************************************************************************)
(* http_plugin: requests between the http threads, the application thread  *)
(* and the owners of an asynchronous API call.  Everything a request holds *)
(* (body, response, text of the response) is counted in bytes_in_flight by *)
(* an object that uncounts it when it goes; a request that finds the count *)
(* above the limit is answered "busy".  The count is made and the limit is *)
(* read in two steps, between which other threads run.                     *)
(*                                                                         *)
(* Sizes are small numbers; Word stands for 2^32 and Mega for 2^20.        *)
(*                                                                         *)
(* The unix socket (local_endpoint.hpp) is a part of its own: servers that *)
(* are given the same path.  A server first tries to connect, to find out  *)
(* whether someone listens there, removes a path nobody answers on, then   *)
(* binds and listens: steps of their own, each a system call, with those   *)
(* of other servers in between.  A server that dies leaves its path        *)
(* behind; one that stops removes whatever the path names.                 *)
(***************************************************************************)
EXTENDS Integers, Sequences, FiniteSets, FiniteSetsExt

CONSTANTS
    Requests,       \* requests that may come in
    body, response, \* their sizes: Request -> Nat
    Options,        \* configurations: records http, https, mb, host_checked
    Mega, Word,
    Servers         \* processes given the same socket path

VARIABLES
    config,         \* the plugin's settings after plugin_initialize
    req,            \* Request -> [stage, route, code]
    bytes,          \* bytes_in_flight
    running,        \* the servers listen and the thread pool runs
    endpoint,       \* Server -> where its unix socket is
    path,           \* who bound the socket the path names: a server, "nobody" (dead) or "none"
    overlapped      \* history: of the servers that are up, two were inside listen at once

vars == <<config, req, bytes, running>>

-----------------------------------------------------------------------------
\* The settings at the end of the function are not reached when https lacks a file it needs.
plugin_initialize(o) ==
    LET complete == o.https \in {"off", "on"}
    IN  [options |-> o,
         http    |-> o.http,
         https   |-> o.https = "on",
         max_bytes_in_flight |-> IF complete THEN (o.mb * Mega) % Word ELSE 0]

allow_host(o, host) == ~o.host_checked \/ host = "valid"

plugin_startup ==
    /\ ~running /\ \A r \in Requests : req[r].stage = "none"
    /\ running' = (config.http \/ config.https)
    /\ UNCHANGED <<config, req, bytes>>

Busy == bytes > config.max_bytes_in_flight

\* A request's answer, and everything it held let go.
Answer(r, code, freed) ==
    /\ req' = [req EXCEPT ![r].stage = "answered", ![r].code = Append(@, code)]
    /\ bytes' = bytes - freed
    /\ UNCHANGED <<config, running>>

Moves(r, stage, counted) ==
    /\ req' = [req EXCEPT ![r].stage = stage]
    /\ bytes' = bytes + counted
    /\ UNCHANGED <<config, running>>

\* On an http thread.
handle_http_request(r, host, method, route) ==
    /\ running /\ req[r].stage = "none"
    /\ \/ ~allow_host(config.options, host) /\ Answer(r, 400, 0)
       \/ allow_host(config.options, host) /\ method = "OPTIONS" /\ Answer(r, 200, 0)
       \/ /\ allow_host(config.options, host) /\ method = "POST"
          /\ \/ Busy /\ Answer(r, 429, 0)
             \/ ~Busy /\ route = "unknown" /\ Answer(r, 404, 0)
             \/ /\ ~Busy /\ route \in {"app", "http"}
                /\ req' = [req EXCEPT ![r].stage = IF route = "app" THEN "counted" ELSE "called",
                                      ![r].route = route]
                /\ bytes' = bytes + (IF route = "app" THEN body[r] ELSE 0)
                /\ UNCHANGED <<config, running>>

Held(r) == IF req[r].route = "app" THEN body[r] ELSE 0

\* The body stays counted when the request is refused.
verify_without_release(r) ==
    /\ req[r].stage = "counted" /\ running
    /\ IF Busy THEN Answer(r, 429, 0) ELSE Moves(r, "called", 0)

\* make_app_thread_url_handler: the limit is read after the body was counted, then the handler
\* is posted to the application thread.
verify_max_bytes_in_flight(r) ==
    /\ req[r].stage = "counted" /\ running
    /\ IF Busy THEN Answer(r, 429, Held(r)) ELSE Moves(r, "called", 0)

\* The handler throws, answers at once, or keeps the callback (push_transaction and the like).
url_handler(r, outcome) ==
    /\ req[r].stage = "called" /\ running
    /\ CASE outcome = "throws"  -> Answer(r, 500, Held(r))
         [] outcome = "answers" -> Moves(r, "responding", 0)
         [] outcome = "keeps"   -> Moves(r, "kept", 0)

callback(r) == req[r].stage = "kept" /\ running /\ Moves(r, "responding", 0)

\* make_http_response_handler: count the response, read the limit, post to the thread pool.  The
\* callback and with it the body go when it returns.
count_response(r) == req[r].stage = "responding" /\ running /\ Moves(r, "response_counted", response[r])

verify_response(r) ==
    /\ req[r].stage = "response_counted" /\ running
    /\ IF Busy THEN Answer(r, 429, Held(r) + response[r]) ELSE Moves(r, "posted", -Held(r))

\* Turning the response into text takes longer than max_response_time, or counts the text and
\* sends it.
to_string(r, in_time) ==
    /\ req[r].stage = "posted" /\ running
    /\ IF in_time THEN Moves(r, "sending", response[r]) ELSE Answer(r, 500, response[r])

send_response(r) == req[r].stage = "sending" /\ Answer(r, 200, 2 * response[r])

\* What the thread pool still held is destroyed with it; a thread that sends finishes.
plugin_shutdown ==
    /\ running /\ \A r \in Requests : req[r].stage # "sending"
    /\ running' = FALSE
    /\ LET posted == {r \in Requests : req[r].stage = "posted"}
       IN  /\ bytes' = bytes - MapThenSumSet(LAMBDA r : response[r], posted)
           /\ req' = [r \in Requests |-> IF r \in posted THEN [req[r] EXCEPT !.stage = "dropped"]
                                         ELSE req[r]]
    /\ UNCHANGED config

Init ==
    /\ config \in {plugin_initialize(o) : o \in Options}
    /\ req = [r \in Requests |-> [stage |-> "none", route |-> "none", code |-> << >>]]
    /\ bytes = 0
    /\ running = FALSE

Step(r) ==
    \/ verify_max_bytes_in_flight(r)
    \/ \E outcome \in {"throws", "answers", "keeps"} : url_handler(r, outcome)
    \/ callback(r)
    \/ count_response(r)
    \/ verify_response(r)
    \/ \E in_time \in BOOLEAN : to_string(r, in_time)
    \/ send_response(r)

Next ==
    \/ plugin_startup
    \/ \E r \in Requests, host \in {"valid", "other"}, method \in {"OPTIONS", "POST"},
          route \in {"unknown", "app", "http"} : handle_http_request(r, host, method, route)
    \/ \E r \in Requests : Step(r)
    \/ plugin_shutdown

\* The http threads, the application thread and the owners of kept callbacks go on.
Fairness == \A r \in Requests : WF_vars(Step(r))

Spec == Init /\ [][Next]_vars /\ Fairness

-----------------------------------------------------------------------------
Inside == {s \in Servers : endpoint[s] \in {"refused", "tested", "bound"}}
Up == Inside \cup {s \in Servers : endpoint[s] = "listening"}

\* A server that dies or stops, and what was left of an overlap with the last of them.
Leaves(s, to) ==
    /\ endpoint' = [endpoint EXCEPT ![s] = to]
    /\ overlapped' = (overlapped /\ Up # {s})

\* listen: connecting succeeds only when the path's owner listens.
listen_test(s) ==
    LET owned == path \in Servers /\ endpoint[path] = "listening"
    IN  /\ endpoint[s] = "ready"
        /\ endpoint' = [endpoint EXCEPT ![s] = CASE owned -> "in_use"
                                                 [] path = "none" -> "tested"
                                                 [] OTHER -> "refused"]
        /\ overlapped' = (overlapped \/ (~owned /\ Inside # {}))
        /\ UNCHANGED path

\* Connection refused: whatever the path names by now is removed.
listen_unlink(s) ==
    /\ endpoint[s] = "refused"
    /\ endpoint' = [endpoint EXCEPT ![s] = "tested"]
    /\ path' = "none"
    /\ UNCHANGED overlapped

\* open and bind: an existing path is an error.
listen_bind(s) ==
    /\ endpoint[s] = "tested"
    /\ IF path = "none"
       THEN /\ path' = s /\ endpoint' = [endpoint EXCEPT ![s] = "bound"]
            /\ UNCHANGED overlapped
       ELSE Leaves(s, "in_use") /\ UNCHANGED path

listen(s) ==
    /\ endpoint[s] = "bound"
    /\ endpoint' = [endpoint EXCEPT ![s] = "listening"]
    /\ UNCHANGED <<path, overlapped>>

\* Whatever the path names by now is removed.
stop_listening(s) ==
    /\ endpoint[s] = "listening"
    /\ Leaves(s, "ready")
    /\ path' = "none"

\* The process ends without stop_listening, or failed to start; it is started again later.
crash(s) ==
    /\ endpoint[s] # "ready"
    /\ Leaves(s, "ready")
    /\ path' = IF path = s THEN "nobody" ELSE path

SocketInit ==
    /\ endpoint = [s \in Servers |-> "ready"] /\ path \in {"none", "nobody"}
    /\ overlapped = FALSE

SocketNext == \E s \in Servers :
    listen_test(s) \/ listen_unlink(s) \/ listen_bind(s) \/ listen(s) \/ stop_listening(s) \/ crash(s)

-----------------------------------------------------------------------------
\* What a request holds at each stage.
Live(r) ==
    CASE req[r].stage \in {"counted", "called", "kept", "responding"} -> Held(r)
      [] req[r].stage = "response_counted" -> Held(r) + response[r]
      [] req[r].stage = "posted" -> response[r]
      [] req[r].stage = "sending" -> 2 * response[r]
      [] OTHER -> 0

\* bytes_in_flight is what the unanswered requests hold, whichever way each of them ended and
\* whatever ran in between: a leak would make the node refuse requests for ever.
InFlightExact == bytes = MapThenSumSet(Live, Requests)

\* A request gets one answer at most.
AnsweredOnce == \A r \in Requests : Len(req[r].code) <= 1

\* A request that came in gets an answer, unless the node shuts down first.
Unanswered(r) == req[r].stage # "none" /\ req[r].code = << >> /\ running
RequestAnswered == \A r \in Requests : Unanswered(r) ~> ~Unanswered(r)

\* "looks like a service is already running on that socket, ... don't touch it": a client that
\* connects to the path reaches every server that believes it listens there, however servers
\* start, fail, stop and die one after the other. Servers inside listen at the same time are
\* excepted: each may find the path unanswered and remove it after another has bound it.
ListenersReachable == ~overlapped => \A s \in Servers : endpoint[s] = "listening" => path = s
=============================================================================
