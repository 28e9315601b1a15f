----------------------------- MODULE HttpConnection -----------------------------
(***************************************************************************)
(* One thread per TCP connection: reading a request that arrives in        *)
(* segments, routing it, and answering it. The client sends its bytes, may *)
(* stall or close its side at any point; a read returns what has arrived,  *)
(* or fails after two seconds without a byte.                              *)
(*                                                                         *)
(* A request is a sequence of tokens: "line" (the request line), "hdr",    *)
(* "end" (the empty line) and the tokens of its body; a JSON object is "{" *)
(* and "}" with "f" for its fields between. Lengths are counted in tokens. *)
(* The print path behind POST is that of module DriverPrint, in one step.  *)
(***************************************************************************)
EXTENDS Naturals, Sequences

CONSTANTS
  Conns,      \* connections
  Messages,   \* the requests that clients send
  Traffic,    \* which of them come together; None on a connection not made
  Word,       \* 2^w: a usize is below it
  None

\* A request as clients make it: the empty line ends its head, a closing brace
\* can only end its body, a request behind it begins with its line; and it is
\* shorter than the address space. Its Content-Length may be anything.
IsRequest(m) ==
  /\ {m.head, m.body, m.extra} \subseteq Seq(STRING)
  /\ m.head # <<>> /\ \A i \in 1..Len(m.head) : m.head[i] = "end" <=> i = Len(m.head)
  /\ \A i \in 1..(Len(m.body) - 1) : m.body[i] # "}"
  /\ m.extra # <<>> => m.extra[1] = "line"
  /\ Len(m.head) + Len(m.body) < Word

ASSUME ConnAssumption ==
  /\ Word \in Nat \ {0} /\ None \notin Conns
  /\ \A m \in Messages : IsRequest(m)
  /\ Traffic \subseteq [Conns -> Messages \cup {None}]

VARIABLES
  message,    \* what the client of the connection means to send
  arrived,    \* tokens of it that reached the server's socket
  eof,        \* the client has closed its side
  got,        \* tokens read by the handler
  expected,   \* expected_len of read_http_request
  pc,         \* where the handler is
  status,     \* HTTP status, 0 until there is one
  activity,   \* the connection whose request is printing, or None
  printed     \* whether labels came out for the connection (history)

socket == <<message, arrived, eof>>
vars == <<socket, got, expected, pc, status, activity, printed>>

Wire(c) == message[c].head \o message[c].body \o message[c].extra

Init ==
  /\ message \in Traffic
  /\ arrived = [c \in Conns |-> 0]
  /\ eof = [c \in Conns |-> FALSE]
  /\ got = [c \in Conns |-> 0]
  /\ expected = [c \in Conns |-> 0]
  /\ pc = [c \in Conns |-> IF message[c] = None THEN "absent" ELSE "backlog"]
  /\ status = [c \in Conns |-> 0]
  /\ activity = None
  /\ printed = [c \in Conns |-> FALSE]

-------------------------------------------------------------------------------
(* The client and the network.                                             *)

deliver(c) ==
  /\ pc[c] # "absent" /\ ~eof[c] /\ arrived[c] < Len(Wire(c))
  /\ arrived' = [arrived EXCEPT ![c] = @ + 1]
  /\ UNCHANGED <<message, eof, got, expected, pc, status, activity, printed>>

client_closes(c) ==
  /\ pc[c] # "absent" /\ ~eof[c]
  /\ eof' = [eof EXCEPT ![c] = TRUE]
  /\ UNCHANGED <<message, arrived, got, expected, pc, status, activity, printed>>

-------------------------------------------------------------------------------
(* serve_mobile_http and read_http_request.                                *)

accept(c) ==
  /\ pc[c] = "backlog"
  /\ pc' = [pc EXCEPT ![c] = "first"]
  /\ UNCHANGED <<socket, got, expected, status, activity, printed>>

\* Any accept error but EINTR ends serve_mobile_http, and with it the process.
accept_err ==
  /\ \E c \in Conns : pc[c] = "backlog"
  /\ pc' = [c \in Conns |-> IF pc[c] \in {"absent", "answered"} THEN pc[c] ELSE "lost"]
  /\ activity' = None
  /\ UNCHANGED <<socket, got, expected, status, printed>>

\* The tokens that n tokens of the wire are, and those after their empty line.
raw(c, n) == SubSeq(Wire(c), 1, n)
ends(s) == {i \in 1..Len(s) : s[i] = "end"}
first_end(s) == CHOOSE i \in ends(s) : \A k \in ends(s) : i <= k
parse_body(s) == IF ends(s) = {} THEN <<>> ELSE SubSeq(s, first_end(s) + 1, Len(s))

\* No Content-Length, or one that is not a usize, counts as 0.
content_length(c) == IF message[c].length \in 0..(Word - 1) THEN message[c].length ELSE 0

\* Mutant: the length of the header is forgotten.
expected_len_NoHeader(c, head) == content_length(c)

\* header_end + content_length; a release build wraps around, a debug build
\* panics.
expected_len(c, head) == (head + content_length(c)) % Word

Overflows(c, head) == head + content_length(c) >= Word

\* A read has brought the request to n tokens: go on reading, or route it.
read_more(c, n) ==
  IF pc[c] = "body"
  THEN /\ pc' = [pc EXCEPT ![c] = IF n < expected[c] THEN "body" ELSE "route"]
       /\ UNCHANGED expected
  ELSE IF ends(raw(c, n)) = {}
  THEN pc' = [pc EXCEPT ![c] = "header"] /\ UNCHANGED expected
  ELSE LET len == expected_len(c, first_end(raw(c, n)))
       IN \/ /\ expected' = [expected EXCEPT ![c] = len]
             /\ pc' = [pc EXCEPT ![c] = IF n < len THEN "body" ELSE "route"]
          \/ /\ Overflows(c, first_end(raw(c, n)))
             /\ pc' = [pc EXCEPT ![c] = "lost"]
             /\ UNCHANGED expected

Reading == {"first", "header", "body"}

read_some(c) ==
  /\ pc[c] \in Reading
  /\ \E n \in (got[c] + 1)..arrived[c] :
       got' = [got EXCEPT ![c] = n] /\ read_more(c, n)
  /\ UNCHANGED <<socket, status, activity, printed>>

\* Only the first read does not look whether it returned 0.
read_eof(c) ==
  /\ pc[c] \in Reading
  /\ eof[c] /\ got[c] = arrived[c]
  /\ pc' = [pc EXCEPT ![c] = IF @ = "first" THEN "header" ELSE "route"]
  /\ UNCHANGED <<socket, got, expected, status, activity, printed>>

\* Mutant: no timeout is set.
read_timeout_Never(c) == FALSE /\ UNCHANGED vars

\* The read fails and the connection is dropped without an answer.
read_timeout(c) ==
  /\ pc[c] \in Reading
  /\ ~eof[c] /\ got[c] = arrived[c]
  /\ pc' = [pc EXCEPT ![c] = "lost"]
  /\ UNCHANGED <<socket, got, expected, status, activity, printed>>

-------------------------------------------------------------------------------
(* Routing.                                                                *)

GetPaths ==
  {"/healthz", "/v1/mobile/handshake", "/v1/mobile/printer/capabilities",
   "/v1/mobile/monitor/state", "/v1/mobile/setup/status", "/v1/mobile/items",
   "/v1/mobile/warehouses", "/v1/mobile/archive",
   "/v1/mobile/items/{item_code}/warehouses", "/v1/mobile/batch/state"}
PrintPaths == {"/v1/driver/print", "/v1/mobile/driver/print"}
BatchPaths ==
  {"/v1/mobile/batch/start", "/v1/mobile/batch/stop", "/v1/mobile/batch/manual-print"}
MONITOR_STREAM_PATH == "/v1/mobile/monitor/stream"

is_cors_path(path) ==
  path \in GetPaths \cup PrintPaths \cup BatchPaths
             \cup {"/v1/mobile/setup/warehouse", MONITOR_STREAM_PATH}

\* Mutant: every method prints.
route_AnyMethodPrints(method, path) ==
  IF method = "OPTIONS" /\ is_cors_path(path) THEN 204
  ELSE IF method = "GET" /\ path \in GetPaths THEN 200
  ELSE IF method = "POST" /\ path = "/v1/mobile/setup/warehouse" THEN 200
  ELSE IF path \in PrintPaths THEN 0
  ELSE IF method = "POST" /\ path \in BatchPaths THEN 409
  ELSE IF is_cors_path(path) /\ path # MONITOR_STREAM_PATH THEN 405
  ELSE 404

\* handle_mobile_http_request_with_body: the status, or 0 for a print request.
route(method, path) ==
  IF method = "OPTIONS" /\ is_cors_path(path) THEN 204
  ELSE IF method = "GET" /\ path \in GetPaths THEN 200
  ELSE IF method = "POST" /\ path = "/v1/mobile/setup/warehouse" THEN 200
  ELSE IF method = "POST" /\ path \in PrintPaths THEN 0
  ELSE IF method = "POST" /\ path \in BatchPaths THEN 409
  ELSE IF is_cors_path(path) /\ path # MONITOR_STREAM_PATH THEN 405
  ELSE 404

\* The fields of HandshakeResponse that name paths; profile_path names one more,
\* which this service does not have.
HandshakePaths ==
  {"/v1/mobile/monitor/state", "/v1/mobile/items", "/v1/mobile/batch/state"}

\* A target may lack the slash or carry a query: slash and query are strings
\* around the path, and only the path counts.
normalize_path(target) == target.path

Respond(c, code) ==
  /\ status' = [status EXCEPT ![c] = code]
  /\ pc' = [pc EXCEPT ![c] = "respond"]

\* A request of which nothing but an end of file was read has no request line.
bad_request(c) ==
  /\ pc[c] = "route" /\ got[c] = 0
  /\ Respond(c, 400)
  /\ UNCHANGED <<socket, got, expected, activity, printed>>

\* The monitor stream is looked at first, by every method. Its thread lives as
\* long as the client (module ScaleMonitor).
route_stream(c) ==
  /\ pc[c] = "route" /\ got[c] > 0
  /\ normalize_path(message[c].target) = MONITOR_STREAM_PATH
  /\ IF message[c].method = "GET"
     THEN status' = [status EXCEPT ![c] = 200] /\ pc' = [pc EXCEPT ![c] = "stream"]
     ELSE Respond(c, 405)
  /\ UNCHANGED <<socket, got, expected, activity, printed>>

route_raw_http_request(c) ==
  LET path == normalize_path(message[c].target)
      code == route(message[c].method, path)
  IN /\ pc[c] = "route" /\ got[c] > 0 /\ path # MONITOR_STREAM_PATH
     /\ IF code = 0
        THEN pc' = [pc EXCEPT ![c] = "driver_print"] /\ UNCHANGED status
        ELSE Respond(c, code)
     /\ UNCHANGED <<socket, got, expected, activity, printed>>

\* Mutant: an object that is only begun is taken.
from_json_Lenient(s) == Len(s) >= 2 /\ s[1] = "{"

\* serde_json accepts a whole object and nothing after it.
from_json(s) ==
  /\ Len(s) >= 2 /\ s[1] = "{" /\ s[Len(s)] = "}"
  /\ \A i \in 2..(Len(s) - 1) : s[i] = "f"

\* driver_print_response: refused for its body, its content or a busy printer,
\* or printing from here on.
driver_print_response(c) ==
  /\ pc[c] = "driver_print"
  /\ \/ ~from_json(parse_body(raw(c, got[c]))) /\ Respond(c, 400) /\ UNCHANGED activity
     \/ /\ from_json(parse_body(raw(c, got[c])))
        /\ \/ \E code \in {400, 422} : Respond(c, code) /\ UNCHANGED activity
           \/ activity # None /\ Respond(c, 409) /\ UNCHANGED activity
           \/ /\ activity = None
              /\ activity' = c
              /\ pc' = [pc EXCEPT ![c] = "printing"]
              /\ UNCHANGED status
  /\ UNCHANGED <<socket, got, expected, printed>>

print_ends(c) ==
  /\ pc[c] = "printing"
  /\ \/ Respond(c, 200) /\ printed' = [printed EXCEPT ![c] = TRUE]
     \/ /\ \E code \in {500, 503} : Respond(c, code)
        /\ \E out \in BOOLEAN : printed' = [printed EXCEPT ![c] = out]
  /\ activity' = None
  /\ UNCHANGED <<socket, got, expected>>

\* The answer reaches the client, or the write fails and is not repeated.
write_http_response(c) ==
  /\ pc[c] = "respond"
  /\ \E end \in {"answered", "lost"} : pc' = [pc EXCEPT ![c] = end]
  /\ UNCHANGED <<socket, got, expected, status, activity, printed>>

\* The client has left the monitor stream.
stream_ends(c) ==
  /\ pc[c] = "stream" /\ eof[c]
  /\ pc' = [pc EXCEPT ![c] = "answered"]
  /\ UNCHANGED <<socket, got, expected, status, activity, printed>>

Client(c) == deliver(c) \/ client_closes(c)

\* What a handler does without waiting for a printer.
Handler(c) ==
  \/ accept(c) \/ read_some(c) \/ read_eof(c) \/ read_timeout(c)
  \/ bad_request(c) \/ route_stream(c) \/ route_raw_http_request(c)
  \/ driver_print_response(c) \/ write_http_response(c) \/ stream_ends(c)

Next ==
  \/ \E c \in Conns : Client(c) \/ Handler(c) \/ print_ends(c)
  \/ accept_err

\* Threads run and reads time out; nothing is said of clients or printers.
Spec == Init /\ [][Next]_vars /\ \A c \in Conns : WF_vars(Handler(c))

-------------------------------------------------------------------------------
(* Properties.                                                             *)

\* Labels come out only for a POST to a print path whose JSON object was read to
\* its end and as its client sent it: no segmentation, early close, wrong
\* Content-Length or second request on the connection makes the service print a
\* part of a request (read_http_request, parse_body, from_json).
PrintsWhatWasSent ==
  \A c \in Conns :
    printed[c] \/ pc[c] = "printing" =>
      /\ message[c].method = "POST"
      /\ normalize_path(message[c].target) \in PrintPaths
      /\ parse_body(raw(c, got[c])) = message[c].body

\* A client that sends a whole request with its right Content-Length, nothing
\* after it, and waits, is never told that its JSON is bad because its bytes
\* came in several segments: when its handler looks at the body, all of it has
\* been read.
WholeBodyIsRead ==
  \A c \in Conns :
    /\ pc[c] \in {"driver_print", "printing"}
    /\ message[c].extra = <<>> /\ message[c].length = Len(message[c].body)
    /\ ~eof[c]
    => got[c] = Len(Wire(c))

\* The endpoints of README.md (Mobile API Surface), each with what it may answer.
EndpointTable ==
  LET rows(method, paths, answers) ==
        {[method |-> method, path |-> p, answers |-> answers] : p \in paths}
  IN rows("GET",
          {"/healthz", "/v1/mobile/handshake", "/v1/mobile/printer/capabilities",
           "/v1/mobile/monitor/state", "/v1/mobile/monitor/stream",
           "/v1/mobile/batch/state", "/v1/mobile/setup/status", "/v1/mobile/items",
           "/v1/mobile/items/{item_code}/warehouses", "/v1/mobile/warehouses",
           "/v1/mobile/archive"}, {200})
     \cup rows("POST", {"/v1/mobile/setup/warehouse"}, {200})
     \cup rows("POST", {"/v1/driver/print", "/v1/mobile/driver/print"},
               {200, 400, 409, 422, 500, 503})
     \cup rows("POST", {"/v1/mobile/batch/start", "/v1/mobile/batch/manual-print",
                        "/v1/mobile/batch/stop"}, {409})

\* What the table says of a status. A browser's preflight is let through, but for
\* that of the monitor stream, which its runtime refuses.
InTable(m, p, code) ==
  LET listed == {r \in EndpointTable : r.path = p}
  IN /\ listed = {} => code = 404
     /\ \A r \in listed : r.method = m => code \in r.answers
     /\ listed # {} /\ (\A r \in listed : r.method # m) =>
          code = IF m = "OPTIONS" /\ p # "/v1/mobile/monitor/stream" THEN 204 ELSE 405

\* Whatever other connections do and however a request arrives, it is answered as
\* the endpoints of README.md say: served by its method, 204 for a preflight, 405
\* for another method, 404 for another path. Labels come out only for the POST of
\* a print path, and the paths a handshake hands out are served.
RoutesMatchTable ==
  \A c \in Conns :
    LET m == message[c].method
        p == normalize_path(message[c].target)
    IN pc[c] \in {"respond", "answered", "stream"} /\ got[c] > 0 =>
         /\ InTable(m, p, status[c])
         /\ printed[c] => m = "POST" /\ p \in {"/v1/driver/print", "/v1/mobile/driver/print"}
         /\ p \in HandshakePaths /\ m = "GET" => status[c] = 200

\* Every connection ends, or is a monitor stream, or waits for the printer: a
\* silent client costs a read timeout, and a printer that never takes its data
\* holds up no connection but its own.
EveryConnectionEnds ==
  \A c \in Conns : pc[c] = "first" ~> pc[c] \in {"answered", "lost", "stream", "printing"}
===============================================================================
