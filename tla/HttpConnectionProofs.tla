-------------------------- MODULE HttpConnectionProofs --------------------------
(***************************************************************************)
(* Every connection is answered as the table of routes says, labels come   *)
(* out for a POST only and for what its client sent, and a whole request   *)
(* is read as a whole: for any requests on any number of connections,      *)
(* however they are cut into segments.                                     *)
(***************************************************************************)
EXTENDS HttpConnection, SequenceTheorems, TLAPS

Points ==
  {"absent", "backlog", "first", "header", "body", "route", "driver_print", "printing",
   "respond", "stream", "answered", "lost"}

ConnType ==
  /\ pc \in [Conns -> Points]
  /\ status \in [Conns -> Nat]
  /\ printed \in [Conns -> BOOLEAN]
  /\ got \in [Conns -> Nat]
  /\ arrived \in [Conns -> Nat]

Method(c) == message[c].method
Path(c) == normalize_path(message[c].target)
Documented ==
  GetPaths \cup PrintPaths \cup BatchPaths \cup {"/v1/mobile/setup/warehouse", MONITOR_STREAM_PATH}
Uses(p) == IF p \in GetPaths \cup {MONITOR_STREAM_PATH} THEN "GET" ELSE "POST"

IsPrint(c) == Method(c) = "POST" /\ Path(c) \in PrintPaths

\* An answer of the table, which serves what a handshake hands out.
Answered(m, p, code) ==
  InTable(m, p, code) /\ (p \in HandshakePaths /\ m = "GET" => code = 200)

\* The statuses, once there are any, are in the table; what prints is a print
\* request.
RouteInv ==
  \A c \in Conns :
    /\ pc[c] \in {"driver_print", "printing"} => IsPrint(c)
    /\ printed[c] => IsPrint(c)
    /\ pc[c] \in {"respond", "answered", "stream"} /\ got[c] > 0 =>
         Answered(Method(c), Path(c), status[c])

ConnInv == ConnType /\ RouteInv

-------------------------------------------------------------------------------
\* The kinds of paths are apart.
LEMMA PathKinds ==
  ASSUME NEW p
  PROVE  /\ p \in GetPaths => p \notin PrintPaths /\ p \notin BatchPaths
         /\ p \in PrintPaths => p \notin BatchPaths
         /\ p \in GetPaths \cup PrintPaths \cup BatchPaths =>
              p # "/v1/mobile/setup/warehouse" /\ p # MONITOR_STREAM_PATH
         /\ MONITOR_STREAM_PATH # "/v1/mobile/setup/warehouse"
         /\ p \in HandshakePaths => p \in GetPaths
  BY DEF GetPaths, PrintPaths, BatchPaths, HandshakePaths, MONITOR_STREAM_PATH

\* The rows of the table, by the kinds of paths.
LEMMA Rows ==
  /\ \A r \in EndpointTable :
       /\ r.path \in Documented /\ r.method = Uses(r.path)
       /\ r.path \in GetPaths \cup {MONITOR_STREAM_PATH, "/v1/mobile/setup/warehouse"} =>
            r.answers = {200}
       /\ r.path \in PrintPaths => r.answers = {200, 400, 409, 422, 500, 503}
       /\ r.path \in BatchPaths => r.answers = {409}
  /\ \A p \in Documented : \E r \in EndpointTable : r.path = p
<1> DEFINE rows(method, paths, answers) ==
             {[method |-> method, path |-> p, answers |-> answers] : p \in paths}
           any == {200, 400, 409, 422, 500, 503}
<1> HIDE DEF any
<1>1. EndpointTable = rows("GET", GetPaths \cup {MONITOR_STREAM_PATH}, {200})
                        \cup rows("POST", {"/v1/mobile/setup/warehouse"}, {200})
                        \cup rows("POST", PrintPaths, any)
                        \cup rows("POST", BatchPaths, {409})
  <2> DEFINE gets == {"/healthz", "/v1/mobile/handshake", "/v1/mobile/printer/capabilities",
                      "/v1/mobile/monitor/state", "/v1/mobile/monitor/stream",
                      "/v1/mobile/batch/state", "/v1/mobile/setup/status", "/v1/mobile/items",
                      "/v1/mobile/items/{item_code}/warehouses", "/v1/mobile/warehouses",
                      "/v1/mobile/archive"}
             batches == {"/v1/mobile/batch/start", "/v1/mobile/batch/manual-print",
                         "/v1/mobile/batch/stop"}
  <2>1. gets = GetPaths \cup {MONITOR_STREAM_PATH} /\ batches = BatchPaths
    BY DEF GetPaths, MONITOR_STREAM_PATH, BatchPaths
  <2>2. EndpointTable = rows("GET", gets, {200})
                          \cup rows("POST", {"/v1/mobile/setup/warehouse"}, {200})
                          \cup rows("POST", PrintPaths, any)
                          \cup rows("POST", batches, {409})
    BY Zenon DEF EndpointTable, PrintPaths, any
  <2>3. QED
    BY <2>1, <2>2, Zenon
<1>2. ASSUME NEW r \in EndpointTable
      PROVE  /\ r.path \in Documented /\ r.method = Uses(r.path)
             /\ r.path \in GetPaths \cup {MONITOR_STREAM_PATH, "/v1/mobile/setup/warehouse"} =>
                  r.answers = {200}
             /\ r.path \in PrintPaths => r.answers = any
             /\ r.path \in BatchPaths => r.answers = {409}
  <2>1. CASE r \in rows("GET", GetPaths \cup {MONITOR_STREAM_PATH}, {200})
    BY <2>1, PathKinds DEF Documented, Uses
  <2>2. CASE r \in rows("POST", {"/v1/mobile/setup/warehouse"}, {200})
    BY <2>2, PathKinds DEF Documented, Uses
  <2>3. CASE r \in rows("POST", PrintPaths, any)
    BY <2>3, PathKinds DEF Documented, Uses
  <2>4. CASE r \in rows("POST", BatchPaths, {409})
    BY <2>4, PathKinds DEF Documented, Uses
  <2>5. QED
    BY <1>1, <2>1, <2>2, <2>3, <2>4
<1>3. ASSUME NEW p \in Documented PROVE \E r \in EndpointTable : r.path = p
  <2>1. \A method, paths, answers :
          p \in paths => \E r \in rows(method, paths, answers) : r.path = p
    <3> SUFFICES ASSUME NEW method, NEW paths, NEW answers, p \in paths
                 PROVE  \E r \in rows(method, paths, answers) : r.path = p
      OBVIOUS
    <3> DEFINE r == [method |-> method, path |-> p, answers |-> answers]
    <3>1. r \in rows(method, paths, answers) /\ r.path = p
      OBVIOUS
    <3>2. QED
      BY <3>1
  <2> HIDE DEF rows
  <2>2. p \in GetPaths \cup {MONITOR_STREAM_PATH} \/ p \in {"/v1/mobile/setup/warehouse"}
        \/ p \in PrintPaths \/ p \in BatchPaths
    BY DEF Documented
  <2>3. QED
    BY <1>1, <2>1, <2>2
<1>4. QED
  BY <1>2, <1>3 DEF any

\* The table in the terms of the model.
LEMMA TableOf ==
  ASSUME NEW m, NEW p, NEW code,
         p \notin Documented => code = 404,
         p \in Documented /\ m # Uses(p) =>
           code = IF m = "OPTIONS" /\ p # MONITOR_STREAM_PATH THEN 204 ELSE 405,
         m = Uses(p) /\ p \in GetPaths \cup {MONITOR_STREAM_PATH, "/v1/mobile/setup/warehouse"} =>
           code = 200,
         m = "POST" /\ p \in PrintPaths => code \in {200, 400, 409, 422, 500, 503},
         m = "POST" /\ p \in BatchPaths => code = 409
  PROVE  InTable(m, p, code)
<1> DEFINE listed == {r \in EndpointTable : r.path = p}
<1>1. listed = {} => code = 404
  BY Rows
<1>2. ASSUME NEW r \in listed, r.method = m PROVE code \in r.answers
  BY <1>2, Rows DEF Documented, Uses
<1>3. listed # {} /\ (\A r \in listed : r.method # m) =>
        code = IF m = "OPTIONS" /\ p # "/v1/mobile/monitor/stream" THEN 204 ELSE 405
  BY Rows DEF MONITOR_STREAM_PATH
<1>4. QED
  BY <1>1, <1>2, <1>3 DEF InTable

LEMMA RouteInTable ==
  ASSUME NEW m, NEW p, p # MONITOR_STREAM_PATH
  PROVE  /\ route(m, p) \in Nat
         /\ route(m, p) = 0 => m = "POST" /\ p \in PrintPaths
         /\ route(m, p) # 0 => InTable(m, p, route(m, p))
         /\ p \in HandshakePaths /\ m = "GET" => route(m, p) = 200
<1>0. is_cors_path(p) <=> p \in Documented
  BY DEF is_cors_path, Documented
<1>1. CASE p \in GetPaths
  <2>1. /\ is_cors_path(p) /\ p \in Documented /\ Uses(p) = "GET"
        /\ p \notin PrintPaths /\ p \notin BatchPaths /\ p # "/v1/mobile/setup/warehouse"
    BY <1>0, <1>1, PathKinds DEF Documented, Uses
  <2>2. route(m, p) = IF m = "OPTIONS" THEN 204 ELSE IF m = "GET" THEN 200 ELSE 405
    BY <1>1, <2>1 DEF route
  <2>3. InTable(m, p, route(m, p))
    BY <2>1, <2>2, TableOf
  <2>4. QED
    BY <2>2, <2>3
<1>2. CASE p \notin GetPaths /\ p \in Documented
  <2>1. is_cors_path(p) /\ Uses(p) = "POST" /\ p \notin HandshakePaths
    BY <1>0, <1>2, PathKinds DEF Uses
  <2>2. route(m, p) = IF m = "OPTIONS" THEN 204 ELSE IF m # "POST" THEN 405
                      ELSE IF p \in PrintPaths THEN 0 ELSE IF p \in BatchPaths THEN 409 ELSE 200
    BY <1>2, <2>1, PathKinds DEF route, Documented
  <2>3. route(m, p) # 0 => InTable(m, p, route(m, p))
    BY <1>2, <2>1, <2>2, PathKinds, TableOf
  <2>4. QED
    BY <2>1, <2>2, <2>3
<1>3. CASE p \notin Documented
  <2>1. route(m, p) = 404 /\ p \notin HandshakePaths
    BY <1>0, <1>3, PathKinds DEF route, Documented
  <2>2. InTable(m, p, 404)
    BY <1>3, TableOf DEF Documented
  <2>3. QED
    BY <2>1, <2>2
<1>4. QED
  BY <1>1, <1>2, <1>3 DEF Documented

LEMMA PrintInTable ==
  ASSUME NEW p \in PrintPaths, NEW code \in {200, 400, 409, 422, 500, 503}
  PROVE  InTable("POST", p, code) /\ p \notin HandshakePaths
<1>1. /\ p \in Documented /\ Uses(p) = "POST" /\ p \notin HandshakePaths
      /\ p \notin GetPaths \cup {MONITOR_STREAM_PATH, "/v1/mobile/setup/warehouse"}
      /\ p \notin BatchPaths
  BY PathKinds DEF Documented, Uses
<1>2. QED
  BY <1>1, TableOf

LEMMA StreamInTable ==
  ASSUME NEW m
  PROVE  /\ InTable(m, MONITOR_STREAM_PATH, IF m = "GET" THEN 200 ELSE 405)
         /\ MONITOR_STREAM_PATH \notin HandshakePaths
<1>1. /\ MONITOR_STREAM_PATH \in Documented /\ Uses(MONITOR_STREAM_PATH) = "GET"
      /\ MONITOR_STREAM_PATH \notin HandshakePaths
      /\ MONITOR_STREAM_PATH \notin PrintPaths /\ MONITOR_STREAM_PATH \notin BatchPaths
  BY DEF Documented, Uses, HandshakePaths, MONITOR_STREAM_PATH, PrintPaths, BatchPaths
<1>2. QED
  BY <1>1, TableOf

-------------------------------------------------------------------------------
\* A step of one connection that neither prints nor answers.
LEMMA QuietStep ==
  ASSUME ConnInv, NEW c \in Conns, ConnType', UNCHANGED <<message, status, printed>>,
         \A x \in Conns \ {c} : pc'[x] = pc[x] /\ got'[x] = got[x],
         \/ pc'[c] \in {"absent", "backlog", "first", "header", "body", "route", "lost"}
         \/ pc'[c] = pc[c] /\ got'[c] = got[c]
         \/ /\ pc[c] \in {"respond", "stream"} /\ pc'[c] = "answered" /\ got'[c] = got[c]
  PROVE  ConnInv'
<1> USE DEF ConnInv, ConnType, RouteInv, Points
<1> SUFFICES ASSUME NEW x \in Conns
             PROVE  /\ pc'[x] \in {"driver_print", "printing"} => IsPrint(x)
                    /\ printed[x] => IsPrint(x)
                    /\ pc'[x] \in {"respond", "answered", "stream"} /\ got'[x] > 0 =>
                         Answered(Method(x), Path(x), status[x])
  BY DEF IsPrint, Method, Path
<1>1. CASE x = c
  BY <1>1
<1>2. CASE x # c
  BY <1>2
<1>3. QED
  BY <1>1, <1>2

\* A connection is answered with a status of the table.
LEMMA AnswerStep ==
  ASSUME ConnInv, NEW c \in Conns, UNCHANGED <<message, got, arrived>>,
         status' = [status EXCEPT ![c] = status'[c]], status'[c] \in Nat,
         pc' = [pc EXCEPT ![c] = pc'[c]], pc'[c] \in {"respond", "stream"},
         printed' = [printed EXCEPT ![c] = printed'[c]], printed'[c] \in BOOLEAN,
         printed'[c] => IsPrint(c),
         got[c] > 0 => Answered(Method(c), Path(c), status'[c])
  PROVE  ConnInv'
<1> USE DEF ConnInv, ConnType, RouteInv, Points
<1>1. ConnType'
  OBVIOUS
<1>2. SUFFICES ASSUME NEW x \in Conns
               PROVE  /\ pc'[x] \in {"driver_print", "printing"} => IsPrint(x)
                      /\ printed'[x] => IsPrint(x)
                      /\ pc'[x] \in {"respond", "answered", "stream"} /\ got[x] > 0 =>
                           Answered(Method(x), Path(x), status'[x])
  BY <1>1 DEF IsPrint, Method, Path
<1>3. CASE x = c
  BY <1>3
<1>4. CASE x # c
  BY <1>4
<1>5. QED
  BY <1>3, <1>4

LEMMA ReadStep ==
  ASSUME ConnInv, NEW c \in Conns, read_some(c) \/ read_eof(c) \/ read_timeout(c)
  PROVE  ConnInv'
<1>1. CASE read_some(c)
  <2> PICK n \in (got[c] + 1)..arrived[c] : got' = [got EXCEPT ![c] = n] /\ read_more(c, n)
    BY <1>1 DEF read_some
  <2>1. \E point \in {"header", "body", "route", "lost"} : pc' = [pc EXCEPT ![c] = point]
    BY DEF read_more
  <2>2. UNCHANGED <<message, arrived, status, printed>>
    BY <1>1 DEF read_some, socket
  <2>3. n \in Nat
    BY DEF ConnInv, ConnType
  <2>4. ConnType'
    BY <2>1, <2>2, <2>3 DEF ConnInv, ConnType, Points
  <2>5. QED
    BY <2>1, <2>2, <2>4, QuietStep DEF ConnInv, ConnType, Points
<1>2. CASE read_eof(c) \/ read_timeout(c)
  <2>1. \E point \in {"header", "route", "lost"} : pc' = [pc EXCEPT ![c] = point]
    BY <1>2 DEF read_eof, read_timeout
  <2>2. UNCHANGED <<message, arrived, status, printed, got>>
    BY <1>2 DEF read_eof, read_timeout, socket
  <2>3. ConnType'
    BY <2>1, <2>2 DEF ConnInv, ConnType, Points
  <2>4. QED
    BY <2>1, <2>2, <2>3, QuietStep DEF ConnInv, ConnType, Points
<1>3. QED
  BY <1>1, <1>2

LEMMA RouteStep ==
  ASSUME ConnInv, NEW c \in Conns,
         bad_request(c) \/ route_stream(c) \/ route_raw_http_request(c)
  PROVE  ConnInv'
<1> DEFINE code == route(Method(c), Path(c))
<1>1. /\ pc[c] = "route" /\ UNCHANGED <<message, arrived, got, printed>>
      /\ printed' = [printed EXCEPT ![c] = printed'[c]] /\ printed'[c] \in BOOLEAN
      /\ printed'[c] => IsPrint(c)
  BY DEF bad_request, route_stream, route_raw_http_request, socket, ConnInv, ConnType, RouteInv
<1>2. CASE /\ route_raw_http_request(c) /\ code = 0
  <2>1. Path(c) # MONITOR_STREAM_PATH /\ pc' = [pc EXCEPT ![c] = "driver_print"] /\ UNCHANGED status
    BY <1>2 DEF route_raw_http_request, Method, Path
  <2>2. IsPrint(c)
    BY <1>2, <2>1, RouteInTable DEF IsPrint
  <2>3. ConnType'
    BY <1>1, <2>1 DEF ConnInv, ConnType, Points
  <2>4. RouteInv'
    BY <1>1, <2>1, <2>2 DEF ConnInv, ConnType, RouteInv, IsPrint, Method, Path
  <2>5. QED
    BY <2>3, <2>4 DEF ConnInv
<1>3. CASE ~(route_raw_http_request(c) /\ code = 0)
  <2>1. /\ status' = [status EXCEPT ![c] = status'[c]] /\ pc' = [pc EXCEPT ![c] = pc'[c]]
        /\ pc'[c] \in {"respond", "stream"}
    BY <1>3 DEF bad_request, route_stream, route_raw_http_request, Respond, Method, Path,
                ConnInv, ConnType
  <2>2. CASE bad_request(c)
    <3>1. status'[c] = 400 /\ ~(got[c] > 0)
      BY <2>2 DEF bad_request, Respond, ConnInv, ConnType
    <3>2. QED
      BY <1>1, <2>1, <3>1, AnswerStep
  <2>3. CASE route_stream(c)
    <3>1. /\ status'[c] = IF Method(c) = "GET" THEN 200 ELSE 405
          /\ Path(c) = MONITOR_STREAM_PATH
      BY <2>3 DEF route_stream, Respond, Method, Path, ConnInv, ConnType
    <3>2. Answered(Method(c), Path(c), status'[c])
      BY <3>1, StreamInTable DEF Answered
    <3>3. status'[c] \in Nat
      BY <3>1
    <3>4. QED
      BY <1>1, <2>1, <3>2, <3>3, AnswerStep
  <2>4. CASE route_raw_http_request(c)
    <3>1. status'[c] = code /\ code # 0 /\ Path(c) # MONITOR_STREAM_PATH
      BY <1>3, <2>4 DEF route_raw_http_request, Respond, Method, Path, ConnInv, ConnType
    <3>2. status'[c] \in Nat /\ Answered(Method(c), Path(c), status'[c])
      BY <3>1, RouteInTable DEF Answered
    <3>3. QED
      BY <1>1, <2>1, <3>2, AnswerStep
  <2>5. QED
    BY <2>2, <2>3, <2>4
<1>4. QED
  BY <1>2, <1>3

\* A print request is answered.
LEMMA PrintAnswer ==
  ASSUME ConnInv, NEW c \in Conns, IsPrint(c), UNCHANGED <<message, arrived, got>>,
         status' = [status EXCEPT ![c] = status'[c]],
         status'[c] \in {200, 400, 409, 422, 500, 503},
         pc' = [pc EXCEPT ![c] = pc'[c]], pc'[c] = "respond",
         printed' = [printed EXCEPT ![c] = printed'[c]], printed'[c] \in BOOLEAN
  PROVE  ConnInv'
<1>1. Answered(Method(c), Path(c), status'[c])
  BY PrintInTable DEF IsPrint, Answered
<1>2. status'[c] \in Nat
  OBVIOUS
<1>3. QED
  BY <1>1, <1>2, AnswerStep

LEMMA PrintStep ==
  ASSUME ConnInv, NEW c \in Conns, driver_print_response(c) \/ print_ends(c)
  PROVE  ConnInv'
<1>1. IsPrint(c) /\ UNCHANGED <<message, arrived, got>>
  BY DEF driver_print_response, print_ends, socket, ConnInv, RouteInv
<1>2. printed' = [printed EXCEPT ![c] = printed'[c]] /\ printed'[c] \in BOOLEAN
  <2>1. CASE UNCHANGED printed
    BY <2>1 DEF ConnInv, ConnType
  <2>2. CASE \E out \in BOOLEAN : printed' = [printed EXCEPT ![c] = out]
    BY <2>2 DEF ConnInv, ConnType
  <2>3. QED
    BY <2>1, <2>2 DEF driver_print_response, print_ends
<1>3. CASE driver_print_response(c) /\ pc' = [pc EXCEPT ![c] = "printing"] /\ UNCHANGED status
  <2>1. UNCHANGED printed
    BY <1>3 DEF driver_print_response
  <2>2. ConnType'
    BY <1>1, <1>3, <2>1 DEF ConnInv, ConnType, Points
  <2>3. RouteInv'
    BY <1>1, <1>3, <2>1 DEF ConnInv, ConnType, RouteInv, IsPrint, Method, Path
  <2>4. QED
    BY <2>2, <2>3 DEF ConnInv
<1>4. CASE \E code \in {200, 400, 409, 422, 500, 503} : Respond(c, code)
  <2>1. /\ status' = [status EXCEPT ![c] = status'[c]] /\ pc' = [pc EXCEPT ![c] = pc'[c]]
        /\ status'[c] \in {200, 400, 409, 422, 500, 503} /\ pc'[c] = "respond"
    BY <1>4 DEF Respond, ConnInv, ConnType
  <2>2. QED
    BY <1>1, <1>2, <2>1, PrintAnswer
<1>5. QED
  BY <1>3, <1>4 DEF driver_print_response, print_ends, Respond

LEMMA OtherStep ==
  ASSUME ConnInv, NEW c \in Conns,
         Client(c) \/ accept(c) \/ write_http_response(c) \/ stream_ends(c)
  PROVE  ConnInv'
<1>1. CASE Client(c)
  <2>1. UNCHANGED <<message, status, printed, pc, got>>
    BY <1>1 DEF Client, deliver, client_closes
  <2>2. ConnType'
    <3>1. arrived' = arrived \/ arrived' = [arrived EXCEPT ![c] = arrived[c] + 1]
      BY <1>1 DEF Client, deliver, client_closes
    <3>2. arrived' \in [Conns -> Nat]
      BY <3>1 DEF ConnInv, ConnType
    <3>3. QED
      BY <2>1, <3>2 DEF ConnInv, ConnType
  <2>3. QED
    BY <2>1, <2>2, QuietStep
<1>2. CASE accept(c) \/ write_http_response(c) \/ stream_ends(c)
  <2>1. UNCHANGED <<message, status, printed, arrived, got>>
    BY <1>2 DEF accept, write_http_response, stream_ends, socket
  <2>2. \/ \E point \in {"first", "lost"} : pc' = [pc EXCEPT ![c] = point]
        \/ pc[c] \in {"respond", "stream"} /\ pc' = [pc EXCEPT ![c] = "answered"]
    BY <1>2 DEF accept, write_http_response, stream_ends
  <2>3. ConnType'
    BY <2>1, <2>2 DEF ConnInv, ConnType, Points
  <2>4. QED
    BY <2>1, <2>2, <2>3, QuietStep DEF ConnInv, ConnType, Points
<1>3. QED
  BY <1>1, <1>2

LEMMA NextConn == ConnInv /\ [Next]_vars => ConnInv'
<1> SUFFICES ASSUME ConnInv, [Next]_vars PROVE ConnInv'
  OBVIOUS
<1>1. CASE \E c \in Conns : Client(c) \/ Handler(c) \/ print_ends(c)
  BY <1>1, ReadStep, RouteStep, PrintStep, OtherStep DEF Handler
<1>2. CASE accept_err
  <2>1. ConnType'
    BY <1>2 DEF accept_err, socket, ConnInv, ConnType, Points
  <2>2. RouteInv'
    BY <1>2 DEF accept_err, socket, ConnInv, ConnType, RouteInv, IsPrint, Method, Path
  <2>3. QED
    BY <2>1, <2>2 DEF ConnInv
<1>3. CASE UNCHANGED vars
  BY <1>3 DEF vars, socket, ConnInv, ConnType, RouteInv, IsPrint, Method, Path
<1>4. QED
  BY <1>1, <1>2, <1>3 DEF Next

\* Every answer is the one that the table of routes has for the method and the
\* path of its request, and labels come out for the POST of a print path only:
\* for any requests on any number of connections, however they arrive.
THEOREM RoutesCorrect == Spec => []RoutesMatchTable
<1>1. Init => ConnInv
  BY DEF Init, ConnInv, ConnType, RouteInv, Points
<1>2. ConnInv => RoutesMatchTable
  <2> SUFFICES ASSUME ConnInv, NEW c \in Conns,
                      pc[c] \in {"respond", "answered", "stream"}, got[c] > 0
               PROVE  /\ Answered(Method(c), Path(c), status[c])
                      /\ printed[c] =>
                           /\ Method(c) = "POST"
                           /\ Path(c) \in {"/v1/driver/print", "/v1/mobile/driver/print"}
    BY DEF RoutesMatchTable, Answered, Method, Path
  <2>1. Answered(Method(c), Path(c), status[c])
    BY DEF ConnInv, RouteInv
  <2>2. printed[c] => IsPrint(c)
    BY DEF ConnInv, RouteInv
  <2>3. QED
    BY <2>1, <2>2 DEF IsPrint, PrintPaths
<1>3. QED
  BY <1>1, <1>2, NextConn, PTL DEF Spec

-------------------------------------------------------------------------------
(* What a handler has read, in tokens.                                     *)

\* Where the tokens of h, b and x are in w, which is one behind the other.
Row(w, h, b, x) ==
  /\ w \in Seq(STRING) /\ h \in Seq(STRING) /\ b \in Seq(STRING) /\ x \in Seq(STRING)
  /\ Len(h) \in Nat /\ Len(b) \in Nat /\ Len(x) \in Nat
  /\ Len(w) = Len(h) + Len(b) + Len(x)
  /\ \A i \in 1..Len(h) : w[i] = h[i]
  /\ \A i \in 1..Len(b) : w[Len(h) + i] = b[i]
  /\ \A i \in 1..Len(x) : w[Len(h) + Len(b) + i] = x[i]

LEMMA ThreeInARow ==
  ASSUME NEW h \in Seq(STRING), NEW b \in Seq(STRING), NEW x \in Seq(STRING)
  PROVE  Row((h \o b) \o x, h, b, x)
<1> DEFINE S == STRING
           w == (h \o b) \o x
<1> DEFINE hb == h \o b
<1>1. Len(h) \in Nat /\ Len(b) \in Nat /\ Len(x) \in Nat
  BY LenProperties
<1>2. /\ hb \in Seq(S) /\ Len(hb) = Len(h) + Len(b)
      /\ \A i \in 1..(Len(h) + Len(b)) : hb[i] = IF i <= Len(h) THEN h[i] ELSE b[i - Len(h)]
  BY ConcatProperties
<1>3. w = hb \o x /\ x \in Seq(S)
  OBVIOUS
<1> HIDE DEF hb, w, S
<1>4. hb \in Seq(S)
  BY <1>2
<1>5. /\ w \in Seq(S) /\ Len(w) = Len(hb) + Len(x)
      /\ \A i \in 1..(Len(hb) + Len(x)) : w[i] = IF i <= Len(hb) THEN hb[i] ELSE x[i - Len(hb)]
  BY <1>3, <1>4, ConcatProperties
<1>6. ASSUME NEW i \in 1..Len(h) PROVE w[i] = h[i]
  BY <1>1, <1>2, <1>5
<1>7. ASSUME NEW i \in 1..Len(b) PROVE w[Len(h) + i] = b[i]
  BY <1>1, <1>2, <1>5
<1>8. ASSUME NEW i \in 1..Len(x) PROVE w[Len(h) + Len(b) + i] = x[i]
  <2> DEFINE k == Len(h) + Len(b) + i
  <2>1. k \in 1..(Len(hb) + Len(x)) /\ ~(k <= Len(hb)) /\ k - Len(hb) = i
    BY <1>1, <1>2
  <2> HIDE DEF k
  <2>2. w[k] = x[i]
    BY <1>5, <2>1
  <2>3. QED
    BY <2>2 DEF k
<1>9. Len(w) = Len(h) + Len(b) + Len(x)
  BY <1>1, <1>2, <1>5
<1>10. QED
  BY <1>1, <1>5, <1>6, <1>7, <1>8, <1>9 DEF Row, w, S

\* Where head, body and what follows are on the wire.
LEMMA WireShape ==
  ASSUME NEW c, message[c] \in Messages
  PROVE  Row(Wire(c), message[c].head, message[c].body, message[c].extra)
<1>1. /\ message[c].head \in Seq(STRING) /\ message[c].body \in Seq(STRING)
      /\ message[c].extra \in Seq(STRING)
  BY ConnAssumption DEF IsRequest
<1>2. Wire(c) = (message[c].head \o message[c].body) \o message[c].extra
  BY DEF Wire
<1>3. QED
  BY <1>1, <1>2, ThreeInARow

\* The head of a request ends at its first empty line.
LEMMA HeadEnds ==
  ASSUME NEW c, message[c] \in Messages, NEW n \in 0..Len(Wire(c))
  PROVE  LET h == message[c].head
             s == raw(c, n)
         IN /\ s \in Seq(STRING) /\ Len(s) = n
            /\ \A i \in 1..n : s[i] = Wire(c)[i]
            /\ n < Len(h) => ends(s) = {}
            /\ n >= Len(h) => ends(s) # {} /\ first_end(s) = Len(h)
<1> DEFINE h == message[c].head
           s == raw(c, n)
           w == Wire(c)
<1>0. Row(w, h, message[c].body, message[c].extra) /\ h # <<>>
  BY WireShape, ConnAssumption DEF IsRequest
<1>1. /\ w \in Seq(STRING) /\ h \in Seq(STRING) /\ Len(h) \in Nat /\ Len(h) > 0
      /\ Len(h) <= Len(w)
      /\ \A i \in 1..Len(h) : w[i] = h[i]
  <2> DEFINE b == message[c].body
             x == message[c].extra
  <2> HIDE DEF h, w, b, x
  <2>1. Row(w, h, b, x) /\ h # <<>>
    BY <1>0 DEF b, x
  <2>2. QED
    BY <2>1 DEF Row
<1>2. \A i \in 1..Len(h) : h[i] = "end" <=> i = Len(h)
  BY ConnAssumption DEF IsRequest
<1>3. s \in Seq(STRING) /\ Len(s) = n /\ \A i \in 1..n : s[i] = w[i]
  BY <1>1 DEF raw
<1> HIDE DEF h, s, w
<1>4. ASSUME n < Len(h) PROVE ends(s) = {}
  BY <1>1, <1>2, <1>3, <1>4 DEF ends
<1>5. ASSUME n >= Len(h) PROVE ends(s) # {} /\ first_end(s) = Len(h)
  <2>1. Len(h) \in ends(s) /\ \A k \in ends(s) : k \in Nat /\ Len(h) <= k
    <3>1. Len(h) \in 1..n /\ Len(h) \in 1..Len(h)
      BY <1>1, <1>5
    <3>2. s[Len(h)] = "end"
      BY <1>1, <1>2, <1>3, <3>1
    <3>3. ASSUME NEW k \in 1..n, s[k] = "end", k < Len(h) PROVE FALSE
      <4>1. k \in 1..Len(h) /\ k # Len(h)
        BY <1>1, <3>3
      <4>2. h[k] = "end"
        BY <1>1, <1>3, <3>3, <4>1
      <4>3. QED
        BY <1>2, <4>1, <4>2
    <3>4. \A k \in ends(s) : k \in Nat /\ k \in 1..n /\ s[k] = "end"
      BY <1>3 DEF ends
    <3>5. \A k \in ends(s) : Len(h) <= k
      BY <1>1, <3>3, <3>4
    <3>6. QED
      BY <1>3, <3>1, <3>2, <3>4, <3>5 DEF ends
  <2>2. \A i \in ends(s) : (\A k \in ends(s) : i <= k) => i = Len(h)
    BY <1>1, <2>1
  <2>3. QED
    BY <2>1, <2>2 DEF first_end
<1>6. QED
  BY <1>3, <1>4, <1>5 DEF h, s, w

\* What parse_body returns of n tokens.
LEMMA BodyOf ==
  ASSUME NEW c, message[c] \in Messages, NEW n \in 0..Len(Wire(c)),
         from_json(parse_body(raw(c, n)))
  PROVE  parse_body(raw(c, n)) = message[c].body
<1> DEFINE h == message[c].head
           b == message[c].body
           x == message[c].extra
           w == Wire(c)
           s == raw(c, n)
           p == parse_body(s)
<1>1. /\ h \in Seq(STRING) /\ b \in Seq(STRING) /\ x \in Seq(STRING) /\ w \in Seq(STRING)
      /\ Len(h) \in Nat /\ Len(b) \in Nat /\ Len(x) \in Nat
      /\ Len(w) = Len(h) + Len(b) + Len(x)
      /\ \A i \in 1..Len(b) : w[Len(h) + i] = b[i]
      /\ \A i \in 1..Len(x) : w[Len(h) + Len(b) + i] = x[i]
  <2>1. Row(w, h, b, x)
    BY WireShape
  <2> HIDE DEF w, h, b, x
  <2>2. QED
    BY <2>1 DEF Row
<1>2. /\ \A i \in 1..(Len(b) - 1) : b[i] # "}"
      /\ x # <<>> => x[1] = "line"
  BY ConnAssumption DEF IsRequest
<1>3. /\ s \in Seq(STRING) /\ Len(s) = n
      /\ \A i \in 1..n : s[i] = w[i]
      /\ n < Len(h) => ends(s) = {}
      /\ n >= Len(h) => ends(s) # {} /\ first_end(s) = Len(h)
  BY HeadEnds
<1>4. /\ Len(p) >= 2 /\ p[1] = "{" /\ p[Len(p)] = "}"
      /\ \A i \in 2..(Len(p) - 1) : p[i] = "f"
  BY DEF from_json
<1> HIDE DEF h, b, x, w, s
<1>5. n >= Len(h)
  <2>1. SUFFICES ASSUME n < Len(h) PROVE FALSE
    BY <1>1
  <2>2. p = <<>>
    BY <1>3, <2>1 DEF parse_body
  <2>3. Len(p) = 0
    BY <2>2
  <2> HIDE DEF p
  <2>4. Len(p) >= 2
    BY <1>4
  <2>5. QED
    BY <2>3, <2>4
<1>6. p = SubSeq(s, Len(h) + 1, n)
  BY <1>3, <1>5 DEF parse_body
<1> DEFINE k == n - Len(h)
<1>7. /\ k \in Nat /\ k <= Len(b) + Len(x)
      /\ p \in Seq(STRING) /\ Len(p) = k
      /\ \A i \in 1..k : p[i] = w[Len(h) + i]
  <2> HIDE DEF p
  <2>1. k \in Nat /\ k <= Len(b) + Len(x)
    <3>1. n \in Nat /\ n <= Len(w)
      BY <1>1, LenProperties DEF w
    <3>2. QED
      BY <1>1, <1>5, <3>1
  <2>2. n \in Nat /\ Len(h) \in Nat
    BY <1>1, LenProperties
  <2>3. Len(h) + 1 \in 1..(n + 1) /\ n - (Len(h) + 1) + 1 = k
    BY <1>5, <2>1, <2>2
  <2>4. p \in Seq(STRING) /\ Len(p) = k
    BY <1>3, <1>6, <2>1, <2>2, <2>3
  <2>5. ASSUME NEW i \in 1..k PROVE p[i] = w[Len(h) + i]
    <3>1. Len(h) + i \in 1..n
      BY <2>1, <2>2
    <3>2. p[i] = s[Len(h) + i]
      BY <1>3, <1>6, <2>1, <2>2, <2>3, <3>1
    <3>3. QED
      BY <1>3, <3>1, <3>2
  <2>6. QED
    BY <2>1, <2>4, <2>5
<1> HIDE DEF k, p
<1>8. ~(k < Len(b))
  <2>1. SUFFICES ASSUME k < Len(b) PROVE FALSE
    OBVIOUS
  <2>2. k \in 1..(Len(b) - 1) /\ k \in 1..Len(b) /\ k \in 1..k
    <3>1. k >= 2 /\ k \in Nat /\ Len(b) \in Nat
      BY <1>1, <1>4, <1>7
    <3>2. QED
      BY <2>1, <3>1
  <2>3. p[k] = b[k]
    BY <1>1, <1>7, <2>2
  <2>4. QED
    BY <1>2, <1>4, <1>7, <2>2, <2>3
<1>9. ~(k > Len(b))
  <2>1. SUFFICES ASSUME k > Len(b) PROVE FALSE
    OBVIOUS
  <2>2. Len(b) + 1 \in 1..k /\ 1 \in 1..Len(x) /\ x # <<>>
    BY <1>1, <1>7, <2>1
  <2>3. p[Len(b) + 1] = "line"
    <3>1. p[Len(b) + 1] = w[Len(h) + (Len(b) + 1)]
      BY <1>7, <2>2
    <3>2. w[Len(h) + Len(b) + 1] = x[1] /\ x[1] = "line"
      BY <1>1, <1>2, <2>2
    <3>3. Len(h) + (Len(b) + 1) = Len(h) + Len(b) + 1
      BY <1>1
    <3>4. QED
      BY <3>1, <3>2, <3>3
  <2>4. Len(b) + 1 = 1 \/ Len(b) + 1 = k \/ Len(b) + 1 \in 2..(k - 1)
    BY <1>1, <1>7, <2>2
  <2>5. QED
    BY <1>4, <1>7, <2>3, <2>4
<1>10. k = Len(b)
  BY <1>1, <1>7, <1>8, <1>9
<1>11. \A i \in 1..Len(b) : p[i] = b[i]
  BY <1>1, <1>7, <1>10
<1>12. p = b
  BY <1>1, <1>7, <1>10, <1>11, SeqEqual
<1>13. QED
  BY <1>12 DEF p, s, b

\* The length a client announces truly is the length that is waited for.
LEMMA TrueLength ==
  ASSUME NEW c, message[c] \in Messages, message[c].length = Len(message[c].body)
  PROVE  expected_len(c, Len(message[c].head)) = Len(message[c].head) + Len(message[c].body)
<1> DEFINE h == Len(message[c].head)
           b == Len(message[c].body)
<1>1. h \in Nat /\ b \in Nat
  BY WireShape DEF Row
<1>2. h + b < Word /\ Word \in Nat
  BY ConnAssumption DEF IsRequest
<1>3. b \in 0..(Word - 1)
  <2> HIDE DEF h, b
  <2>1. QED
    BY <1>1, <1>2
<1>4. content_length(c) = b
  BY <1>3 DEF content_length
<1>5. expected_len(c, h) = (h + b) % Word
  BY <1>4 DEF expected_len
<1> HIDE DEF h, b
<1>6. (h + b) % Word = h + b
  BY <1>1, <1>2
<1>7. QED
  BY <1>5, <1>6 DEF h, b

\* What is waited for is a number in any case.
LEMMA LengthIsNat ==
  ASSUME NEW c, NEW n \in Nat
  PROVE  expected_len(c, n) \in Nat
<1>1. content_length(c) \in Nat /\ Word \in Nat \ {0}
  BY ConnAssumption DEF content_length
<1>2. QED
  BY <1>1 DEF expected_len

\* A client that behaves: right length, nothing behind, and waiting.
Behaves(c, closed) ==
  /\ message[c].extra = <<>> /\ message[c].length = Len(message[c].body)
  /\ ~closed

\* Of one connection: what has been read has arrived; while the body is read its
\* end is known; what is routed is whole if the client behaves; and what prints,
\* or has printed, is the body as it was sent.
ReadOk(c) ==
  /\ pc[c] # "absent" => message[c] \in Messages /\ arrived[c] <= Len(Wire(c))
  /\ got[c] <= arrived[c]
  /\ pc[c] = "body" => expected[c] = expected_len(c, Len(message[c].head))
  /\ pc[c] \in {"route", "driver_print", "printing"} /\ Behaves(c, eof[c]) =>
       got[c] = Len(Wire(c))
  /\ printed[c] \/ pc[c] = "printing" =>
       /\ pc[c] \in {"printing", "respond", "answered", "lost"}
       /\ parse_body(raw(c, got[c])) = message[c].body

ReadInv ==
  /\ expected \in [Conns -> Nat]
  /\ eof \in [Conns -> BOOLEAN]
  /\ \A c \in Conns : ReadOk(c)

\* ReadOk after a step, in terms of the messages, which never change.
LEMMA ReadAfter ==
  ASSUME UNCHANGED message, NEW c,
         pc'[c] # "absent" => message[c] \in Messages /\ arrived'[c] <= Len(Wire(c)),
         got'[c] <= arrived'[c],
         pc'[c] = "body" => expected'[c] = expected_len(c, Len(message[c].head)),
         pc'[c] \in {"route", "driver_print", "printing"} /\ Behaves(c, eof'[c]) =>
           got'[c] = Len(Wire(c)),
         printed'[c] \/ pc'[c] = "printing" =>
           /\ pc'[c] \in {"printing", "respond", "answered", "lost"}
           /\ parse_body(raw(c, got'[c])) = message[c].body
  PROVE  ReadOk(c)'
<1>1. /\ Wire(c)' = Wire(c)
      /\ expected_len(c, Len(message[c].head))' = expected_len(c, Len(message[c].head))
      /\ Behaves(c, eof[c])' <=> Behaves(c, eof'[c])
  BY DEF Wire, expected_len, content_length, Behaves
<1>2. raw(c, got[c])' = raw(c, got'[c])
  BY <1>1 DEF raw
<1>3. parse_body(raw(c, got[c]))' = parse_body(raw(c, got'[c]))
  BY <1>2 DEF parse_body, ends, first_end
<1>4. QED
  BY <1>1, <1>3 DEF ReadOk

\* A connection of which only the client's side changes, or nothing.
LEMMA ReadFrame ==
  ASSUME UNCHANGED message, NEW c, ReadOk(c),
         pc'[c] = pc[c], got'[c] = got[c], expected'[c] = expected[c],
         arrived'[c] = arrived[c], eof'[c] = eof[c], printed'[c] = printed[c]
  PROVE  ReadOk(c)'
<1>1. QED
  BY ReadAfter DEF ReadOk

\* A connection that goes on to a point that promises nothing.
LEMMA ReadLeaves ==
  ASSUME UNCHANGED message, NEW c, ReadOk(c),
         got'[c] = got[c], arrived'[c] = arrived[c], eof'[c] = eof[c],
         printed'[c] = printed[c], pc[c] # "absent",
         pc'[c] \in {"first", "header", "respond", "stream", "answered", "lost"},
         printed[c] => pc'[c] \in {"respond", "answered", "lost"}
  PROVE  ReadOk(c)'
<1>1. QED
  BY ReadAfter DEF ReadOk

LEMMA ClientRead ==
  ASSUME ConnInv, ReadInv, NEW c \in Conns, Client(c)
  PROVE  ReadInv'
<1>1. /\ UNCHANGED <<message, got, expected, pc, printed>>
      /\ pc[c] # "absent" /\ ~eof[c] /\ ReadOk(c)
  BY DEF Client, deliver, client_closes, ReadInv
<1>2. CASE deliver(c)
  <2>1. /\ arrived[c] < Len(Wire(c)) /\ UNCHANGED eof
        /\ arrived' = [arrived EXCEPT ![c] = @ + 1]
    BY <1>2 DEF deliver
  <2>2. arrived[c] \in Nat /\ got[c] \in Nat /\ Len(Wire(c)) \in Nat /\ arrived \in [Conns -> Nat]
    <3>1. Wire(c) \in Seq(STRING)
      BY <1>1, WireShape DEF ReadOk, Row
    <3>2. Len(Wire(c)) \in Nat
      BY <3>1, LenProperties
    <3>3. QED
      BY <3>2 DEF ConnInv, ConnType
  <2>3. arrived'[c] <= Len(Wire(c)) /\ got[c] <= arrived'[c]
    <3>1. arrived'[c] = arrived[c] + 1 /\ got[c] <= arrived[c]
      BY <1>1, <2>1, <2>2 DEF ReadOk
    <3>2. QED
      BY <2>1, <2>2, <3>1
  <2>4. ReadOk(c)'
    BY <1>1, <2>1, <2>3, ReadAfter DEF ReadOk
  <2>5. \A x \in Conns \ {c} : arrived'[x] = arrived[x]
    BY <2>1, <2>2
  <2>6. \A x \in Conns \ {c} : ReadOk(x)'
    BY <1>1, <2>1, <2>5, ReadFrame DEF ReadInv
  <2>7. QED
    BY <1>1, <2>1, <2>4, <2>6 DEF ReadInv
<1>3. CASE client_closes(c)
  <2>1. UNCHANGED arrived /\ eof' = [eof EXCEPT ![c] = TRUE]
    BY <1>3 DEF client_closes
  <2>2. eof'[c] /\ \A x \in Conns \ {c} : eof'[x] = eof[x]
    BY <2>1 DEF ReadInv
  <2>3. ReadOk(c)'
    BY <1>1, <2>1, <2>2, ReadAfter DEF ReadOk, Behaves
  <2>4. \A x \in Conns \ {c} : ReadOk(x)'
    BY <1>1, <2>1, <2>2, ReadFrame DEF ReadInv
  <2>5. eof' \in [Conns -> BOOLEAN]
    BY <2>1 DEF ReadInv
  <2>6. QED
    BY <1>1, <2>3, <2>4, <2>5 DEF ReadInv
<1>4. QED
  BY <1>2, <1>3 DEF Client

\* A read that goes on to route what it has read has all of it, if the client
\* behaves.
LEMMA EnoughIsAll ==
  ASSUME NEW c, message[c] \in Messages, NEW n \in Nat, n <= Len(Wire(c)),
         ~(n < expected_len(c, Len(message[c].head))), NEW closed, Behaves(c, closed)
  PROVE  n = Len(Wire(c))
<1> DEFINE h == message[c].head
           b == message[c].body
           x == message[c].extra
           w == Wire(c)
<1>1. Row(w, h, b, x)
  BY WireShape
<1>2. expected_len(c, Len(h)) = Len(h) + Len(b) /\ x = <<>>
  BY TrueLength DEF Behaves
<1>3. n <= Len(w) /\ ~(n < Len(h) + Len(b))
  BY <1>2
<1> HIDE DEF h, b, x, w
<1>4. Len(x) = 0
  BY <1>2
<1>5. Len(w) = Len(h) + Len(b) /\ Len(h) \in Nat /\ Len(b) \in Nat
  BY <1>1, <1>4 DEF Row
<1>6. n = Len(w)
  BY <1>3, <1>5
<1>7. QED
  BY <1>6 DEF w

LEMMA SomeRead ==
  ASSUME ConnInv, ReadInv, NEW c \in Conns, read_some(c)
  PROVE  ReadInv'
<1>1. /\ UNCHANGED <<message, arrived, eof, printed>> /\ pc[c] \in Reading
      /\ ReadOk(c)
  BY DEF read_some, socket, ReadInv
<1>2. PICK n \in (got[c] + 1)..arrived[c] : got' = [got EXCEPT ![c] = n] /\ read_more(c, n)
  BY DEF read_some
<1>3. /\ got \in [Conns -> Nat] /\ arrived \in [Conns -> Nat] /\ pc \in [Conns -> Points]
      /\ expected \in [Conns -> Nat] /\ eof \in [Conns -> BOOLEAN]
  BY DEF ConnInv, ConnType, ReadInv
<1>4. message[c] \in Messages /\ arrived[c] <= Len(Wire(c)) /\ ~printed[c]
  BY <1>1 DEF ReadOk, Reading
<1>5. Len(Wire(c)) \in Nat /\ Len(message[c].head) \in Nat
  <2>1. Wire(c) \in Seq(STRING) /\ Len(message[c].head) \in Nat
    BY <1>4, WireShape DEF Row
  <2>2. QED
    BY <2>1, LenProperties
<1>6. n \in Nat /\ n <= arrived[c] /\ n <= Len(Wire(c)) /\ n \in 0..Len(Wire(c))
  <2>1. got[c] \in Nat /\ arrived[c] \in Nat
    BY <1>3
  <2>2. QED
    BY <1>2, <1>4, <1>5, <2>1
<1>7. got'[c] = n
  BY <1>2, <1>3
<1> DEFINE len == expected_len(c, Len(message[c].head))
<1>8. len \in Nat
  BY <1>5, LengthIsNat
<1>9. \/ pc' = [pc EXCEPT ![c] = "header"] /\ UNCHANGED expected
      \/ pc' = [pc EXCEPT ![c] = "lost"] /\ UNCHANGED expected
      \/ /\ expected' = [expected EXCEPT ![c] = len]
         /\ pc' = [pc EXCEPT ![c] = IF n < len THEN "body" ELSE "route"]
  <2>1. CASE pc[c] = "body"
    <3>1. expected[c] = len
      BY <1>1, <2>1 DEF ReadOk
    <3>2. UNCHANGED expected /\ pc' = [pc EXCEPT ![c] = IF n < len THEN "body" ELSE "route"]
      BY <1>2, <2>1, <3>1 DEF read_more
    <3>3. expected = [expected EXCEPT ![c] = len]
      BY <1>3, <3>1
    <3>4. QED
      BY <3>2, <3>3
  <2>2. CASE pc[c] # "body" /\ ends(raw(c, n)) = {}
    BY <1>2, <2>2 DEF read_more
  <2>3. CASE pc[c] # "body" /\ ends(raw(c, n)) # {}
    <3>1. first_end(raw(c, n)) = Len(message[c].head)
      <4>1. ~(n < Len(message[c].head))
        BY <1>4, <1>6, <2>3, HeadEnds
      <4>2. n >= Len(message[c].head)
        BY <1>5, <1>6, <4>1
      <4>3. QED
        BY <1>4, <1>6, <4>2, HeadEnds
    <3>2. QED
      BY <1>2, <2>3, <3>1 DEF read_more
  <2>4. QED
    BY <2>1, <2>2, <2>3
<1> HIDE DEF len
<1>10. expected' \in [Conns -> Nat] /\ \A x \in Conns \ {c} : expected'[x] = expected[x]
  BY <1>3, <1>8, <1>9
<1>11. \A x \in Conns \ {c} : pc'[x] = pc[x] /\ got'[x] = got[x]
  BY <1>2, <1>3, <1>9
<1>12. ReadOk(c)'
  <2>1. \/ pc'[c] \in {"header", "lost"}
        \/ pc'[c] = "body" /\ expected'[c] = len
        \/ pc'[c] = "route" /\ ~(n < len)
    BY <1>3, <1>9
  <2>2. pc'[c] = "route" /\ Behaves(c, eof'[c]) => n = Len(Wire(c))
    BY <1>4, <1>6, <2>1, EnoughIsAll DEF len
  <2>3. QED
    BY <1>1, <1>4, <1>6, <1>7, <2>1, <2>2, ReadAfter DEF len
<1>13. \A x \in Conns \ {c} : ReadOk(x)'
  BY <1>1, <1>10, <1>11, ReadFrame DEF ReadInv
<1>14. QED
  BY <1>1, <1>3, <1>10, <1>12, <1>13 DEF ReadInv

LEMMA EndOfRead ==
  ASSUME ConnInv, ReadInv, NEW c \in Conns, read_eof(c) \/ read_timeout(c)
  PROVE  ReadInv'
<1>1. /\ UNCHANGED <<message, arrived, eof, got, expected, printed>>
      /\ ReadOk(c) /\ pc[c] \in Reading
  BY DEF read_eof, read_timeout, socket, ReadInv
<1>2. /\ \A x \in Conns \ {c} : pc'[x] = pc[x]
      /\ pc'[c] \in {"header", "lost"} \/ (pc'[c] = "route" /\ eof[c])
  BY DEF read_eof, read_timeout, ConnInv, ConnType
<1>3. message[c] \in Messages /\ arrived[c] <= Len(Wire(c)) /\ ~printed[c] /\ got[c] <= arrived[c]
  BY <1>1 DEF ReadOk, Reading
<1>4. ~(pc'[c] = "route" /\ Behaves(c, eof'[c]))
  BY <1>1, <1>2 DEF Behaves
<1>5. ReadOk(c)'
  BY <1>1, <1>2, <1>3, <1>4, ReadAfter
<1>6. \A x \in Conns \ {c} : ReadOk(x)'
  BY <1>1, <1>2, ReadFrame DEF ReadInv
<1>7. QED
  BY <1>1, <1>5, <1>6 DEF ReadInv

\* Steps after and before the reading that start no print.
LEMMA QuietRead ==
  ASSUME ConnInv, ReadInv, NEW c \in Conns,
         UNCHANGED <<message, arrived, eof, got, expected, printed>>,
         pc' = [pc EXCEPT ![c] = pc'[c]], pc[c] # "absent",
         \/ /\ pc'[c] \in {"first", "respond", "stream", "answered", "lost"}
            /\ pc[c] \in {"respond", "printing"} => pc'[c] \in {"respond", "answered", "lost"}
            /\ pc[c] \notin {"answered", "lost"}
         \/ pc[c] = "route" /\ pc'[c] = "driver_print"
  PROVE  ReadInv'
<1>1. ReadOk(c) /\ \A x \in Conns \ {c} : pc'[x] = pc[x]
  BY DEF ReadInv, ConnInv, ConnType
<1>2. ReadOk(c)'
  <2>1. CASE pc[c] = "route" /\ pc'[c] = "driver_print"
    BY <1>1, <2>1, ReadAfter DEF ReadOk
  <2>2. CASE pc'[c] \in {"first", "respond", "stream", "answered", "lost"}
    <3>1. printed[c] => pc'[c] \in {"respond", "answered", "lost"}
      BY <1>1, <2>2 DEF ReadOk
    <3>2. QED
      BY <1>1, <2>2, <3>1, ReadLeaves
  <2>3. QED
    BY <2>1, <2>2
<1>3. \A x \in Conns \ {c} : ReadOk(x)'
  BY <1>1, ReadFrame DEF ReadInv
<1>4. QED
  BY <1>2, <1>3 DEF ReadInv

LEMMA HandlerRead ==
  ASSUME ConnInv, ReadInv, NEW c \in Conns,
         \/ accept(c) \/ write_http_response(c) \/ stream_ends(c)
         \/ bad_request(c) \/ route_stream(c) \/ route_raw_http_request(c)
  PROVE  ReadInv'
<1>1. UNCHANGED <<message, arrived, eof, got, expected, printed>>
  BY DEF accept, write_http_response, stream_ends, bad_request, route_stream,
         route_raw_http_request, socket
<1>2. /\ pc' = [pc EXCEPT ![c] = pc'[c]]
      /\ \/ pc[c] = "backlog" /\ pc'[c] = "first"
         \/ pc[c] \in {"respond", "stream"} /\ pc'[c] \in {"answered", "lost"}
         \/ pc[c] = "route" /\ pc'[c] \in {"respond", "stream", "driver_print"}
  BY DEF accept, write_http_response, stream_ends, bad_request, route_stream,
         route_raw_http_request, Respond, ConnInv, ConnType
<1>3. QED
  BY <1>1, <1>2, QuietRead

\* The one step that takes a body for what was sent: an object that was read to
\* its end is the body.
LEMMA PrintRead ==
  ASSUME ConnInv, ReadInv, NEW c \in Conns, driver_print_response(c)
  PROVE  ReadInv'
<1>1. /\ UNCHANGED <<message, arrived, eof, got, expected, printed>>
      /\ pc[c] = "driver_print" /\ ReadOk(c)
  BY DEF driver_print_response, socket, ReadInv
<1>2. CASE pc' = [pc EXCEPT ![c] = "printing"] /\ from_json(parse_body(raw(c, got[c])))
  <2>1. pc'[c] = "printing" /\ \A x \in Conns \ {c} : pc'[x] = pc[x]
    BY <1>2 DEF ConnInv, ConnType
  <2>2. message[c] \in Messages /\ got[c] \in 0..Len(Wire(c))
    <3>1. message[c] \in Messages /\ arrived[c] <= Len(Wire(c)) /\ got[c] <= arrived[c]
      BY <1>1 DEF ReadOk
    <3>2. arrived[c] \in Nat /\ got[c] \in Nat
      BY DEF ConnInv, ConnType
    <3>3. Wire(c) \in Seq(STRING)
      BY <3>1, WireShape DEF Row
    <3>4. Len(Wire(c)) \in Nat
      BY <3>3, LenProperties
    <3>5. QED
      BY <3>1, <3>2, <3>4
  <2>3. parse_body(raw(c, got[c])) = message[c].body
    BY <1>2, <2>2, BodyOf
  <2>4. ReadOk(c)'
    BY <1>1, <2>1, <2>3, ReadAfter DEF ReadOk
  <2>5. \A x \in Conns \ {c} : ReadOk(x)'
    BY <1>1, <2>1, ReadFrame DEF ReadInv
  <2>6. QED
    BY <1>1, <2>4, <2>5 DEF ReadInv
<1>3. CASE pc' = [pc EXCEPT ![c] = "respond"]
  <2>1. pc' = [pc EXCEPT ![c] = pc'[c]] /\ pc'[c] = "respond"
    BY <1>3 DEF ConnInv, ConnType
  <2>2. QED
    BY <1>1, <2>1, QuietRead
<1>4. QED
  BY <1>2, <1>3 DEF driver_print_response, Respond

LEMMA PrintEndsRead ==
  ASSUME ConnInv, ReadInv, NEW c \in Conns, print_ends(c)
  PROVE  ReadInv'
<1>1. /\ UNCHANGED <<message, arrived, eof, got, expected>>
      /\ pc[c] = "printing" /\ ReadOk(c)
      /\ pc' = [pc EXCEPT ![c] = "respond"]
      /\ \E out \in BOOLEAN : printed' = [printed EXCEPT ![c] = out]
  BY DEF print_ends, socket, Respond, ReadInv
<1>2. /\ pc'[c] = "respond" /\ \A x \in Conns \ {c} : pc'[x] = pc[x]
      /\ \A x \in Conns \ {c} : printed'[x] = printed[x]
  BY <1>1 DEF ConnInv, ConnType
<1>3. ReadOk(c)'
  BY <1>1, <1>2, ReadAfter DEF ReadOk
<1>4. \A x \in Conns \ {c} : ReadOk(x)'
  BY <1>1, <1>2, ReadFrame DEF ReadInv
<1>5. QED
  BY <1>1, <1>3, <1>4 DEF ReadInv

LEMMA AcceptErrRead ==
  ASSUME ConnInv, ReadInv, accept_err
  PROVE  ReadInv'
<1>1. UNCHANGED <<message, arrived, eof, got, expected, printed>>
  BY DEF accept_err, socket
<1>2. ASSUME NEW x \in Conns PROVE ReadOk(x)'
  <2>1. ReadOk(x) /\ (pc'[x] = pc[x] \/ (pc[x] # "absent" /\ pc'[x] = "lost"))
    BY DEF ReadInv, accept_err
  <2>2. CASE pc'[x] = pc[x]
    BY <1>1, <2>1, <2>2, ReadFrame
  <2>3. CASE pc[x] # "absent" /\ pc'[x] = "lost"
    BY <1>1, <2>1, <2>3, ReadLeaves
  <2>4. QED
    BY <2>1, <2>2, <2>3
<1>3. QED
  BY <1>1, <1>2 DEF ReadInv

LEMMA InitRead == Init => ReadInv
<1> SUFFICES ASSUME Init, NEW c \in Conns PROVE ReadOk(c)
  BY DEF Init, ReadInv
<1>1. /\ arrived[c] = 0 /\ got[c] = 0 /\ ~printed[c]
      /\ pc[c] = IF message[c] = None THEN "absent" ELSE "backlog"
  BY DEF Init
<1>2. message[c] \in Messages \cup {None}
  BY ConnAssumption DEF Init
<1>3. pc[c] # "absent" => message[c] \in Messages /\ 0 <= Len(Wire(c))
  <2>1. SUFFICES ASSUME pc[c] # "absent" PROVE message[c] \in Messages /\ 0 <= Len(Wire(c))
    OBVIOUS
  <2>2. message[c] \in Messages
    BY <1>1, <1>2, <2>1
  <2>3. Wire(c) \in Seq(STRING)
    BY <2>2, WireShape DEF Row
  <2>4. Len(Wire(c)) \in Nat
    BY <2>3, LenProperties
  <2>5. QED
    BY <2>2, <2>4
<1>4. pc[c] \in {"absent", "backlog"}
  BY <1>1
<1>5. QED
  BY <1>1, <1>3, <1>4 DEF ReadOk

LEMMA NextRead == ConnInv /\ ReadInv /\ [Next]_vars => ReadInv'
<1> SUFFICES ASSUME ConnInv, ReadInv, [Next]_vars PROVE ReadInv'
  OBVIOUS
<1>1. CASE \E c \in Conns : Client(c) \/ Handler(c) \/ print_ends(c)
  BY <1>1, ClientRead, SomeRead, EndOfRead, HandlerRead, PrintRead, PrintEndsRead DEF Handler
<1>2. CASE accept_err
  BY <1>2, AcceptErrRead
<1>3. CASE UNCHANGED vars
  <2>1. UNCHANGED <<message, arrived, eof, got, expected, printed, pc>>
    BY <1>3 DEF vars, socket
  <2>2. \A x \in Conns : ReadOk(x)'
    BY <2>1, ReadFrame DEF ReadInv
  <2>3. QED
    BY <2>1, <2>2 DEF ReadInv
<1>4. QED
  BY <1>1, <1>2, <1>3 DEF Next

\* What a connection has read is a beginning of what arrived on it, and what it
\* does next follows from that.
THEOREM ReadCorrect == Spec => [](ConnInv /\ ReadInv)
<1>1. Init => ConnInv
  BY DEF Init, ConnInv, ConnType, RouteInv, Points
<1>2. QED
  BY <1>1, InitRead, NextConn, NextRead, PTL DEF Spec

\* PrintsWhatWasSent for any requests on any number of connections: no
\* segmentation, early close, wrong Content-Length or second request makes the
\* service print a part of a request (read_http_request, parse_body, from_json).
THEOREM PrintsCorrect == Spec => []PrintsWhatWasSent
<1>1. ConnInv /\ ReadInv => PrintsWhatWasSent
  BY DEF ConnInv, RouteInv, IsPrint, Method, Path, ReadInv, ReadOk, PrintsWhatWasSent
<1>2. QED
  BY <1>1, ReadCorrect, PTL

\* WholeBodyIsRead for any requests on any number of connections: a client that
\* announces the right length and waits has its whole body read before it is
\* looked at (read_http_request).
THEOREM BodiesCorrect == Spec => []WholeBodyIsRead
<1>1. ReadInv => WholeBodyIsRead
  BY DEF ReadInv, ReadOk, Behaves, WholeBodyIsRead
<1>2. QED
  BY <1>1, ReadCorrect, PTL
===============================================================================
