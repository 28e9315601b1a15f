---------------------------- MODULE MCHttpConnection ----------------------------
(* Requests for TLC.                                                          *)
EXTENDS HttpConnection

Object == <<"{", "f", "}">>
Request(method, path, body, extra, length) ==
  [method |-> method, target |-> [slash |-> "/", path |-> path, query |-> ""], head |-> <<"line", "hdr", "end">>,
   body |-> body, extra |-> extra, length |-> length]

\* Every method on every path, with a body.
AllRoutes ==
  {Request(m, p, Object, <<>>, 3) :
     m \in {"GET", "POST", "OPTIONS", "PUT"},
     p \in GetPaths \cup PrintPaths \cup BatchPaths
             \cup {"/v1/mobile/setup/warehouse", MONITOR_STREAM_PATH, "/v1/mobile/profile", "/"}}

\* Print requests with right, wrong, missing and overflowing lengths, with no
\* object for a body, and with a second request behind them.
PrintRequests ==
  {Request("POST", "/v1/driver/print", b, x, l) :
     b \in {Object, <<>>, <<"f">>}, x \in {<<>>, <<"line", "hdr", "end", "{", "f", "}">>},
     l \in {None} \cup 0..4 \cup {Word - 1}}

\* A target without its slash and with a query.
BareTarget ==
  [Request("POST", "/v1/driver/print", Object, <<>>, 3) EXCEPT !.target.slash = "", !.target.query = "?x"]

SegmentMessages == AllRoutes \cup PrintRequests \cup {BareTarget}

PairMessages ==
  {Request("POST", "/v1/driver/print", Object, <<>>, 3),
   Request("GET", "/healthz", <<>>, <<>>, None),
   Request("GET", MONITOR_STREAM_PATH, <<>>, <<>>, None)}

AllMessages == SegmentMessages \cup PairMessages

\* Any request alone, and some of them on all connections at a time.
MCTraffic ==
  LET first == CHOOSE c \in Conns : TRUE
  IN [Conns -> PairMessages]
       \cup {[c \in Conns |-> IF c = first THEN m ELSE None] : m \in SegmentMessages}
===============================================================================
