--------------------------- MODULE MCHttpParser ---------------------------
(***************************************************************************)
(* Streams for HttpStream, written as lists of messages: Text is how a     *)
(* message is sent and Events what a parser must report of it.  Neither    *)
(* looks at the parser.                                                    *)
(***************************************************************************)
EXTENDS HttpStream

LOCAL INSTANCE SequencesExt
LOCAL INSTANCE TLC

CRLF == CR \o LF
Concat(ss) == FoldLeft(LAMBDA a, b : a \o b, "", ss)
Join(ss) == FoldLeft(LAMBDA a, b : IF a = "" THEN b ELSE a \o ", " \o b, "", ss)
Flat(es) == FoldLeft(LAMBDA a, b : a \o b, <<>>, es)
Hex(n) == (IF n < 16 THEN "" ELSE CharAt("0123456789abcdef", n \div 16))
            \o CharAt("0123456789abcdef", n % 16)
Decimal(n) == IF n < 10 THEN CharAt(NUM, n) ELSE CharAt(NUM, n \div 10) \o CharAt(NUM, n % 10)

-----------------------------------------------------------------------------
(* Messages.  first: the method or the status; target: the URL or reason;  *)
(* connection: the tokens of the header and what each means; framing: how  *)
(* the body ends; body: its pieces; headers: the others; nl: the line end. *)

Message(type, first, target, minor, connection, framing, body, headers, nl) ==
  [type |-> type, first |-> first, target |-> target, minor |-> minor, connection |-> connection,
   framing |-> framing, body |-> body, headers |-> headers, nl |-> nl]

Headers(m) ==
  m.headers
    \o (IF m.connection = <<>> THEN <<>>
        ELSE <<<<"Connection", Join([i \in DOMAIN m.connection |-> m.connection[i][1]])>>>>)
    \o (CASE m.framing = "length" -> <<<<"Content-Length", Decimal(Len(Concat(m.body)))>>>>
          [] m.framing = "chunked" -> <<<<"Transfer-Encoding", "Chunked">>>>
          [] OTHER -> <<>>)

Text(m) ==
  (IF m.type = "RESPONSE" THEN "HTTP/1." \o Decimal(m.minor) \o SP \o Decimal(m.first \div 10)
                             \o Decimal(m.first % 10) \o SP \o m.target
   ELSE m.first \o SP \o m.target \o " HTTP/1." \o Decimal(m.minor))
  \o m.nl
  \o Concat([i \in DOMAIN Headers(m) |-> Headers(m)[i][1] \o ": " \o Headers(m)[i][2] \o m.nl])
  \o m.nl
  \o (IF m.framing = "chunked"
      THEN Concat([i \in DOMAIN m.body |-> Hex(Len(m.body[i])) \o CRLF \o m.body[i] \o CRLF])
           \o "0" \o CRLF \o CRLF
      ELSE Concat(m.body))

Meanings(m) == {m.connection[i][2] : i \in DOMAIN m.connection}

Upgrades(m) ==
  \/ m.type = "REQUEST" /\ m.first = "CONNECT"
  \/ /\ \E i \in DOMAIN m.headers : m.headers[i][1] = "Upgrade"
     /\ "upgrade" \in Meanings(m)
     /\ m.type = "RESPONSE" => m.first = 101

KeepsAlive(m) ==
  /\ IF m.minor = 1 THEN "close" \notin Meanings(m) ELSE "keep-alive" \in Meanings(m)
  /\ m.framing # "eof"

Events(m) ==
  <<<<"message_begin", "">>, <<IF m.type = "RESPONSE" THEN "status" ELSE "url", m.target>>>>
    \o Flat([i \in DOMAIN Headers(m) |->
               <<<<"header_field", Headers(m)[i][1]>>, <<"header_value", Headers(m)[i][2]>>>>])
    \o <<<<"headers_complete", "">>>>
    \o (IF m.framing = "chunked"
        THEN Flat([i \in DOMAIN m.body |-> <<<<"chunk_header", "">>, <<"body", m.body[i]>>,
                                              <<"chunk_complete", "">>>>])
             \o <<<<"chunk_header", "">>, <<"chunk_complete", "">>>>
        ELSE IF Concat(m.body) = "" THEN <<>> ELSE <<<<"body", Concat(m.body)>>>>)
    \o <<<<"message_complete", "">>>>

Stream(type, user, text, expected, errno, stop, urls) ==
  [type |-> type, user |-> user, text |-> text, expected |-> expected, errno |-> errno,
   stop |-> stop, urls |-> urls]

\* Two messages on one connection: the second is read if the first lets it.
Pair(type, m, n) ==
  LET more == KeepsAlive(m) /\ ~Upgrades(m)
      error == ~Upgrades(m) /\ ~KeepsAlive(m) /\ m.framing # "eof"
  IN Stream(type, 0, Text(m) \o (IF m.framing = "eof" THEN "" ELSE Text(n)),
            Events(m) \o (IF more THEN Events(n) ELSE <<>>),
            IF error THEN "CLOSED_CONNECTION" ELSE "OK",
            Upgrades(m) \/ (more /\ Upgrades(n)), {})

Single(type, m) ==
  Stream(type, 0, Text(m), Events(m), "OK", Upgrades(m), {})

Refused(type, text, errno) == Stream(type, 0, text, <<>>, errno, FALSE, {})

-----------------------------------------------------------------------------
(* The streams.                                                            *)

KA == <<"Keep-Alive", "keep-alive">>
CL == <<"close", "close">>
UP == <<"Upgrade", "upgrade">>
OT == <<"clothes", "">>

Get == Message("REQUEST", "GET", "/", 1, <<>>, "none", <<>>, <<>>, CRLF)

Requests ==
  {Message("REQUEST", "POST", "/p", minor, conn, f[1], f[2], <<<<"Contact", "me">>>>, CRLF) :
     minor \in {0, 1},
     conn \in {<<>>, <<KA>>, <<CL>>, <<OT, CL>>, <<KA, OT, UP>>},
     f \in {<<"none", <<>>>>, <<"length", <<"body">>>>,
            <<"chunked", <<"ab", "seventeen letters">>>>}}
  \cup {Message("REQUEST", "GET", "/ws", 1, <<KA, UP>>, f[1], f[2],
                <<<<"Upgrade", "websocket">>, <<"Upg", "x">>>>, CRLF) :
          f \in {<<"none", <<>>>>, <<"length", <<"b">>>>}}

Responses ==
  {Message("RESPONSE", status, "OK", minor, conn, f[1], f[2], <<>>, nl) :
     status \in {200}, minor \in {1}, conn \in {<<>>, <<CL>>}, nl \in {CRLF, LF},
     f \in {<<"length", <<"ab">>>>, <<"chunked", <<"abc">>>>, <<"eof", <<"all", "of it">>>>}}
  \cup {Message("RESPONSE", 204, "", 1, <<>>, "none", <<>>, <<>>, CRLF),
        Message("RESPONSE", 101, "Go", 1, <<UP>>, "none", <<>>, <<<<"Upgrade", "h2c">>>>, CRLF)}

Methods ==
  {FirstMethod[c] : c \in DOMAIN FirstMethod} \cup {t[4] : t \in OtherMethod}

\* A URL and the fields it is made of.
Url(text, connect, ret, fields, port) ==
  [text |-> text, connect |-> connect, ret |-> ret, fields |-> fields, port |-> port]

Urls ==
  {Url("/a/b?q=1#top", FALSE, 0, "PATH" :> "/a/b" @@ "QUERY" :> "q=1" @@ "FRAGMENT" :> "top", 0),
   Url("http://u:p@h.c:80/x?y?z", FALSE, 0,
       "SCHEMA" :> "http" @@ "USERINFO" :> "u:p" @@ "HOST" :> "h.c" @@ "PORT" :> "80"
         @@ "PATH" :> "/x" @@ "QUERY" :> "y?z", 80),
   Url("http://[a::1%z]/", FALSE, 0,
       "SCHEMA" :> "http" @@ "HOST" :> "a::1%z" @@ "PATH" :> "/", 0),
   Url("ws://h?q", FALSE, 0, "SCHEMA" :> "ws" @@ "HOST" :> "h" @@ "QUERY" :> "q", 0),
   Url("*", FALSE, 0, "PATH" :> "*", 0),
   Url("http://h:65536/", FALSE, 1, <<>>, 0),
   Url("http://a@b@c/", FALSE, 1, <<>>, 0),
   Url("http:///x", FALSE, 1, <<>>, 0),
   Url("http://h:/", FALSE, 1, <<>>, 0),
   Url("h:443", TRUE, 0, "HOST" :> "h" @@ "PORT" :> "443", 443),
   Url("h", TRUE, 1, <<>>, 0)}

WithUrl(u) ==
  LET m == Message("REQUEST", IF u.connect THEN "CONNECT" ELSE "GET", u.text, 1, <<>>, "none", <<>>, <<>>, CRLF)
  IN [Single("REQUEST", m) EXCEPT !.urls = {u}]

\* The user's on_headers_complete says that the message has no body.
Skipped ==
  {Stream("RESPONSE", user, Text(Message("RESPONSE", 200, "OK", 1, <<>>, "none", <<>>, <<h>>, CRLF)),
          <<<<"message_begin", "">>, <<"status", "OK">>, <<"header_field", h[1]>>,
            <<"header_value", h[2]>>, <<"headers_complete", "">>, <<"message_complete", "">>>>,
          "OK", user = 2, {}) : user \in {1, 2}, h \in {<<"Content-Length", "5">>}}

\* Headers that are folded, empty or nearly the ones the parser looks for.
Odd ==
  LET get(headers, field, value) ==
        Stream("REQUEST", 0, "GET / HTTP/1.1\r\n" \o headers \o CRLF,
               <<<<"message_begin", "">>, <<"url", "/">>, <<"header_field", field>>,
                 <<"header_value", value>>, <<"headers_complete", "">>,
                 <<"message_complete", "">>>>, "OK", FALSE, {})
  IN {get("X: a\r\n b\r\n", "X", "a b"), get("Upgrades:\r\n", "Upgrades", ""),
      get("Y: \n \n z\n", "Y", "z"), get("Proxy-Connections: close\n", "Proxy-Connections", "close"),
      get("Content-Length: 0 \r\n \r\n", "Content-Length", "0  "),
      Stream("REQUEST", 0, "SOURCE /m ICE/1.0\r\n\r\n",
             Events(Message("REQUEST", "SOURCE", "/m", 0, <<>>, "none", <<>>, <<>>, CRLF)), "OK", FALSE, {}),
      Stream("REQUEST", 0, "GET /old\r\n\r\n",
             Events(Message("REQUEST", "GET", "/old", 0, <<>>, "none", <<>>, <<>>, CRLF)), "OK", FALSE, {}),
      Stream("REQUEST", 0, "PUT /t HTTP/1.1\r\nTransfer-Encoding: chunked\r\n\r\n"
                             \o "A;k=v\r\nten of the\r\n0\r\nSum: 9\r\n\r\n",
             <<<<"message_begin", "">>, <<"url", "/t">>, <<"header_field", "Transfer-Encoding">>,
               <<"header_value", "chunked">>, <<"headers_complete", "">>, <<"chunk_header", "">>,
               <<"body", "ten of the">>, <<"chunk_complete", "">>, <<"chunk_header", "">>,
               <<"header_field", "Sum">>, <<"header_value", "9">>, <<"chunk_complete", "">>,
               <<"message_complete", "">>>>, "OK", FALSE, {})}

\* What is not HTTP, and the error that says so.
Malformed ==
  LET post == "POST / HTTP/1.1\r\n"
      chunks == post \o "Transfer-Encoding: chunked\r\n\r\n"
      thirty == "abcdefghij0123456789klmnopqrst"
  IN {Refused("REQUEST", "GTE / HTTP/1.1\r\n", "INVALID_METHOD"),
      Refused("REQUEST", "GET / HTPP/1.1\r\n", "STRICT"),
      Refused("REQUEST", "GET / HTTP/x.1\r\n", "INVALID_VERSION"),
      Refused("REQUEST", "GET / ICE/1.0\r\n", "INVALID_CONSTANT"),
      Refused("REQUEST", "GET http://a@@b/ HTTP/1.1\r\n", "INVALID_URL"),
      Refused("REQUEST", "GET / HTTP/1.1\r\nHost: h\r\n", "INVALID_EOF_STATE"),
      Refused("REQUEST", post \o "a b: c\r\n\r\n", "INVALID_HEADER_TOKEN"),
      Refused("REQUEST", post \o "a: b\f\r\n\r\n", "INVALID_HEADER_TOKEN"),
      Refused("REQUEST", post \o "a: b\rc", "LF_EXPECTED"),
      Refused("REQUEST", post \o "Content-Length: 1\r\nContent-Length: 1\r\n\r\na",
              "UNEXPECTED_CONTENT_LENGTH"),
      Refused("REQUEST", post \o "Transfer-Encoding: chunked\r\nContent-Length: 1\r\n\r\na",
              "UNEXPECTED_CONTENT_LENGTH"),
      Refused("REQUEST", post \o "Content-Length: 990\r\n\r\n", "INVALID_CONTENT_LENGTH"),
      Refused("REQUEST", post \o "Content-Length: 1 2\r\n\r\n", "INVALID_CONTENT_LENGTH"),
      Refused("REQUEST", post \o "Content-Length: 1\r\n 2\r\n\r\n", "INVALID_CONTENT_LENGTH"),
      Refused("REQUEST", post \o "Content-Length: \r\n\r\n", "INVALID_CONTENT_LENGTH"),
      Refused("REQUEST", chunks \o "3df\r\nab", "INVALID_EOF_STATE"),
      Refused("REQUEST", chunks \o "3e0\r\n", "INVALID_CONTENT_LENGTH"),
      Refused("REQUEST", chunks \o "A;k=v\r\nten of them\r\n0\r\n\r\n", "STRICT"),
      Refused("REQUEST", chunks \o "x\r\n", "INVALID_CHUNK_SIZE"),
      Refused("REQUEST", post \o "X: " \o thirty \o thirty \o thirty \o thirty \o "\r\n\r\n",
              "HEADER_OVERFLOW"),
      Refused("REQUEST", post \o thirty \o thirty \o thirty \o thirty \o ": x\r\n\r\n",
              "HEADER_OVERFLOW"),
      Refused("RESPONSE", "HTTP/1.1 2000 OK\r\n", "INVALID_STATUS"),
      Refused("BOTH", "HOLD / HTTP/1.1\r\n", "INVALID_CONSTANT")}

MCStreams ==
  {Pair("REQUEST", m, Get) : m \in Requests}
  \cup {Pair("RESPONSE", m, Message("RESPONSE", 200, "", 1, <<>>, "length", <<"z">>, <<>>, CRLF)) :
          m \in Responses}
  \cup {Single("BOTH", Message("REQUEST", first, IF first = "CONNECT" THEN "h:1" ELSE "/",
                               1, <<>>, "none", <<>>, <<>>, LF)) : first \in Methods}
  \cup {WithUrl(u) : u \in Urls}
  \cup Skipped \cup Odd \cup Malformed
=============================================================================
