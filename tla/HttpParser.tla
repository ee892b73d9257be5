---------------------------- MODULE HttpParser ----------------------------
(***************************************************************************)
(* thirdparty/http/http_parser.c, the parser the HTTP server runs over     *)
(* every piece of a request that a recv returns.  http_parser_execute is   *)
(* called once per piece; between the calls all it knows is the struct     *)
(* http_parser, so it must come out the same however the kernel cuts the   *)
(* stream.  The module keeps the character loop: its states, what each of  *)
(* them accepts, the marks, the callbacks and the counting of the header.  *)
(* The build is the strict one (HTTP_PARSER_STRICT = 1, not lenient).      *)
(*                                                                         *)
(* A parser x is a record: the fields of struct http_parser, what the user *)
(* returns from on_headers_complete (x.user), the callbacks made so far    *)
(* (x.events; pieces of the same datum are joined, as a caller that        *)
(* accumulates them would), and the locals of one call: the mark that is   *)
(* set and the text from it on (x.mark, x.piece), how far the inner loop   *)
(* of a header name or value has walked (x.walked, -1 outside it; x.run    *)
(* in its fast loop), and whether the call returned early (x.stop).        *)
(* A character is a string of length one.                                  *)
(***************************************************************************)
EXTENDS Integers, Sequences

CONSTANTS MaxHeaderSize,  \* max_header_size
          ULLONG_MAX      \* the largest content_length: also "none given"

ASSUME ParserAssumption ==
  /\ MaxHeaderSize \in Nat \ {0}
  /\ ULLONG_MAX \in Nat /\ ULLONG_MAX > 16

-----------------------------------------------------------------------------
(* Characters.                                                             *)

CR  == "\r"
LF  == "\n"
SP  == " "
TAB == "\t"

\* s[i] in C: "" stands for the NUL at the end.
CharAt(s, i) == IF i < Len(s) THEN SubSeq(s, i + 1, i + 1) ELSE ""
Chars(s) == {CharAt(s, i) : i \in 0..(Len(s) - 1)}

\* The place of c in s, and -1 when it is not there.
Index(s, c) ==
  IF c \in Chars(s) THEN CHOOSE i \in 0..(Len(s) - 1) : CharAt(s, i) = c ELSE -1

UPPER   == "ABCDEFGHIJKLMNOPQRSTUVWXYZ"
ALPHA   == "abcdefghijklmnopqrstuvwxyz"
NUM     == "0123456789"
MARKS   == "-_.!~*'()"

\* Characters a string of TLA+ has no place for; a form feed stands for every control
\* character but CR, LF and the tab.
GRAVE == "GRAVE"
DEL   == "DEL"
BEL   == "\f"

\* LOWER(c) is c | 0x20: right for letters, and it turns a tab into ")".
LOWER(c) ==
  IF c \in Chars(UPPER) THEN CharAt(ALPHA, Index(UPPER, c))
  ELSE IF c \in Chars("\t[\\]^") THEN CharAt("){|}~", Index("\t[\\]^", c))
  ELSE CASE c = "@" -> GRAVE [] c = "_" -> DEL [] OTHER -> c

IS_NUM(c) == c \in Chars(NUM)
IS_ALPHA(c) == c \in Chars(UPPER) \cup Chars(ALPHA)
IS_ALPHANUM(c) == IS_NUM(c) \/ IS_ALPHA(c)
IS_HEX(c) == IS_NUM(c) \/ c \in Chars("abcdefABCDEF")
IS_USERINFO_CHAR(c) == IS_ALPHANUM(c) \/ c \in Chars(MARKS) \cup Chars("%;:&=+$,")
IS_HOST_CHAR(c) == IS_ALPHANUM(c) \/ c \in {".", "-"}
IS_URL_CHAR(c) ==
  IS_ALPHANUM(c) \/ c \in Chars(MARKS) \cup Chars("\"$%&+,/:;<=>@[\\]^{|}") \cup {GRAVE}

IS_HEADER_CHAR(c) == c \notin {BEL, DEL}

unhex(c) == Index("0123456789abcdef", IF IS_ALPHA(c) THEN LOWER(c) ELSE c)

\* The lower-case character of a token, and "" for any other character.
TOKEN(c) ==
  IF IS_ALPHANUM(c) THEN IF IS_ALPHA(c) THEN LOWER(c) ELSE c
  ELSE IF c \in Chars("!#$%&'*+-.^_|~") \cup {GRAVE} THEN c ELSE ""

-----------------------------------------------------------------------------
(* Names.                                                                  *)

PROXY_CONNECTION  == "proxy-connection"
CONNECTION        == "connection"
CONTENT_LENGTH    == "content-length"
TRANSFER_ENCODING == "transfer-encoding"
UPGRADE           == "upgrade"
CHUNKED           == "chunked"
KEEP_ALIVE        == "keep-alive"
CLOSE             == "close"

\* The method a first letter is taken for until a letter says otherwise.
FirstMethod ==
  [A |-> "ACL", B |-> "BIND", C |-> "CONNECT", D |-> "DELETE", G |-> "GET",
   H |-> "HEAD", L |-> "LOCK", M |-> "MKCOL", N |-> "NOTIFY", O |-> "OPTIONS",
   P |-> "POST", R |-> "REPORT", S |-> "SUBSCRIBE", T |-> "TRACE",
   U |-> "UNLOCK"]

\* The method being matched, the place and the letter that does not match it,
\* and the method it turns out to be.
OtherMethod ==
  {<<"POST", 1, "U", "PUT">>, <<"POST", 1, "A", "PATCH">>,
   <<"POST", 1, "R", "PROPFIND">>, <<"PUT", 2, "R", "PURGE">>,
   <<"CONNECT", 1, "H", "CHECKOUT">>, <<"CONNECT", 2, "P", "COPY">>,
   <<"MKCOL", 1, "O", "MOVE">>, <<"MKCOL", 1, "E", "MERGE">>,
   <<"MKCOL", 1, "-", "M-SEARCH">>, <<"MKCOL", 2, "A", "MKACTIVITY">>,
   <<"MKCOL", 3, "A", "MKCALENDAR">>, <<"SUBSCRIBE", 1, "E", "SEARCH">>,
   <<"SUBSCRIBE", 1, "O", "SOURCE">>, <<"REPORT", 2, "B", "REBIND">>,
   <<"PROPFIND", 4, "P", "PROPPATCH">>, <<"LOCK", 1, "I", "LINK">>,
   <<"UNLOCK", 2, "S", "UNSUBSCRIBE">>, <<"UNLOCK", 2, "B", "UNBIND">>,
   <<"UNLOCK", 3, "I", "UNLINK">>}

DataKinds == {"url", "status", "header_field", "header_value", "body"}

UrlStates ==
  {"s_req_schema", "s_req_schema_slash", "s_req_schema_slash_slash",
   "s_req_server_start", "s_req_server", "s_req_server_with_at", "s_req_path",
   "s_req_query_string_start", "s_req_query_string", "s_req_fragment_start",
   "s_req_fragment"}

\* The states after s_headers_done in enum state: not counted as header.
BodyStates ==
  {"s_chunk_data", "s_chunk_data_almost_done", "s_chunk_data_done",
   "s_body_identity", "s_body_identity_eof", "s_message_done"}
PARSING_HEADER(s) == s \notin BodyStates

\* States that accept one character: it, the next state, the error otherwise.
ResponseLiteral ==
  [s_res_H |-> <<"T", "s_res_HT", "STRICT">>,
   s_res_HT |-> <<"T", "s_res_HTT", "STRICT">>,
   s_res_HTT |-> <<"P", "s_res_HTTP", "STRICT">>,
   s_res_HTTP |-> <<"/", "s_res_http_major", "STRICT">>,
   s_res_http_dot |-> <<".", "s_res_http_minor", "INVALID_VERSION">>,
   s_res_http_end |-> <<SP, "s_res_first_status_code", "INVALID_VERSION">>,
   s_res_line_almost_done |-> <<LF, "s_header_field_start", "STRICT">>]

RequestLiteral ==
  [s_req_http_H |-> <<"T", "s_req_http_HT", "STRICT">>,
   s_req_http_HT |-> <<"T", "s_req_http_HTT", "STRICT">>,
   s_req_http_HTT |-> <<"P", "s_req_http_HTTP", "STRICT">>,
   s_req_http_I |-> <<"C", "s_req_http_IC", "STRICT">>,
   s_req_http_IC |-> <<"E", "s_req_http_HTTP", "STRICT">>,
   s_req_http_HTTP |-> <<"/", "s_req_http_major", "STRICT">>,
   s_req_http_dot |-> <<".", "s_req_http_minor", "INVALID_VERSION">>,
   s_req_line_almost_done |-> <<LF, "s_header_field_start", "LF_EXPECTED">>]

HeaderLiteral ==
  [s_header_almost_done |-> <<LF, "s_header_value_lws", "LF_EXPECTED">>,
   s_header_value_discard_ws_almost_done |->
     <<LF, "s_header_value_discard_lws", "STRICT">>]

\* States that accept one digit: the field it goes to and the next state.
Digit ==
  [s_res_http_major |-> <<"http_major", "s_res_http_dot">>,
   s_res_http_minor |-> <<"http_minor", "s_res_http_end">>,
   s_req_http_major |-> <<"http_major", "s_req_http_dot">>,
   s_req_http_minor |-> <<"http_minor", "s_req_http_end">>]

-----------------------------------------------------------------------------
(* The macros: errors, state changes, callbacks, marks, header size.       *)

SET_ERRNO(x, e) == [x EXCEPT !.errno = e]
UPDATE_STATE(x, s) == [x EXCEPT !.state = s]

\* A failed assert() of the code.
Asserting(x, cond, y) == IF cond THEN y ELSE SET_ERRNO(x, "assert")

\* A callback.  Callbacks return 0; only on_headers_complete may not.
Emit(x, kind, text) ==
  LET n == Len(x.events)
  IN IF kind \in DataKinds /\ n > 0 /\ x.events[n][1] = kind
     THEN [x EXCEPT !.events[n][2] = @ \o text]
     ELSE [x EXCEPT !.events = Append(@, <<kind, text>>)]

CALLBACK_NOTIFY(x, kind) == Emit(x, kind, "")

CALLBACK_DATA(x, kind) ==
  IF x.mark = kind /\ kind # ""
  THEN [Emit(x, kind, x.piece) EXCEPT !.mark = "", !.piece = ""] ELSE x

\* At most one mark is set at a time (asserted when the call ends).
MARK(x, kind) ==
  IF x.mark = kind THEN x
  ELSE Asserting(x, x.mark = "", [x EXCEPT !.mark = kind])

COUNT_HEADER_SIZE(x, n) ==
  IF x.nread + n > MaxHeaderSize
  THEN SET_ERRNO([x EXCEPT !.nread = @ + n], "HEADER_OVERFLOW")
  ELSE [x EXCEPT !.nread = @ + n]

http_message_needs_eof(x) ==
  /\ x.type # "REQUEST"
  /\ ~(x.status_code \div 100 = 1 \/ x.status_code \in {204, 304})
  /\ "SKIPBODY" \notin x.flags
  /\ "CHUNKED" \notin x.flags
  /\ x.content_length = ULLONG_MAX

http_should_keep_alive(x) ==
  /\ IF x.http_major > 0 /\ x.http_minor > 0
     THEN "CONNECTION_CLOSE" \notin x.flags
     ELSE "CONNECTION_KEEP_ALIVE" \in x.flags
  /\ ~http_message_needs_eof(x)

NEW_MESSAGE(x) ==
  IF ~http_should_keep_alive(x) THEN "s_dead"
  ELSE IF x.type = "REQUEST" THEN "s_start_req" ELSE "s_start_res"

-----------------------------------------------------------------------------
(* The first line of a message.                                            *)

\* Mutant: the flags of the message before are kept.
Fresh_keeps_flags(x) == [x EXCEPT !.content_length = ULLONG_MAX]

\* A new message forgets the flags and the length of the one before.
Fresh(x) == [x EXCEPT !.flags = {}, !.content_length = ULLONG_MAX]

start_res(x, c) ==
  IF c \in {CR, LF} THEN x
  ELSE IF c = "H"
  THEN CALLBACK_NOTIFY(UPDATE_STATE(Fresh(x), "s_res_H"), "message_begin")
  ELSE SET_ERRNO(Fresh(x), "INVALID_CONSTANT")

start_req(x, c) ==
  IF c \in {CR, LF} THEN x
  ELSE IF c \notin DOMAIN FirstMethod
  THEN SET_ERRNO(Fresh(x), "INVALID_METHOD")
  ELSE CALLBACK_NOTIFY(
         [UPDATE_STATE(Fresh(x), "s_req_method")
            EXCEPT !.method = FirstMethod[c], !.index = 1], "message_begin")

start_req_or_res(x, c) ==
  IF c \in {CR, LF} THEN x
  ELSE IF c = "H"
  THEN CALLBACK_NOTIFY(UPDATE_STATE(Fresh(x), "s_res_or_resp_H"), "message_begin")
  ELSE start_req([UPDATE_STATE(Fresh(x), "s_start_req") EXCEPT !.type = "REQUEST"], c)

res_or_resp_H(x, c) ==
  CASE c = "T" -> [UPDATE_STATE(x, "s_res_HT") EXCEPT !.type = "RESPONSE"]
    [] c = "E" -> [UPDATE_STATE(x, "s_req_method")
                     EXCEPT !.type = "REQUEST", !.method = "HEAD", !.index = 2]
    [] OTHER   -> SET_ERRNO(x, "INVALID_CONSTANT")

res_status(x, c) ==
  CASE c = CR -> CALLBACK_DATA(UPDATE_STATE(x, "s_res_line_almost_done"), "status")
    [] c = LF -> CALLBACK_DATA(UPDATE_STATE(x, "s_header_field_start"), "status")
    [] OTHER  -> x

res_status_start(x, c) ==
  LET y == [UPDATE_STATE(MARK(x, "status"), "s_res_status") EXCEPT !.index = 0]
  IN IF c \in {CR, LF} THEN res_status(y, c) ELSE y

res_first_status_code(x, c) ==
  IF IS_NUM(c)
  THEN [UPDATE_STATE(x, "s_res_status_code") EXCEPT !.status_code = unhex(c)]
  ELSE IF c = SP THEN x ELSE SET_ERRNO(x, "INVALID_STATUS")

res_status_code(x, c) ==
  LET code == 10 * x.status_code + unhex(c)
  IN CASE IS_NUM(c) /\ code <= 999 -> [x EXCEPT !.status_code = code]
       [] c = SP -> UPDATE_STATE(x, "s_res_status_start")
       [] c \in {CR, LF} -> res_status_start(UPDATE_STATE(x, "s_res_status_start"), c)
       [] OTHER -> SET_ERRNO(x, "INVALID_STATUS")

\* A letter that does not match may still turn one method into another.
req_method(x, c) ==
  LET matcher == CharAt(x.method, x.index)
      others == {t \in OtherMethod : t[1] = x.method /\ t[2] = x.index /\ t[3] = c}
      y == [x EXCEPT !.index = @ + 1]
  IN CASE c = SP /\ matcher = "" -> UPDATE_STATE(y, "s_req_spaces_before_url")
       [] c = matcher -> y
       [] \E t \in others : TRUE -> [y EXCEPT !.method = (CHOOSE t \in others : TRUE)[4]]
       [] OTHER -> SET_ERRNO(x, "INVALID_METHOD")

parse_url_char(s, c) ==
  CASE c \in {SP, CR, LF, TAB} -> "s_dead"
    [] s = "s_req_spaces_before_url" /\ c \in {"/", "*"} -> "s_req_path"
    [] s \in {"s_req_spaces_before_url", "s_req_schema"} /\ IS_ALPHA(c) -> "s_req_schema"
    [] s = "s_req_schema" /\ c = ":" -> "s_req_schema_slash"
    [] s = "s_req_schema_slash" /\ c = "/" -> "s_req_schema_slash_slash"
    [] s = "s_req_schema_slash_slash" /\ c = "/" -> "s_req_server_start"
    [] s \in {"s_req_server_start", "s_req_server", "s_req_server_with_at"} ->
         CASE c = "@" /\ s = "s_req_server_with_at" -> "s_dead"
           [] c = "/" -> "s_req_path"
           [] c = "?" -> "s_req_query_string_start"
           [] c = "@" -> "s_req_server_with_at"
           [] IS_USERINFO_CHAR(c) \/ c \in {"[", "]"} -> "s_req_server"
           [] OTHER -> "s_dead"
    [] s = "s_req_path" /\ IS_URL_CHAR(c) -> s
    [] s = "s_req_path" /\ c = "?" -> "s_req_query_string_start"
    [] s \in {"s_req_query_string_start", "s_req_query_string"}
         /\ (IS_URL_CHAR(c) \/ c = "?") -> "s_req_query_string"
    [] s \in {"s_req_path", "s_req_query_string_start", "s_req_query_string"}
         /\ c = "#" -> "s_req_fragment_start"
    [] s \in {"s_req_fragment_start", "s_req_fragment"}
         /\ (IS_URL_CHAR(c) \/ c = "?") -> "s_req_fragment"
    [] s \in {"s_req_fragment_start", "s_req_fragment"} /\ c = "#" -> s
    [] OTHER -> "s_dead"

UrlChar(x, c) ==
  LET s == parse_url_char(x.state, c)
  IN IF s = "s_dead" THEN SET_ERRNO(x, "INVALID_URL") ELSE UPDATE_STATE(x, s)

req_spaces_before_url(x, c) ==
  IF c = SP THEN x
  ELSE LET y == MARK(x, "url")
       IN UrlChar(IF x.method = "CONNECT"
                  THEN UPDATE_STATE(y, "s_req_server_start") ELSE y, c)

\* A URL ends at a space; at the end of the line it was an HTTP/0.9 request.
req_url(x, c) ==
  LET whole == x.state \notin {"s_req_schema", "s_req_schema_slash",
                               "s_req_schema_slash_slash", "s_req_server_start"}
      old == [x EXCEPT !.http_major = 0, !.http_minor = 9]
  IN CASE whole /\ c = SP -> CALLBACK_DATA(UPDATE_STATE(x, "s_req_http_start"), "url")
       [] whole /\ c = CR -> CALLBACK_DATA(UPDATE_STATE(old, "s_req_line_almost_done"), "url")
       [] whole /\ c = LF -> CALLBACK_DATA(UPDATE_STATE(old, "s_header_field_start"), "url")
       [] OTHER -> UrlChar(x, c)

req_http_start(x, c) ==
  CASE c = SP -> x
    [] c = "H" -> UPDATE_STATE(x, "s_req_http_H")
    [] c = "I" /\ x.method = "SOURCE" -> UPDATE_STATE(x, "s_req_http_I")
    [] OTHER -> SET_ERRNO(x, "INVALID_CONSTANT")

req_http_end(x, c) ==
  CASE c = CR -> UPDATE_STATE(x, "s_req_line_almost_done")
    [] c = LF -> UPDATE_STATE(x, "s_header_field_start")
    [] OTHER -> SET_ERRNO(x, "INVALID_VERSION")

-----------------------------------------------------------------------------
(* The end of the headers and of the message.  These states re-examine the *)
(* character that led to them (REEXECUTE), so each calls the next one.     *)

message_complete(x) == CALLBACK_NOTIFY(UPDATE_STATE(x, NEW_MESSAGE(x)), "message_complete")

\* After an upgrade the call returns: the rest is another protocol.
message_done(x) ==
  LET y == message_complete(x) IN [y EXCEPT !.stop = x.upgrade]

headers_done(x) ==
  LET y == [x EXCEPT !.nread = 0]
      hasBody == "CHUNKED" \in x.flags \/ x.content_length \notin {0, ULLONG_MAX}
  IN CASE x.upgrade /\ (x.method = "CONNECT" \/ "SKIPBODY" \in x.flags \/ ~hasBody) ->
            [message_complete(y) EXCEPT !.stop = TRUE]
       [] "SKIPBODY" \in x.flags -> message_complete(y)
       [] "CHUNKED" \in x.flags -> UPDATE_STATE(y, "s_chunk_size_start")
       [] x.content_length = 0 -> message_complete(y)
       [] x.content_length # ULLONG_MAX -> UPDATE_STATE(y, "s_body_identity")
       [] ~http_message_needs_eof(x) -> message_complete(y)
       [] OTHER -> UPDATE_STATE(y, "s_body_identity_eof")

headers_complete(x) ==
  LET y == CALLBACK_NOTIFY(
             [x EXCEPT !.state = "s_headers_done",
                       !.upgrade = IF {"UPGRADE", "CONNECTION_UPGRADE"} \subseteq x.flags
                                   THEN x.type = "REQUEST" \/ x.status_code = 101
                                   ELSE x.method = "CONNECT"],
             "headers_complete")
  IN CASE x.user = 0 -> headers_done(y)
       [] x.user = 1 -> headers_done([y EXCEPT !.flags = @ \cup {"SKIPBODY"}])
       [] x.user = 2 -> headers_done([y EXCEPT !.flags = @ \cup {"SKIPBODY"}, !.upgrade = TRUE])
       [] OTHER -> SET_ERRNO(y, "CB_headers_complete")

headers_almost_done(x, c) ==
  CASE c # LF -> SET_ERRNO(x, "STRICT")
    [] c = LF /\ "TRAILING" \in x.flags ->
         message_done(CALLBACK_NOTIFY(UPDATE_STATE(x, "s_message_done"), "chunk_complete"))
    [] c = LF /\ "TRAILING" \notin x.flags /\ {"CHUNKED", "CONTENTLENGTH"} \subseteq x.flags ->
         SET_ERRNO(x, "UNEXPECTED_CONTENT_LENGTH")
    [] OTHER -> headers_complete(x)

-----------------------------------------------------------------------------
(* Header names.                                                           *)

header_field_start(x, c) ==
  LET almost == UPDATE_STATE(x, "s_headers_almost_done")
      t == TOKEN(c)
      first == [c |-> "h_C", p |-> "h_matching_proxy_connection",
                t |-> "h_matching_transfer_encoding", u |-> "h_matching_upgrade"]
  IN CASE c = CR -> almost
       [] c = LF -> headers_almost_done(almost, c)
       [] c \notin {CR, LF} /\ t = "" -> SET_ERRNO(x, "INVALID_HEADER_TOKEN")
       [] OTHER -> [UPDATE_STATE(MARK(x, "header_field"), "s_header_field")
                      EXCEPT !.index = 0,
                             !.header_state = IF t \in DOMAIN first THEN first[t]
                                              ELSE "h_general"]

\* One more character of a name that is matched against word.
Match(x, c, word, matched, otherwise) ==
  LET i == x.index + 1
  IN [x EXCEPT !.index = i,
               !.header_state = IF CharAt(word, i) # c THEN otherwise
                                ELSE IF i = Len(word) - 1 THEN matched ELSE @]

FieldChar(x, c, t) ==
  LET h == x.header_state
      next(map) == [x EXCEPT !.index = @ + 1,
                             !.header_state = IF t \in DOMAIN map THEN map[t] ELSE "h_general"]
  IN CASE h = "h_general" -> x
       [] h = "h_C" -> next([o |-> "h_CO"])
       [] h = "h_CO" -> next([n |-> "h_CON"])
       [] h = "h_CON" -> next([n |-> "h_matching_connection", t |-> "h_matching_content_length"])
       [] h = "h_matching_connection" -> Match(x, t, CONNECTION, "h_connection", "h_general")
       [] h = "h_matching_proxy_connection" ->
            Match(x, t, PROXY_CONNECTION, "h_connection", "h_general")
       [] h = "h_matching_content_length" ->
            Match(x, t, CONTENT_LENGTH, "h_content_length", "h_general")
       [] h = "h_matching_transfer_encoding" ->
            Match(x, t, TRANSFER_ENCODING, "h_transfer_encoding", "h_general")
       [] h = "h_matching_upgrade" -> Match(x, t, UPGRADE, "h_upgrade", "h_general")
       [] h \in {"h_connection", "h_content_length", "h_transfer_encoding", "h_upgrade"} ->
            [x EXCEPT !.header_state = IF c = SP THEN h ELSE "h_general"]
       [] OTHER -> SET_ERRNO(x, "assert")

\* The inner loop adds what it walked to the size of the header when it ends.
header_field(x, c) ==
  LET w == x.walked + 1
      y == COUNT_HEADER_SIZE([x EXCEPT !.walked = -1], w)
  IN CASE TOKEN(c) # "" -> FieldChar([x EXCEPT !.walked = w], c, TOKEN(c))
       [] TOKEN(c) = "" /\ y.errno # "OK" -> y
       [] TOKEN(c) = "" /\ y.errno = "OK" /\ c = ":" ->
            CALLBACK_DATA(UPDATE_STATE(y, "s_header_value_discard_ws"), "header_field")
       [] OTHER -> SET_ERRNO(y, "INVALID_HEADER_TOKEN")

-----------------------------------------------------------------------------
(* Header values.                                                          *)

ConnectionToken(t, otherwise) ==
  CASE t = "k" -> "h_matching_connection_keep_alive"
    [] t = "c" -> "h_matching_connection_close"
    [] t = "u" -> "h_matching_connection_upgrade"
    [] OTHER   -> otherwise

header_value_start(x, c) ==
  LET y == [UPDATE_STATE(MARK(x, "header_value"), "s_header_value") EXCEPT !.index = 0]
      h == x.header_state
      to(s) == [y EXCEPT !.header_state = s]
  IN CASE h = "h_upgrade" -> [to("h_general") EXCEPT !.flags = @ \cup {"UPGRADE"}]
       [] h = "h_transfer_encoding" ->
            to(IF LOWER(c) = "c" THEN "h_matching_transfer_encoding_chunked" ELSE "h_general")
       [] h = "h_content_length" /\ ~IS_NUM(c) -> SET_ERRNO(y, "INVALID_CONTENT_LENGTH")
       [] h = "h_content_length" /\ IS_NUM(c) /\ "CONTENTLENGTH" \in x.flags ->
            SET_ERRNO(y, "UNEXPECTED_CONTENT_LENGTH")
       [] h = "h_content_length" /\ IS_NUM(c) /\ "CONTENTLENGTH" \notin x.flags ->
            [to("h_content_length_num") EXCEPT !.flags = @ \cup {"CONTENTLENGTH"},
                                               !.content_length = unhex(c)]
       [] h = "h_connection" -> to(ConnectionToken(LOWER(c), "h_matching_connection_token"))
       [] h \in {"h_content_length_ws", "h_matching_connection_token_start"} -> y
       [] OTHER -> to("h_general")

header_value_discard_ws(x, c) ==
  CASE c \in {SP, TAB} -> x
    [] c = CR -> UPDATE_STATE(x, "s_header_value_discard_ws_almost_done")
    [] c = LF -> UPDATE_STATE(x, "s_header_value_discard_lws")
    [] OTHER -> header_value_start(x, c)

\* The flag a header's value stands for, known when the value is over.
ValueFlag(h) ==
  CASE h = "h_connection_keep_alive" -> {"CONNECTION_KEEP_ALIVE"}
    [] h = "h_connection_close" -> {"CONNECTION_CLOSE"}
    [] h = "h_connection_upgrade" -> {"CONNECTION_UPGRADE"}
    [] h = "h_transfer_encoding_chunked" -> {"CHUNKED"}
    [] OTHER -> {}

\* The conservative limit that keeps content_length from wrapping.
Overflows(length, base) == (ULLONG_MAX - base) \div base < length

ContentLengthChar(x, c) ==
  CASE c = SP -> [x EXCEPT !.header_state = IF @ = "h_content_length" THEN @
                                            ELSE "h_content_length_ws"]
    [] ~IS_NUM(c) /\ c # SP -> SET_ERRNO(x, "INVALID_CONTENT_LENGTH")
    [] IS_NUM(c) /\ Overflows(x.content_length, 10) -> SET_ERRNO(x, "INVALID_CONTENT_LENGTH")
    [] OTHER -> [x EXCEPT !.header_state = "h_content_length_num",
                          !.content_length = 10 * @ + unhex(c)]

ValueChar(x, c) ==
  LET h == x.header_state
      t == LOWER(c)
      to(s) == [x EXCEPT !.header_state = s]
      token == "h_matching_connection_token"
      comma(flags) == [to("h_matching_connection_token_start")
                         EXCEPT !.index = 0, !.flags = @ \cup flags]
  IN CASE h = "h_general" -> x
       [] h \in {"h_connection", "h_transfer_encoding"} -> SET_ERRNO(x, "assert")
       [] h \in {"h_content_length", "h_content_length_num"} -> ContentLengthChar(x, c)
       [] h = "h_content_length_ws" ->
            IF c = SP THEN x ELSE SET_ERRNO(x, "INVALID_CONTENT_LENGTH")
       [] h = "h_matching_transfer_encoding_chunked" ->
            Match(x, t, CHUNKED, "h_transfer_encoding_chunked", "h_general")
       [] h = "h_matching_connection_token_start" ->
            to(ConnectionToken(t, CASE TOKEN(t) # "" -> token
                                    [] t \in {SP, TAB} -> h
                                    [] OTHER -> "h_general"))
       [] h = "h_matching_connection_keep_alive" ->
            Match(x, t, KEEP_ALIVE, "h_connection_keep_alive", token)
       [] h = "h_matching_connection_close" -> Match(x, t, CLOSE, "h_connection_close", token)
       [] h = "h_matching_connection_upgrade" ->
            Match(x, t, UPGRADE, "h_connection_upgrade", token)
       [] h = token -> IF c = "," THEN comma({}) ELSE x
       [] h = "h_transfer_encoding_chunked" -> IF c = SP THEN x ELSE to("h_general")
       [] h \in {"h_connection_keep_alive", "h_connection_close", "h_connection_upgrade"} ->
            CASE c = "," -> comma(ValueFlag(h))
              [] c = SP -> x
              [] OTHER -> to(token)
       [] OTHER -> to("h_general")

\* The fast loop of a general value stops after MaxHeaderSize characters, and
\* the character after them is stepped over.
header_value(x, c) ==
  LET w == x.walked + 1
      y == [x EXCEPT !.walked = -1, !.run = 0]
      almost == UPDATE_STATE(y, "s_header_almost_done")
      lf == COUNT_HEADER_SIZE(almost, w)
      general == x.header_state = "h_general"
  IN CASE general /\ x.run = MaxHeaderSize -> [x EXCEPT !.walked = w, !.run = 0]
       [] c = CR /\ ~(general /\ x.run = MaxHeaderSize) ->
            COUNT_HEADER_SIZE(CALLBACK_DATA(almost, "header_value"), w)
       [] c = LF /\ ~(general /\ x.run = MaxHeaderSize) ->
            IF lf.errno # "OK" THEN lf
            ELSE UPDATE_STATE(CALLBACK_DATA(lf, "header_value"), "s_header_value_lws")
       [] OTHER ->
            IF ~IS_HEADER_CHAR(c) THEN SET_ERRNO(x, "INVALID_HEADER_TOKEN")
            ELSE ValueChar([x EXCEPT !.walked = w, !.run = IF general THEN @ + 1 ELSE 0], c)

\* A line that begins with white space continues the value (obsolete folding).
header_value_lws(x, c) ==
  IF c \in {SP, TAB}
  THEN header_value_start(
         [UPDATE_STATE(x, "s_header_value_start")
            EXCEPT !.header_state = IF @ = "h_content_length_num"
                                    THEN "h_content_length_ws" ELSE @], c)
  ELSE header_field_start([UPDATE_STATE(x, "s_header_field_start")
                             EXCEPT !.flags = @ \cup ValueFlag(x.header_state)], c)

header_value_discard_lws(x, c) ==
  CASE c \in {SP, TAB} -> UPDATE_STATE(x, "s_header_value_discard_ws")
    [] c \notin {SP, TAB} /\ x.header_state = "h_content_length" ->
         SET_ERRNO(x, "INVALID_CONTENT_LENGTH")
    [] OTHER ->
         header_field_start(
           Emit([UPDATE_STATE(x, "s_header_field_start")
                   EXCEPT !.flags = @ \cup ValueFlag(x.header_state)], "header_value", ""), c)

-----------------------------------------------------------------------------
(* The body.  to_read bytes at once in the code, one at a time here.       *)

BodyByte(x) ==
  Asserting(x, x.content_length \notin {0, ULLONG_MAX},
         [MARK(x, "body") EXCEPT !.content_length = @ - 1])

\* With its last byte the body is handed over and the message is done.
body_identity(x, c) ==
  LET y == BodyByte(x)
  IN IF y.content_length # 0 THEN y
     ELSE message_done(
            CALLBACK_DATA([UPDATE_STATE(y, "s_message_done") EXCEPT !.piece = @ \o c], "body"))

chunk_size_start(x, c) ==
  Asserting(x, x.nread = 1 /\ "CHUNKED" \in x.flags,
         IF unhex(c) = -1 THEN SET_ERRNO(x, "INVALID_CHUNK_SIZE")
         ELSE [UPDATE_STATE(x, "s_chunk_size") EXCEPT !.content_length = unhex(c)])

chunk_size(x, c) ==
  CASE c = CR -> UPDATE_STATE(x, "s_chunk_size_almost_done")
    [] c \in {";", SP} -> UPDATE_STATE(x, "s_chunk_parameters")
    [] unhex(c) = -1 /\ c \notin {CR, ";", SP} -> SET_ERRNO(x, "INVALID_CHUNK_SIZE")
    [] unhex(c) # -1 /\ Overflows(x.content_length, 16) ->
         SET_ERRNO(x, "INVALID_CONTENT_LENGTH")
    [] OTHER -> [x EXCEPT !.content_length = 16 * @ + unhex(c)]

chunk_parameters(x, c) == IF c = CR THEN UPDATE_STATE(x, "s_chunk_size_almost_done") ELSE x

\* A chunk of length 0 is the last one; trailing headers may follow it.
chunk_size_almost_done(x, c) ==
  IF c # LF THEN SET_ERRNO(x, "STRICT")
  ELSE CALLBACK_NOTIFY(
         IF x.content_length = 0
         THEN [x EXCEPT !.nread = 0, !.flags = @ \cup {"TRAILING"}, !.state = "s_header_field_start"]
         ELSE [x EXCEPT !.nread = 0, !.state = "s_chunk_data"], "chunk_header")

chunk_data(x) ==
  LET y == BodyByte(x)
  IN IF y.content_length = 0 THEN UPDATE_STATE(y, "s_chunk_data_almost_done") ELSE y

chunk_data_almost_done(x, c) ==
  IF c # CR THEN SET_ERRNO(x, "STRICT")
  ELSE CALLBACK_DATA(UPDATE_STATE(x, "s_chunk_data_done"), "body")

chunk_data_done(x, c) ==
  IF c # LF THEN SET_ERRNO(x, "STRICT")
  ELSE CALLBACK_NOTIFY([x EXCEPT !.nread = 0, !.state = "s_chunk_size_start"], "chunk_complete")

-----------------------------------------------------------------------------
(* http_parser_execute: a call resumes, steps over its bytes and leaves.   *)

\* The switch on the state.
Dispatch(x, c) ==
  LET s == x.state
      literal(t) == IF c = t[s][1] THEN UPDATE_STATE(x, t[s][2]) ELSE SET_ERRNO(x, t[s][3])
  IN CASE s \in DOMAIN ResponseLiteral -> literal(ResponseLiteral)
       [] s \in DOMAIN RequestLiteral -> literal(RequestLiteral)
       [] s \in DOMAIN HeaderLiteral -> literal(HeaderLiteral)
       [] s \in DOMAIN Digit ->
            IF IS_NUM(c) THEN [UPDATE_STATE(x, Digit[s][2]) EXCEPT ![Digit[s][1]] = unhex(c)]
            ELSE SET_ERRNO(x, "INVALID_VERSION")
       [] s \in UrlStates -> req_url(x, c)
       [] s = "s_dead" -> IF c \in {CR, LF} THEN x ELSE SET_ERRNO(x, "CLOSED_CONNECTION")
       [] s = "s_start_req_or_res" -> start_req_or_res(x, c)
       [] s = "s_res_or_resp_H" -> res_or_resp_H(x, c)
       [] s = "s_start_res" -> start_res(x, c)
       [] s = "s_res_first_status_code" -> res_first_status_code(x, c)
       [] s = "s_res_status_code" -> res_status_code(x, c)
       [] s = "s_res_status_start" -> res_status_start(x, c)
       [] s = "s_res_status" -> res_status(x, c)
       [] s = "s_start_req" -> start_req(x, c)
       [] s = "s_req_method" -> req_method(x, c)
       [] s = "s_req_spaces_before_url" -> req_spaces_before_url(x, c)
       [] s = "s_req_http_start" -> req_http_start(x, c)
       [] s = "s_req_http_end" -> req_http_end(x, c)
       [] s = "s_header_field_start" -> header_field_start(x, c)
       [] s = "s_header_field" -> header_field(x, c)
       [] s = "s_header_value_discard_ws" -> header_value_discard_ws(x, c)
       [] s = "s_header_value_discard_lws" -> header_value_discard_lws(x, c)
       [] s = "s_header_value" -> header_value(x, c)
       [] s = "s_header_value_lws" -> header_value_lws(x, c)
       [] s = "s_headers_almost_done" -> headers_almost_done(x, c)
       [] s = "s_body_identity" -> body_identity(x, c)
       [] s = "s_body_identity_eof" -> MARK(x, "body")
       [] s = "s_chunk_size_start" -> chunk_size_start(x, c)
       [] s = "s_chunk_size" -> chunk_size(x, c)
       [] s = "s_chunk_parameters" -> chunk_parameters(x, c)
       [] s = "s_chunk_size_almost_done" -> chunk_size_almost_done(x, c)
       [] s = "s_chunk_data" -> chunk_data(x)
       [] s = "s_chunk_data_almost_done" -> chunk_data_almost_done(x, c)
       [] s = "s_chunk_data_done" -> chunk_data_done(x, c)
       [] OTHER -> SET_ERRNO(x, "INVALID_INTERNAL_STATE")

\* A mark that is set after a character was handled covers it.
Marked(x, c) == [x EXCEPT !.piece = IF x.mark # "" THEN @ \o c ELSE ""]

Handle(x, c) == IF x.errno # "OK" THEN x ELSE Marked(Dispatch(x, c), c)

\* One turn of the loop: count the character, unless an inner loop walks
\* over it, and handle it.
Step(x, c) ==
  IF x.errno # "OK" \/ x.stop THEN x
  ELSE Handle(IF PARSING_HEADER(x.state) /\ x.walked = -1
                THEN COUNT_HEADER_SIZE(x, 1) ELSE x, c)

\* Mutant: a value that a call ended in is not marked by the next one.
Resume_loses_value(x) ==
  CASE x.state = "s_header_field" -> [x EXCEPT !.mark = "header_field"]
    [] x.state \in UrlStates      -> [x EXCEPT !.mark = "url"]
    [] x.state = "s_res_status"   -> [x EXCEPT !.mark = "status"]
    [] OTHER                      -> x

\* A call that resumes inside a datum marks it again.
Resume(x) ==
  CASE x.state = "s_header_field" -> [x EXCEPT !.mark = "header_field"]
    [] x.state = "s_header_value" -> [x EXCEPT !.mark = "header_value"]
    [] x.state \in UrlStates      -> [x EXCEPT !.mark = "url"]
    [] x.state = "s_res_status"   -> [x EXCEPT !.mark = "status"]
    [] OTHER                      -> x

\* A call that runs out of bytes counts what the inner loop walked over and
\* hands over what is marked.
HandOver(x) == IF x.errno = "OK" /\ ~x.stop THEN CALLBACK_DATA(x, x.mark) ELSE x

Leave(x) ==
  [HandOver(IF x.errno # "OK" \/ x.walked = -1 THEN x ELSE COUNT_HEADER_SIZE(x, x.walked))
     EXCEPT !.mark = "", !.piece = "", !.walked = -1, !.run = 0]

\* A call without data: the end of the stream.
EndOfStream(x) ==
  CASE x.errno # "OK" -> x
    [] x.errno = "OK" /\ x.state = "s_body_identity_eof" ->
         CALLBACK_NOTIFY(x, "message_complete")
    [] x.errno = "OK" /\ x.state \in {"s_dead", "s_start_req_or_res", "s_start_res",
                                       "s_start_req"} -> x
    [] OTHER -> SET_ERRNO(x, "INVALID_EOF_STATE")

http_parser_init(type, user) ==
  [type |-> type, flags |-> {}, header_state |-> "h_general", index |-> 0, nread |-> 0,
   state |-> CASE type = "REQUEST" -> "s_start_req"
               [] type = "RESPONSE" -> "s_start_res"
               [] OTHER -> "s_start_req_or_res",
   content_length |-> 0, http_major |-> 0, http_minor |-> 0, status_code |-> 0,
   method |-> "DELETE", errno |-> "OK", upgrade |-> FALSE, user |-> user,
   events |-> <<>>, mark |-> "", piece |-> "", walked |-> -1, run |-> 0, stop |-> FALSE]
=============================================================================
