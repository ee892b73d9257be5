------------------------------ MODULE HttpUrl ------------------------------
(***************************************************************************)
(* http_parser_parse_url and http_parse_host of thirdparty/http:           *)
(* http_parser.c, which cut a URL into its fields.  A result u holds ret   *)
(* (0, or 1 for a URL that is refused), field_set, field_data (the offset  *)
(* and the length of each field) and port, as struct http_parser_url does. *)
(***************************************************************************)
EXTENDS HttpParser

UrlFields == {"SCHEMA", "HOST", "PORT", "PATH", "QUERY", "FRAGMENT", "USERINFO"}

http_parser_url_init ==
  [ret |-> 0, field_set |-> {}, port |-> 0,
   field_data |-> [uf \in UrlFields |-> [off |-> 0, len |-> 0]]]

\* One more character of a field, or the first one.
Extend(u, uf) == [u EXCEPT !.field_data[uf].len = @ + 1]
Begin(u, uf, off) ==
  [u EXCEPT !.field_set = @ \cup {uf}, !.field_data[uf] = [off |-> off, len |-> 1]]

FieldText(buf, u, uf) ==
  SubSeq(buf, u.field_data[uf].off + 1, u.field_data[uf].off + u.field_data[uf].len)

-----------------------------------------------------------------------------
http_parse_host_char(s, c) ==
  LET zone == IS_ALPHANUM(c) \/ c \in {"%", ".", "-", "_", "~"}
  IN CASE s \in {"userinfo", "userinfo_start"} /\ c = "@" -> "host_start"
       [] s \in {"userinfo", "userinfo_start"} /\ IS_USERINFO_CHAR(c) -> "userinfo"
       [] s = "host_start" /\ c = "[" -> "host_v6_start"
       [] s \in {"host_start", "host"} /\ IS_HOST_CHAR(c) -> "host"
       [] s \in {"host", "host_v6_end"} /\ c = ":" -> "host_port_start"
       [] s \in {"host_v6", "host_v6_zone"} /\ c = "]" -> "host_v6_end"
       [] s \in {"host_v6", "host_v6_start"} /\ (IS_HEX(c) \/ c \in {":", "."}) -> "host_v6"
       [] s = "host_v6" /\ c = "%" -> "host_v6_zone_start"
       [] s \in {"host_v6_zone", "host_v6_zone_start"} /\ zone -> "host_v6_zone"
       [] s \in {"host_port", "host_port_start"} /\ IS_NUM(c) -> "host_port"
       [] OTHER -> "host_dead"

\* The field a state of the host's automaton adds its character to.
HostField(s) ==
  CASE s \in {"host", "host_v6", "host_v6_zone_start", "host_v6_zone"} -> "HOST"
    [] s = "host_port" -> "PORT"
    [] s = "userinfo" -> "USERINFO"
    [] OTHER -> "none"

\* What the loop of http_parse_host does with the character at off, which
\* leads from state s to t and belongs to the field uf.
HostChar(u, s, t, uf, off) ==
  [s |-> t,
   u |-> CASE uf = "none" -> u
           [] uf = "HOST" /\ t \in {"host", "host_v6"} /\ t # s ->
                [Extend(u, uf) EXCEPT !.field_data[uf].off = off]
           [] uf \in {"PORT", "USERINFO"} /\ t # s -> Begin(u, uf, off)
           [] OTHER -> Extend(u, uf)]

HostTo(w, t, off) == HostChar(w.u, w.s, t, HostField(t), off)

HostStep(w, off, c) ==
  IF w.s = "host_dead" THEN w ELSE HostTo(w, http_parse_host_char(w.s, c), off)

HostParsed(w) ==
  IF w.s \in {"host", "host_v6_end", "host_port"} THEN w.u ELSE [w.u EXCEPT !.ret = 1]

http_parse_host(buf, u, found_at) ==
  LET host == u.field_data["HOST"]
      start == [s |-> IF found_at THEN "userinfo_start" ELSE "host_start",
                u |-> [u EXCEPT !.field_data["HOST"].len = 0]]
      f[i \in 0..host.len] ==
        IF i = 0 THEN start
        ELSE HostStep(f[i - 1], host.off + i - 1, CharAt(buf, host.off + i - 1))
  IN HostParsed(f[host.len])

-----------------------------------------------------------------------------
\* The field a state of the URL's automaton adds its character to; the other
\* states are delimiters.
UrlField(s) ==
  CASE s = "s_req_schema" -> "SCHEMA"
    [] s \in {"s_req_server", "s_req_server_with_at"} -> "HOST"
    [] s = "s_req_path" -> "PATH"
    [] s = "s_req_query_string" -> "QUERY"
    [] s = "s_req_fragment" -> "FRAGMENT"
    [] OTHER -> "none"

UrlTo(w, s, uf, off) ==
  [s |-> s,
   uf |-> IF uf = "none" THEN w.uf ELSE uf,
   found_at |-> w.found_at \/ s = "s_req_server_with_at",
   u |-> CASE uf = "none" -> w.u
           [] uf # "none" /\ uf = w.uf -> Extend(w.u, uf)
           [] OTHER -> Begin(w.u, uf, off)]

UrlCharTo(w, s, off) == UrlTo(w, s, UrlField(s), off)

UrlStep(w, off, c) ==
  IF w.s = "s_dead" THEN w ELSE UrlCharTo(w, parse_url_char(w.s, c), off)

Port(text) ==
  LET f[i \in 0..Len(text)] == IF i = 0 THEN 0 ELSE 10 * f[i - 1] + unhex(CharAt(text, i - 1))
  IN f[Len(text)]

\* The last checks of a URL whose fields are known: a schema has a host, a
\* CONNECT names a host and a port and nothing else, a port fits 16 bits.
Finish(u, port, is_connect) ==
  IF \/ u.ret = 1
     \/ "SCHEMA" \in u.field_set /\ "HOST" \notin u.field_set
     \/ is_connect /\ u.field_set # {"HOST", "PORT"}
     \/ port > 65535
  THEN [u EXCEPT !.ret = 1] ELSE [u EXCEPT !.port = port]

WithPort(buf, u, is_connect) ==
  Finish(u, IF "PORT" \in u.field_set THEN Port(FieldText(buf, u, "PORT")) ELSE 0,
         is_connect)

WithHost(buf, w, is_connect) ==
  WithPort(buf, CASE w.s = "s_dead" -> [w.u EXCEPT !.ret = 1]
                  [] w.s # "s_dead" /\ "HOST" \in w.u.field_set ->
                       http_parse_host(buf, w.u, w.found_at)
                  [] OTHER -> w.u, is_connect)

http_parser_parse_url(buf, is_connect) ==
  LET start == [s |-> IF is_connect THEN "s_req_server_start" ELSE "s_req_spaces_before_url",
                uf |-> "none", found_at |-> FALSE,
                u |-> [http_parser_url_init EXCEPT !.ret = IF buf = "" THEN 1 ELSE 0]]
      f[i \in 0..Len(buf)] ==
        IF i = 0 THEN start ELSE UrlStep(f[i - 1], i - 1, CharAt(buf, i - 1))
  IN WithHost(buf, f[Len(buf)], is_connect)
=============================================================================
