---------------------------- MODULE HttpStream ----------------------------
(***************************************************************************)
(* A connection whose bytes reach the parser in pieces.  A stream is a     *)
(* record: what the parser is initialised with (type, user), the text that *)
(* is sent, and what a reader of the HTTP grammar, who sees the text as a  *)
(* list of messages, expects of it: the callbacks of the messages that are *)
(* complete (expected), the error if the text has one (errno), whether the *)
(* parser must stop for another protocol (stop) and the fields of the      *)
(* requests' URLs (urls).  Every recv brings a piece: short ones, or all   *)
(* that is left.                                                           *)
(***************************************************************************)
EXTENDS HttpUrl

CONSTANTS Streams,   \* the streams that are sent
          MaxPiece   \* pieces are this short, or all the rest

VARIABLES stream, \* the stream of this connection
          pos,    \* how much of it the parser was given
          limit,   \* where the piece of this call ends
          call,   \* whether http_parser_execute runs
          eof,    \* whether it was told of the end
          x,      \* the parser
          once    \* a parser that is given the same bytes in one call

vars == <<stream, pos, limit, call, eof, x, once>>

StreamAssumption == MaxPiece \in Nat \ {0}
ASSUME StreamAssumption

Init ==
  /\ stream \in Streams
  /\ pos = 0 /\ limit = 0
  /\ call = FALSE /\ eof = FALSE
  /\ x = http_parser_init(stream.type, stream.user)
  /\ once = x

\* The next n bytes arrive and the parser is called.
Call(n) ==
  /\ ~call /\ ~x.stop /\ x.errno = "OK"
  /\ n > 0 /\ pos + n <= Len(stream.text)
  /\ limit' = pos + n
  /\ call' = TRUE
  /\ x' = Resume(x)
  /\ UNCHANGED <<stream, pos, eof, once>>

\* One turn of the loop.
Byte ==
  /\ call /\ pos < limit /\ ~x.stop /\ x.errno = "OK"
  /\ pos' = pos + 1
  /\ x' = Step(x, CharAt(stream.text, pos))
  /\ once' = Step(once, CharAt(stream.text, pos))
  /\ UNCHANGED <<stream, limit, call, eof>>

\* The bytes of the piece are used up, or the loop was left.
Return ==
  /\ call /\ (pos = limit \/ x.stop \/ x.errno # "OK")
  /\ call' = FALSE
  /\ x' = Leave(x)
  /\ UNCHANGED <<stream, pos, limit, eof, once>>

\* The peer closes the connection.
Eof ==
  /\ ~call /\ ~eof /\ ~x.stop /\ x.errno = "OK"
  /\ pos = Len(stream.text)
  /\ eof' = TRUE
  /\ x' = EndOfStream(x)
  /\ once' = EndOfStream(Leave(once))
  /\ UNCHANGED <<stream, pos, limit, call>>

Next ==
  \/ \E n \in (1..MaxPiece) \cup {Len(stream.text) - pos} : Call(n)
  \/ Byte \/ Return \/ Eof

Spec == Init /\ [][Next]_vars

-----------------------------------------------------------------------------
(* Properties.                                                             *)

\* The callbacks up to the end of the last complete message.
Complete(events) ==
  LET ends == {i \in 1..Len(events) : events[i][1] = "message_complete"}
      final == IF ends = {} THEN 0 ELSE CHOOSE i \in ends : \A j \in ends : j <= i
  IN SubSeq(events, 1, final)

SameParse(y) ==
  /\ "assert" \notin {x.errno, y.errno}
  /\ (x.errno = "OK") <=> (y.errno = "OK")
  /\ x.errno = "OK" => x = y
  /\ Complete(x.events) = Complete(y.events)

\* The parser's state lives in struct http_parser alone: however the stream is
\* cut into calls of http_parser_execute, the parser ends in the state, and has
\* handed over the data, that one call with all the bytes leads to; an error is
\* found with the same bytes and none of the asserts of the code fails.
Resumable == ~call /\ pos > 0 => SameParse(IF eof THEN once ELSE Leave(once))

\* The fields of a URL are the ones it was written with.
CutAsWritten(t, u) ==
  /\ u.ret = t.ret
  /\ t.ret = 0 =>
       /\ [uf \in u.field_set |-> FieldText(t.text, u, uf)] = t.fields
       /\ u.port = t.port

\* The parser reads what was sent: when the stream is over it has called back
\* with the first lines, headers and bodies of the messages in it, in order
\* and nothing of one message carried into the next; it stopped where the
\* protocol changes, refused what is not HTTP, and cuts the URLs as written.
ParsesWhatWasSent ==
  ~call /\ (eof \/ x.stop \/ x.errno # "OK") =>
    /\ x.errno = stream.errno
    /\ x.stop = stream.stop
    /\ Complete(x.events) = stream.expected
    /\ x.errno = "OK" => x.events = stream.expected
    /\ \A t \in stream.urls : CutAsWritten(t, http_parser_parse_url(t.text, t.connect))
=============================================================================
