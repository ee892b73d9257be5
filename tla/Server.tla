------------------------------- MODULE Server -------------------------------
(***************************************************************************)
(* coroutine::Server (src/coroutine/server.cc): one coroutine accepts, and *)
(* one coroutine is created for each connection.  A handler makes any of   *)
(* the calls of module Socket on its connection, may share the connection  *)
(* with coroutines it creates, deletes the connection when nobody else     *)
(* uses it, and may shut the server down.                                  *)
(***************************************************************************)
EXTENDS Socket

VARIABLES serving,   \* Server::running
          start_at,  \* where Server::start is
          conn,      \* the connection each handler was given; BadFd if none
          late       \* history: connections accepted after shutdown

serverVars == <<serving, start_at, conn, late>>
allVars == <<eventVars, sockVars, serverVars>>

Acceptor == 1        \* the first coroutine calls Server::start

ServerTypeOK ==
    /\ SockTypeOK
    /\ serving \in BOOLEAN
    /\ start_at \in {"begin", "top", "accept", "returned"}
    /\ conn \in [Cid -> Fd \cup {BadFd}]
    /\ late \in Nat

\* serving has no initializer: start sets it before anything reads it.
ServerInit ==
    /\ SockInit
    /\ serving = FALSE /\ start_at = "begin"
    /\ conn = [c \in Cid |-> BadFd] /\ late = 0

InUserCode(c) == fault = "none" /\ running = c /\ pc[c] = "user"

-----------------------------------------------------------------------------
(* Server::start *)

start_begin ==
    /\ InUserCode(Acceptor) /\ start_at = "begin"
    /\ serving' = TRUE /\ start_at' = "top"
    /\ UNCHANGED <<eventVars, sockVars, conn, late>>

\* Mutant: the loop does not look at running.
start_accept_always ==
    /\ InUserCode(Acceptor) /\ start_at = "top"
    /\ Call(Acceptor, "accept", ListenFd, 0)
    /\ start_at' = "accept"
    /\ UNCHANGED <<serving, conn, late>>

\* while (running): conn = socket->accept().
start_accept ==
    /\ InUserCode(Acceptor) /\ start_at = "top" /\ serving
    /\ Call(Acceptor, "accept", ListenFd, 0)
    /\ start_at' = "accept"
    /\ UNCHANGED <<serving, conn, late>>

\* accept returned; conn is never nullptr, whatever the descriptor is.
\* Coroutine::create(handler, conn) runs the handler at once.
start_serve ==
    /\ InUserCode(Acceptor) /\ start_at = "accept"
    /\ create
    /\ conn' = [conn EXCEPT ![last_cid + 1] = result[Acceptor].ret]
    /\ late' = IF serving THEN late ELSE late + 1
    /\ start_at' = "top"
    /\ UNCHANGED <<callVars, timerVars, loopVars, pollVars, sockVars, serving>>

start_return ==
    /\ InUserCode(Acceptor) /\ start_at = "top" /\ ~ serving
    /\ start_at' = "returned"
    /\ UNCHANGED <<eventVars, sockVars, serving, conn, late>>

-----------------------------------------------------------------------------
(* Handlers *)

Handling(c) == InUserCode(c) /\ c # Acceptor

Sharing(c) == {d \in coroutines \ {c} : conn[d] = conn[c]}

handler_call(c) ==
    /\ Handling(c)
    /\ conn[c] \in open \cup {BadFd}
    /\ \E kind \in Kinds, len \in Lens : Call(c, kind, conn[c], len)
    /\ UNCHANGED serverVars

handler_share(c) ==
    /\ Handling(c) /\ conn[c] \in open /\ create
    /\ conn' = [conn EXCEPT ![last_cid + 1] = conn[c]]
    /\ UNCHANGED <<callVars, timerVars, loopVars, pollVars, sockVars, serving, start_at, late>>

\* delete conn
handler_close(c) ==
    /\ Handling(c) /\ conn[c] \in open /\ Sharing(c) = {}
    /\ close(c, conn[c])
    /\ conn' = [conn EXCEPT ![c] = BadFd]
    /\ UNCHANGED <<serving, start_at, late>>

\* Server::shutdown
shutdown(c) ==
    /\ Handling(c) /\ serving
    /\ serving' = FALSE
    /\ UNCHANGED <<eventVars, sockVars, start_at, conn, late>>

server_end(c) ==
    /\ InUserCode(c)
    /\ IF c = Acceptor THEN start_at = "returned"
       ELSE conn[c] = BadFd \/ Sharing(c) # {}
    /\ context_end
    /\ UNCHANGED <<callVars, timerVars, loopVars, pollVars, sockVars, serverVars>>

ServerThread ==
    \/ LoopStep(ReadyFds) /\ UNCHANGED <<sockVars, serverVars>>
    \/ \E c \in Cid :
          \/ SocketStep(c) /\ UNCHANGED serverVars
          \/ handler_call(c) \/ handler_share(c) \/ handler_close(c)
          \/ shutdown(c) \/ server_end(c)
    \/ start_begin \/ start_accept \/ start_serve \/ start_return

Peers ==
    /\ \/ peer_connects
       \/ \E f \in ConnFd :
             \/ peer_sends(f) \/ peer_drains(f)
             \/ \E how \in {"eof", "reset"} : peer_ends(f, how)
    /\ UNCHANGED serverVars

ServerNext == ServerThread \/ Peers

ServerSpec == ServerInit /\ [][ServerNext]_allVars

\* The operating system runs the thread, and peers read what they are sent.
ServerFairSpec ==
    /\ ServerSpec /\ WF_allVars(ServerThread)
    /\ \A f \in ConnFd : WF_allVars(peer_drains(f) /\ UNCHANGED serverVars)

-----------------------------------------------------------------------------
(* Properties *)

Count(n) == IF n < 0 THEN 0 ELSE n

\* Bytes a call has moved so far, or moved in all once it has returned.
MovedBy(c) == IF pc[c] = "user" THEN Count(result[c].ret) ELSE op[c].total

\* What a recv or recv_all has put into its buffer, across all the waits it
\* was parked in, is as many bytes as it counts, in the order of the stream,
\* and no byte of them went to another coroutine reading the connection.
RecvIntact ==
    \A c \in coroutines : op[c].kind \in {"recv", "recv_all"} =>
        LET b == buf[c] IN
        /\ Len(b) = MovedBy(c)
        /\ \A i, j \in 1 .. Len(b) : i < j => b[i] < b[j]
        /\ \A d \in Sharing(c) :
              op[d].kind \in {"recv", "recv_all"} =>
                 \A i \in 1 .. Len(b), j \in 1 .. Len(buf[d]) : b[i] # buf[d][j]

\* The bytes of a send or send_all on the wire are a prefix of its buffer, in
\* order and without gaps or repetition, of the length the call counts or
\* returns, whatever other coroutines sent in between.
SendIntact ==
    \A c \in coroutines : op[c].kind \in {"send", "send_all"} /\ op[c].fd # BadFd =>
        LET n == IF pc[c] = "user" THEN calls[c] ELSE calls[c] + 1
            w == wire[op[c].fd]
            mine == {i \in 1 .. Len(w) : w[i][1] = c /\ w[i][2] = n}
        IN  /\ {w[i][3] : i \in mine} = 1 .. MovedBy(c)
            /\ \A i, j \in mine : i < j => w[i][3] < w[j][3]

\* recv_all and send_all come back short only if the stream has ended or
\* failed, or because another coroutine was waiting on the connection.
ShortMeansEnd ==
    \A c \in coroutines :
        pc[c] = "user" /\ op[c].kind \in {"recv_all", "send_all"}
        /\ result[c].ret < op[c].len =>
           \/ op[c].fd = BadFd \/ result[c].errno = "EEXIST"
           \/ op[c].kind = "recv_all" /\ fin[op[c].fd] # "open"
           \/ op[c].kind = "send_all" /\ fin[op[c].fd] = "reset"

\* After Server::shutdown at most the one connection that start is already
\* waiting for is accepted and served; start does not wait for another one.
AtMostOneLate ==
    late + (IF ~ serving /\ start_at = "accept" THEN 1 ELSE 0) <= 1

\* A send that waits goes on once the kernel has room again.
SendersProgress ==
    \A c \in Cid :
       (pc[c] = "wait_event" /\ op[c].kind \in {"send", "send_all"}
          /\ Room(op[c].fd) > 0)
       ~> pc[c] # "wait_event"
=============================================================================
