------------------------------- MODULE Socket -------------------------------
(***************************************************************************)
(* coroutine::Socket (src/coroutine/socket.cc over src/socket.cc): calls   *)
(* that look synchronous and park the coroutine while the kernel says      *)
(* EAGAIN.  Each call is a loop of system calls; between two of them other *)
(* coroutines run, also on the same connection.                            *)
(*                                                                         *)
(* The kernel's side is modelled from how the code uses it.  Bytes are     *)
(* named by their place: a received byte by its position in the peer's     *)
(* stream, a sent byte by the call that sent it and its offset there.      *)
(***************************************************************************)
EXTENDS Event

CONSTANTS ListenFd,   \* the listening descriptor
          Kinds,      \* the calls the program makes on connections
          Lens,       \* the len arguments
          TxCap,      \* bytes the kernel buffers for the peer
          MaxRx,      \* bound: bytes a peer sends on one connection
          MaxPeers    \* bound: connections peers open

ASSUME SocketConstants ==
    /\ ListenFd \in Fd
    /\ Kinds \subseteq {"recv", "recv_all", "send", "send_all"}
    /\ Lens \subseteq Nat \ {0}
    /\ TxCap \in Nat \ {0} /\ MaxRx \in Nat /\ MaxPeers \in Nat

VARIABLES
    op,        \* the call each coroutine is in: [kind, fd, len, total]
    buf,       \* what its last recv or recv_all put into the buffer
    result,    \* what its last call returned, and why it ended
    open,      \* descriptors in use
    pending,   \* connections in the backlog of the listening socket
    peers,     \* connections opened by peers so far
    fin,       \* per connection: open, eof (the peer closed) or reset
    arrived,   \* per connection: bytes the peer sent
    taken,     \* per connection: bytes read by the program
    wire,      \* per connection: bytes the program handed to the kernel
    drained    \* per connection: how many of those the peer has read

progVars   == <<op, buf, result>>
kernelVars == <<open, pending, peers, fin, arrived, taken, wire, drained>>
sockVars   == <<progVars, kernelVars>>

ConnFd == Fd \ {ListenFd}
BadFd  == -1
NoOp   == [kind |-> "none", fd |-> BadFd, len |-> 0, total |-> 0]

SockTypeOK ==
    /\ EventTypeOK
    /\ pc \in [Cid -> {"user", "call", "wait_event"}]
    /\ op \in [Cid -> [kind : Kinds \cup {"none", "accept"},
                       fd : Fd \cup {BadFd}, len : Lens \cup {0}, total : Nat]]
    /\ \A c \in Cid : op[c].total <= op[c].len
    /\ buf \in [Cid -> Seq(Nat)]
    /\ result \in [Cid -> [ret : Int, errno : {"ok", "end", "EEXIST"}]]
    /\ open \subseteq Fd
    /\ pending \in 0 .. MaxPeers /\ peers \in 0 .. MaxPeers
    /\ fin \in [ConnFd -> {"open", "eof", "reset"}]
    /\ arrived \in [ConnFd -> 0 .. MaxRx]
    /\ taken \in [ConnFd -> 0 .. MaxRx]
    /\ wire \in [ConnFd -> Seq(Cid \X (1 .. MaxCalls) \X Nat)]
    /\ drained \in [ConnFd -> Nat]

SockInit ==
    /\ EventInit
    /\ op = [c \in Cid |-> NoOp]
    /\ buf = [c \in Cid |-> << >>]
    /\ result = [c \in Cid |-> [ret |-> 0, errno |-> "ok"]]
    /\ open = {ListenFd} /\ pending = 0 /\ peers = 0
    /\ fin = [f \in ConnFd |-> "open"]
    /\ arrived = [f \in ConnFd |-> 0] /\ taken = [f \in ConnFd |-> 0]
    /\ wire = [f \in ConnFd |-> << >>] /\ drained = [f \in ConnFd |-> 0]

-----------------------------------------------------------------------------
(* The kernel *)

Least(a, b) == IF a < b THEN a ELSE b
Avail(f) == arrived[f] - taken[f]
Room(f)  == TxCap - (Len(wire[f]) - drained[f])

Readable(f) == IF f = ListenFd THEN pending > 0
               ELSE Avail(f) > 0 \/ fin[f] # "open"
Writable(f) == f \in ConnFd /\ (Room(f) > 0 \/ fin[f] = "reset")

\* What level-triggered epoll reports; errors are reported for any interest.
ReadyFds ==
    {f \in InterestList : \/ epoll[f].ev = "IN" /\ Readable(f)
                          \/ epoll[f].ev = "OUT" /\ Writable(f)}

Again == -2
Fail  == -1

\* ::recv and ::send of at most n bytes on a non-blocking descriptor.
sys_recv(f, n) ==
    IF f \notin open THEN Fail
    ELSE IF Avail(f) > 0 THEN Least(Avail(f), n)
    ELSE CASE fin[f] = "eof" -> 0 [] fin[f] = "reset" -> Fail [] OTHER -> Again

sys_send(f, n) ==
    IF f \notin open \/ fin[f] = "reset" THEN Fail
    ELSE IF Room(f) > 0 THEN Least(Room(f), n) ELSE Again

\* ::accept: the lowest free descriptor, or EMFILE.
FreeFds == ConnFd \ open
sys_accept ==
    IF pending = 0 THEN Again
    ELSE IF FreeFds = {} THEN Fail
    ELSE CHOOSE f \in FreeFds : \A g \in FreeFds : f <= g

-----------------------------------------------------------------------------
(* Calls *)

\* A program on the sockets calls one of them on f.  The extending module
\* says who may call what.
Call(c, kind, f, len) ==
    /\ fault = "none" /\ running = c /\ pc[c] = "user"
    /\ calls[c] < MaxCalls
    /\ pc' = [pc EXCEPT ![c] = "call"]
    /\ op' = [op EXCEPT ![c] = [kind |-> kind, fd |-> f, len |-> len, total |-> 0]]
    /\ buf' = [buf EXCEPT ![c] = << >>]
    /\ UNCHANGED <<coVars, wfd, calls, timerVars, loopVars, pollVars, result, kernelVars>>

InCall(c, kinds) ==
    fault = "none" /\ running = c /\ pc[c] = "call" /\ op[c].kind \in kinds

\* The call returns r.
Return(c, r, why) ==
    /\ result' = [result EXCEPT ![c] = [ret |-> r, errno |-> why]]
    /\ pc' = [pc EXCEPT ![c] = "user"]
    /\ calls' = IF op[c].kind = "accept" THEN calls
                ELSE [calls EXCEPT ![c] = @ + 1]
    /\ UNCHANGED op

\* After an error or the end of the stream: what was transferred before it,
\* or else the error.
Total(c, r) == IF op[c].total = 0 THEN r ELSE op[c].total

\* Mutant: the _all calls are satisfied with the first part.
Moved_once(c, n) == Return(c, op[c].total + n, "ok")

\* A system call moved n bytes: recv and send return, recv_all and send_all
\* go on until len is reached.
Moved(c, n) ==
    IF op[c].kind \in {"recv", "send"} \/ op[c].total + n = op[c].len
    THEN Return(c, op[c].total + n, "ok")
    ELSE /\ op' = [op EXCEPT ![c].total = @ + n]
         /\ UNCHANGED <<pc, calls, result>>

NoSwitch == UNCHANGED <<coVars, wfd, timerVars, loopVars, pollVars>>

\* Mutant: recv_all writes every part at the start of the buffer.
Store_at_start(c, n) ==
    buf' = [buf EXCEPT ![c] = [i \in 1 .. n |-> taken[op[c].fd] + i]]

\* (char *)buf + total
Store(c, n) ==
    buf' = [buf EXCEPT ![c] = SubSeq(@, 1, op[c].total) \o
                              [i \in 1 .. n |-> taken[op[c].fd] + i]]

\* One system call of recv or recv_all that does not say EAGAIN.
recv(c) ==
    /\ InCall(c, {"recv", "recv_all"})
    /\ LET f == op[c].fd
           r == sys_recv(f, op[c].len - op[c].total) IN
       /\ r # Again
       /\ IF r > 0
          THEN /\ Store(c, r)
               /\ taken' = [taken EXCEPT ![f] = @ + r]
               /\ Moved(c, r)
          ELSE Return(c, Total(c, r), "end") /\ UNCHANGED <<buf, taken>>
    /\ NoSwitch /\ UNCHANGED <<open, pending, peers, fin, arrived, wire, drained>>

\* Mutant: send_all sends from the start of the buffer again.
Handed_from_start(c, n) ==
    [i \in 1 .. n |-> <<c, calls[c] + 1, i>>]

\* The bytes of this call at offsets total + 1 .. total + n.
Handed(c, n) == [i \in 1 .. n |-> <<c, calls[c] + 1, op[c].total + i>>]

\* One system call of send or send_all that does not say EAGAIN.
send(c) ==
    /\ InCall(c, {"send", "send_all"})
    /\ LET f == op[c].fd
           r == sys_send(f, op[c].len - op[c].total) IN
       /\ r # Again
       /\ IF r > 0
          THEN /\ wire' = [wire EXCEPT ![f] = @ \o Handed(c, r)]
               /\ Moved(c, r)
          ELSE Return(c, Total(c, r), "end") /\ UNCHANGED wire
    /\ NoSwitch /\ UNCHANGED <<buf, open, pending, peers, fin, arrived, taken, drained>>

\* One system call of accept that does not say EAGAIN; a failed accept is
\* wrapped in a Socket like any other descriptor.
accept(c) ==
    /\ InCall(c, {"accept"})
    /\ LET f == sys_accept IN
       /\ f # Again
       /\ Return(c, f, "ok")
       /\ IF f = Fail
          THEN UNCHANGED <<open, pending, fin, arrived, taken, wire, drained>>
          ELSE /\ open' = open \cup {f} /\ pending' = pending - 1
               /\ fin' = [fin EXCEPT ![f] = "open"]
               /\ arrived' = [arrived EXCEPT ![f] = 0]
               /\ taken' = [taken EXCEPT ![f] = 0]
               /\ wire' = [wire EXCEPT ![f] = << >>]
               /\ drained' = [drained EXCEPT ![f] = 0]
    /\ NoSwitch /\ UNCHANGED <<buf, peers>>

Blocked(c) ==
    CASE op[c].kind \in {"recv", "recv_all"} ->
            sys_recv(op[c].fd, op[c].len - op[c].total) = Again
      [] op[c].kind \in {"send", "send_all"} ->
            sys_send(op[c].fd, op[c].len - op[c].total) = Again
      [] OTHER -> sys_accept = Again

\* The event each call waits for.  send_all asks for FSW_EVENT_READ.
Interest(kind) == IF kind = "send" THEN "OUT" ELSE "IN"

\* EAGAIN: wait_event parks the coroutine ...
again(c) ==
    /\ InCall(c, Kinds \cup {"accept"})
    /\ Blocked(c)
    /\ wait_event(c, op[c].fd, Interest(op[c].kind))
    /\ UNCHANGED <<calls, sockVars>>

\* ... or fails, because another coroutine waits for the descriptor.
again_fails(c) ==
    /\ InCall(c, Kinds \cup {"accept"})
    /\ Blocked(c)
    /\ wait_event_exists(c, op[c].fd)
    /\ Return(c, Total(c, Fail), "EEXIST")
    /\ UNCHANGED <<coVars, wfd, timerVars, loopVars, buf, kernelVars>>

\* wait_event returns true and the system call is made again.  No descriptor
\* is closed under a waiting coroutine here (see module EventLoop).
woken(c) ==
    /\ fault = "none" /\ running = c /\ pc[c] = "wait_event"
    /\ ~ DelFails(c)
    /\ wait_event_woken(c)
    /\ pc' = [pc EXCEPT ![c] = "call"]
    /\ UNCHANGED <<calls, sockVars>>

\* close(): the descriptor is free for the next accept.
close(c, f) ==
    /\ fault = "none" /\ running = c /\ pc[c] = "user"
    /\ open' = open \ {f}
    /\ op' = [op EXCEPT ![c] = NoOp] /\ buf' = [buf EXCEPT ![c] = << >>]
    /\ UNCHANGED <<eventVars, result, pending, peers, fin, arrived, taken, wire, drained>>

SocketStep(c) ==
    recv(c) \/ send(c) \/ accept(c) \/ again(c) \/ again_fails(c) \/ woken(c)

-----------------------------------------------------------------------------
(* The peers *)

Alive == fault = "none" /\ loop # "returned"

peer_connects ==
    /\ Alive /\ peers < MaxPeers
    /\ peers' = peers + 1 /\ pending' = pending + 1
    /\ UNCHANGED <<eventVars, progVars, open, fin, arrived, taken, wire, drained>>

peer_sends(f) ==
    /\ Alive /\ f \in open /\ fin[f] = "open" /\ arrived[f] < MaxRx
    /\ arrived' = [arrived EXCEPT ![f] = @ + 1]
    /\ UNCHANGED <<eventVars, progVars, open, pending, peers, fin, taken, wire, drained>>

peer_ends(f, how) ==
    /\ Alive /\ f \in open /\ fin[f] = "open"
    /\ fin' = [fin EXCEPT ![f] = how]
    /\ UNCHANGED <<eventVars, progVars, open, pending, peers, arrived, taken, wire, drained>>

peer_drains(f) ==
    /\ Alive /\ f \in open /\ drained[f] < Len(wire[f])
    /\ drained' = [drained EXCEPT ![f] = Len(wire[f])]
    /\ UNCHANGED <<eventVars, progVars, open, pending, peers, fin, arrived, taken, wire>>
=============================================================================
