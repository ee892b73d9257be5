---------------------------- MODULE ServerProofs ----------------------------
(***************************************************************************)
(* The TCP server and its socket calls, proved for every number of         *)
(* connections, coroutines, peers and bytes and every size of the kernel's *)
(* buffers: what the calls of coroutines that share connections transfer,  *)
(* when a call for a whole buffer may come back short, and how many        *)
(* connections are served after shutdown.                                  *)
(*                                                                         *)
(* The calls only keep their promises because a connection outlives them:  *)
(* the invariant says that whoever is in a call, or still looks at what    *)
(* his last call returned, holds a connection that nobody deletes and that *)
(* accept cannot hand out again.                                           *)
(***************************************************************************)
EXTENDS Server, CoroutineProofs, SequenceTheorems, WellFoundedInduction

-----------------------------------------------------------------------------
(* The inductive invariant *)

Recvs == {"recv", "recv_all"}
Sends == {"send", "send_all"}

ServTypes ==
    /\ CoTypeOK /\ timers = {}
    /\ pc \in [Cid -> {"user", "call", "wait_event"}] /\ calls \in [Cid -> Nat]
    /\ op \in [Cid -> [kind : Kinds \cup {"none", "accept"}, fd : Fd \cup {BadFd},
                       len : Nat, total : Nat]]
    /\ buf \in [Cid -> Seq(Nat)]
    /\ result \in [Cid -> [ret : Int, errno : {"ok", "end", "EEXIST"}]]
    /\ open \subseteq Fd /\ fin \in [ConnFd -> {"open", "eof", "reset"}]
    /\ arrived \in [ConnFd -> Nat] /\ taken \in [ConnFd -> Nat]
    /\ wire \in [ConnFd -> Seq(Cid \X Nat \X Nat)] /\ drained \in [ConnFd -> Nat]
    /\ serving \in BOOLEAN /\ start_at \in {"begin", "top", "accept", "returned"}
    /\ conn \in [Cid -> ConnFd \cup {BadFd}] /\ late \in Nat

\* Nobody has used a cid that was not handed out.
FreshInv == \A c \in Cid : c > last_cid =>
                op[c].kind = "none" /\ pc[c] = "user" /\ conn[c] = BadFd

\* A handler calls only on the connection it was given, which is open as long
\* as the handler lives and has not deleted it; the acceptor only accepts.
OwnInv ==
    /\ \A c \in coroutines : conn[c] \in open \cup {BadFd}
    /\ \A c \in Cid : c # Acceptor /\ op[c].kind # "none" =>
          op[c].kind \in Kinds /\ op[c].fd = conn[c]
    /\ op[Acceptor].kind \in {"none", "accept"} /\ op[Acceptor].total = 0
    /\ conn[Acceptor] = BadFd

\* Nothing runs between the return of accept and the new coroutine.
AcceptInv ==
    start_at = "accept" /\ pc[Acceptor] = "user" =>
        running = Acceptor /\ result[Acceptor].ret \in (open \cap ConnFd) \cup {BadFd}

\* The buffer of a receiving call.
RecvGood(c) == op[c].kind \in Recvs =>
    /\ Len(buf[c]) = MovedBy(c)
    /\ \A i, j \in 1 .. Len(buf[c]) : i < j => buf[c][i] < buf[c][j]
    /\ conn[c] = BadFd => Len(buf[c]) = 0
    /\ conn[c] # BadFd => \A i \in 1 .. Len(buf[c]) : buf[c][i] <= taken[conn[c]]
Apart(c, d) ==
    op[c].kind \in Recvs /\ op[d].kind \in Recvs /\ conn[c] = conn[d] =>
        \A i \in 1 .. Len(buf[c]), j \in 1 .. Len(buf[d]) : buf[c][i] # buf[d][j]

\* The bytes of call n of c on a connection.
Mine(w, c, n) == {i \in 1 .. Len(w) : w[i][1] = c /\ w[i][2] = n}
Number(c) == IF pc[c] = "user" THEN calls[c] ELSE calls[c] + 1
Prefix(w, c, n, m) ==
    /\ {w[i][3] : i \in Mine(w, c, n)} = 1 .. m
    /\ \A i, j \in Mine(w, c, n) : i < j => w[i][3] < w[j][3]
SendGood(c) == op[c].kind \in Sends /\ conn[c] # BadFd =>
    Prefix(wire[conn[c]], c, Number(c), MovedBy(c))

\* A call in progress has something left to do.
GoingOn(c) == pc[c] # "user" /\ op[c].kind \in Kinds => op[c].total < op[c].len

ShortGood(c) ==
    pc[c] = "user" /\ op[c].kind \in {"recv_all", "send_all"} /\ result[c].ret < op[c].len =>
       \/ conn[c] = BadFd \/ result[c].errno = "EEXIST"
       \/ op[c].kind = "recv_all" /\ fin[conn[c]] # "open"
       \/ op[c].kind = "send_all" /\ fin[conn[c]] = "reset"

Good(c) == RecvGood(c) /\ SendGood(c) /\ GoingOn(c) /\ ShortGood(c)

\* What is on the wire was sent by calls that were made.
Made(x) == \/ x[2] <= calls[x[1]]
           \/ x[2] = calls[x[1]] + 1 /\ pc[x[1]] # "user" /\ op[x[1]].kind \in Sends
WireInv == \A f \in ConnFd : \A i \in 1 .. Len(wire[f]) : Made(wire[f][i])

\* After the last connection start does not look for another one.
LateInv == late <= 1 /\ (late = 1 => ~ serving /\ start_at \in {"top", "returned"})

DataInv == (\A c \in coroutines : Good(c)) /\ (\A c, d \in coroutines : c # d => Apart(c, d))

ServInv ==
    /\ ServTypes /\ SwitchInv /\ FreshInv /\ OwnInv /\ AcceptInv
    /\ DataInv /\ WireInv /\ LateInv

-----------------------------------------------------------------------------
(* The coroutines *)

LEMMA ServerConstants ==
    /\ Acceptor \in Cid /\ BadFd \notin Fd /\ \A f \in Fd : f \in Nat
    /\ ConnFd \subseteq Fd /\ ListenFd \notin ConnFd
BY CoroutineConstants, EventConstants, SocketConstants DEF Acceptor, Cid, BadFd, ConnFd

\* Everything but create leaves the cids handed out and adds no coroutine.
LEMMA CoKeeps ==
    ASSUME CoInv, fault = "none",
           \/ UNCHANGED coVars
           \/ running # Main /\ yield
           \/ \E d \in Cid, byCid \in BOOLEAN : resume(d, byCid)
           \/ Die("null")
           \/ context_end
    PROVE  CoInv' /\ last_cid' = last_cid /\ coroutines' \subseteq coroutines
<1> USE MainIsNoCid
<1>1. CASE Die("null")
  <2>1. UNCHANGED <<switchVars, deferVars>> /\ fault' = "null"
    BY <1>1 DEF Die
  <2>2. CoTypeOK'
    BY <2>1 DEF CoInv, CoTypeOK, SwitchTypeOK, DeferTypeOK, switchVars, deferVars, Faults
  <2>3. SwitchInv'
    BY <2>1 DEF CoInv, SwitchInv, CurrentIsRunning, OriginsFormAChain, ControlCanReturn,
                FreshCids, switchVars, Active
  <2>4. last_cid' = last_cid /\ coroutines' = coroutines
    BY <2>1 DEF switchVars, coroutines
  <2> QED
    BY <2>2, <2>3, <2>4 DEF CoInv
<1>2. CASE \/ UNCHANGED coVars \/ (running # Main /\ yield) \/ context_end
           \/ \E d \in Cid, byCid \in BOOLEAN : resume(d, byCid)
  <2>1. [CoNext]_coVars
    BY <1>2 DEF CoNext
  <2>2. CoInv'
    BY <2>1, TypeStep, SwitchStep DEF CoInv
  <2>3. CASE UNCHANGED coVars
    BY <2>2, <2>3 DEF coVars, switchVars, coroutines
  <2>4. CASE running # Main /\ yield
    <3>1. running \in Cid
      BY <2>4 DEF CoInv, CoTypeOK, SwitchTypeOK, Stack
    <3>2. state' = [state EXCEPT ![running] = "suspended"] /\ state[running] = "active"
      BY <2>4, <3>1, YieldEffect
    <3>3. last_cid' = last_cid
      BY <2>4 DEF yield, Die, switchVars
    <3> QED
      BY <2>2, <3>1, <3>2, <3>3 DEF coroutines, CoInv, CoTypeOK, SwitchTypeOK
  <2>5. CASE context_end
    <3>1. running \in Cid
      BY <2>5 DEF CoInv, CoTypeOK, SwitchTypeOK, Stack, context_end
    <3>2. state' = [state EXCEPT ![running] = "ended"] /\ last_cid' = last_cid
      BY <2>5 DEF context_end
    <3> QED
      BY <2>2, <3>1, <3>2 DEF coroutines, CoInv, CoTypeOK, SwitchTypeOK
  <2>6. ASSUME NEW d \in Cid, NEW byCid \in BOOLEAN, resume(d, byCid)
        PROVE  last_cid' = last_cid /\ coroutines' \subseteq coroutines
    <3>1. CASE state[d] = "suspended"
      <4>1. state' = [state EXCEPT ![d] = "active"] /\ last_cid' = last_cid
        BY <2>6, <3>1 DEF resume, swap_in
      <4> QED
        BY <3>1, <4>1 DEF coroutines, CoInv, CoTypeOK, SwitchTypeOK
    <3>2. CASE state[d] # "suspended"
      BY <2>6, <3>2 DEF resume, Die, switchVars, coroutines
    <3> QED
      BY <3>1, <3>2
  <2> QED
    BY <1>2, <2>2, <2>3, <2>4, <2>5, <2>6
<1> QED
  BY <1>1, <1>2

\* create adds the next cid.
LEMMA CoCreates ==
    ASSUME CoInv, fault = "none", create
    PROVE  /\ CoInv' /\ last_cid \in Nat /\ last_cid' = last_cid + 1
           /\ last_cid + 1 \in Cid /\ running' = last_cid + 1
           /\ last_cid + 1 \notin coroutines
           /\ coroutines' = coroutines \cup {last_cid + 1}
<1>1. CoInv'
  BY TypeStep, SwitchStep DEF CoNext, CoInv
<1>2. /\ last_cid + 1 \in Cid /\ state[last_cid + 1] = "none"
      /\ state' = [state EXCEPT ![last_cid + 1] = "active"] /\ running' = last_cid + 1
  BY CreateEffect
<1>3. last_cid \in Nat /\ last_cid' = last_cid + 1
  BY CoroutineConstants DEF create, CoInv, CoTypeOK, SwitchTypeOK
<1> QED
  BY <1>1, <1>2, <1>3 DEF coroutines, CoInv, CoTypeOK, SwitchTypeOK

\* Who runs is a coroutine that was created.
LEMMA RunningLives ==
    ASSUME CoInv, NEW c \in Cid, running = c
    PROVE  c \in coroutines /\ c <= last_cid /\ last_cid \in Nat
<1>1. state[c] = "active"
  BY MainIsNoCid DEF CoInv, SwitchInv, CurrentIsRunning
<1>2. last_cid \in Nat /\ c \in Nat
  BY MainIsNoCid, CoroutineConstants DEF CoInv, CoTypeOK, SwitchTypeOK
<1>3. ~ (c > last_cid)
  BY <1>1 DEF CoInv, SwitchInv, FreshCids
<1> QED
  BY <1>1, <1>2, <1>3 DEF coroutines

-----------------------------------------------------------------------------
(* Returning from a call, and going on with it *)

\* The kinds of call are different from one another.
LEMMA KindsApart ==
    /\ Recvs \cap Sends = {} /\ Kinds \subseteq Recvs \cup Sends
    /\ "none" \notin Kinds /\ "accept" \notin Kinds
BY SocketConstants DEF Recvs, Sends

LEMMA ReturnEffect ==
    ASSUME ServTypes, NEW c \in Cid, NEW r \in Int, NEW why \in {"ok", "end", "EEXIST"},
           Return(c, r, why)
    PROVE  /\ pc'[c] = "user" /\ result'[c].ret = r /\ result'[c].errno = why /\ op' = op
           /\ op[c].kind # "accept" => calls'[c] = calls[c] + 1
           /\ op[c].kind = "accept" => calls'[c] = calls[c]
           /\ pc' \in [Cid -> {"user", "call", "wait_event"}] /\ calls' \in [Cid -> Nat]
           /\ result' \in [Cid -> [ret : Int, errno : {"ok", "end", "EEXIST"}]]
           /\ \A d \in Cid : d # c => /\ pc'[d] = pc[d] /\ calls'[d] = calls[d]
                                      /\ result'[d] = result[d]
<1> DEFINE e == [ret |-> r, errno |-> why]
<1>1. e \in [ret : Int, errno : {"ok", "end", "EEXIST"}] /\ e.ret = r /\ e.errno = why
  OBVIOUS
<1>2. /\ result' = [result EXCEPT ![c] = e] /\ pc' = [pc EXCEPT ![c] = "user"] /\ op' = op
      /\ calls' = IF op[c].kind = "accept" THEN calls ELSE [calls EXCEPT ![c] = @ + 1]
  BY DEF Return
<1> HIDE DEF e
<1>3. result'[c] = e /\ result' \in [Cid -> [ret : Int, errno : {"ok", "end", "EEXIST"}]]
      /\ \A d \in Cid : d # c => result'[d] = result[d]
  BY <1>1, <1>2 DEF ServTypes
<1>4. calls[c] + 1 \in Nat
  BY DEF ServTypes
<1> QED
  BY <1>1, <1>2, <1>3, <1>4 DEF ServTypes

\* What changes of a call c when it moves on by n bytes, and when it ends.
Others(c) ==
    /\ pc' \in [Cid -> {"user", "call", "wait_event"}] /\ calls' \in [Cid -> Nat]
    /\ op' \in [Cid -> [kind : Kinds \cup {"none", "accept"}, fd : Fd \cup {BadFd},
                        len : Nat, total : Nat]]
    /\ result' \in [Cid -> [ret : Int, errno : {"ok", "end", "EEXIST"}]]
    /\ \A d \in Cid : d # c => /\ pc'[d] = pc[d] /\ calls'[d] = calls[d]
                               /\ result'[d] = result[d] /\ op'[d] = op[d]
    /\ op'[c].kind = op[c].kind /\ op'[c].fd = op[c].fd /\ op'[c].len = op[c].len
    /\ op[c].kind = "accept" => op'[c].total = op[c].total
    /\ Number(c)' = Number(c)
    /\ pc'[c] # "user" => calls'[c] = calls[c] /\ pc'[c] = pc[c]
    /\ pc'[c] = "user" => calls'[c] = calls[c] + 1

LEMMA MovedEffect ==
    ASSUME ServTypes, NEW c \in Cid, NEW n \in Nat, pc[c] = "call", op[c].kind \in Kinds,
           op[c].total + n <= op[c].len, Moved(c, n)
    PROVE  /\ Others(c) /\ MovedBy(c)' = op[c].total + n /\ GoingOn(c)'
           /\ pc'[c] = "user" /\ op[c].kind \in {"recv_all", "send_all"} =>
                 result'[c].ret = op[c].len
<1>0. /\ op[c].total \in Nat /\ op[c].len \in Nat /\ calls[c] \in Nat
      /\ op[c].total + n \in Nat /\ op[c].total + n \in Int
      /\ op[c].kind # "accept"
  BY KindsApart DEF ServTypes
<1>1. CASE op[c].kind \in {"recv", "send"} \/ op[c].total + n = op[c].len
  <2> DEFINE r == op[c].total + n
  <2>1. Return(c, r, "ok")
    BY <1>1 DEF Moved
  <2> HIDE DEF r
  <2>r. r \in Nat /\ r \in Int
    BY <1>0 DEF r
  <2>2. /\ pc'[c] = "user" /\ result'[c].ret = r /\ op' = op
        /\ calls'[c] = calls[c] + 1
        /\ pc' \in [Cid -> {"user", "call", "wait_event"}] /\ calls' \in [Cid -> Nat]
        /\ result' \in [Cid -> [ret : Int, errno : {"ok", "end", "EEXIST"}]]
        /\ \A d \in Cid : d # c => /\ pc'[d] = pc[d] /\ calls'[d] = calls[d]
                                   /\ result'[d] = result[d]
    BY <1>0, <2>1, <2>r, ReturnEffect
  <2>3. Number(c)' = Number(c)
    BY <2>2 DEF Number
  <2>4. MovedBy(c)' = r
    BY <2>2, <2>r DEF MovedBy, Count
  <2>5. Others(c)
    BY <2>2, <2>3 DEF Others, ServTypes
  <2>6. op[c].kind \in {"recv_all", "send_all"} => r = op[c].len
    BY <1>1 DEF r
  <2> QED
    BY <2>2, <2>4, <2>5, <2>6 DEF GoingOn, r
<1>2. CASE ~ (op[c].kind \in {"recv", "send"} \/ op[c].total + n = op[c].len)
  <2>1. op' = [op EXCEPT ![c].total = @ + n] /\ UNCHANGED <<pc, calls, result>>
    BY <1>2 DEF Moved
  <2> DEFINE e == [op[c] EXCEPT !.total = @ + n]
  <2>2. /\ e \in [kind : Kinds \cup {"none", "accept"}, fd : Fd \cup {BadFd}, len : Nat, total : Nat]
        /\ e.kind = op[c].kind /\ e.fd = op[c].fd /\ e.len = op[c].len /\ e.total = op[c].total + n
    <3>1. op[c] \in [kind : Kinds \cup {"none", "accept"}, fd : Fd \cup {BadFd}, len : Nat, total : Nat]
      BY DEF ServTypes
    <3> QED
      BY <1>0, <3>1
  <2>3. op' = [op EXCEPT ![c] = e]
    BY <2>1
  <2> HIDE DEF e
  <2>4. op'[c] = e /\ \A d \in Cid : d # c => op'[d] = op[d]
    BY <2>3 DEF ServTypes
  <2>5. op' \in [Cid -> [kind : Kinds \cup {"none", "accept"}, fd : Fd \cup {BadFd},
                         len : Nat, total : Nat]]
    BY <2>2, <2>3 DEF ServTypes
  <2>6. Others(c)
    BY <1>0, <2>1, <2>2, <2>4, <2>5 DEF Others, ServTypes, Number
  <2>7. MovedBy(c)' = op[c].total + n
    BY <2>1, <2>2, <2>4 DEF MovedBy
  <2>8. op[c].total + n < op[c].len
    BY <1>0, <1>2
  <2> QED
    BY <2>1, <2>2, <2>4, <2>6, <2>7, <2>8 DEF GoingOn
<1> QED
  BY <1>1, <1>2

LEMMA EndedEffect ==
    ASSUME ServTypes, NEW c \in Cid, pc[c] = "call", op[c].kind \in Kinds,
           NEW r \in {0, -1}, NEW why \in {"end", "EEXIST"}, Return(c, Total(c, r), why)
    PROVE  /\ Others(c) /\ MovedBy(c)' = op[c].total /\ GoingOn(c)' /\ op' = op
           /\ pc'[c] = "user" /\ result'[c].errno = why
<1> DEFINE t == Total(c, r)
<1>0. op[c].total \in Nat /\ calls[c] \in Nat /\ op[c].kind # "accept"
  BY KindsApart DEF ServTypes
<1>1. t \in Int /\ Count(t) = op[c].total
  BY <1>0 DEF Total, Count
<1> HIDE DEF t
<1>2. /\ pc'[c] = "user" /\ result'[c].ret = t /\ result'[c].errno = why /\ op' = op
      /\ calls'[c] = calls[c] + 1
      /\ pc' \in [Cid -> {"user", "call", "wait_event"}] /\ calls' \in [Cid -> Nat]
      /\ result' \in [Cid -> [ret : Int, errno : {"ok", "end", "EEXIST"}]]
      /\ \A d \in Cid : d # c => /\ pc'[d] = pc[d] /\ calls'[d] = calls[d]
                                 /\ result'[d] = result[d]
  BY <1>0, <1>1, ReturnEffect DEF t
<1>3. Number(c)' = Number(c)
  BY <1>2 DEF Number
<1>4. Others(c)
  BY <1>2, <1>3 DEF Others, ServTypes
<1> QED
  BY <1>1, <1>2, <1>4 DEF MovedBy, GoingOn

-----------------------------------------------------------------------------
(* Frames: what the others notice of a step *)

\* Nothing that the properties say of d is touched.
Stays(d) ==
    /\ d \in coroutines
    /\ op'[d] = op[d] /\ buf'[d] = buf[d] /\ result'[d] = result[d]
    /\ calls'[d] = calls[d] /\ conn'[d] = conn[d]
    /\ pc'[d] = "user" <=> pc[d] = "user"
    /\ conn[d] # BadFd =>
          /\ taken[conn[d]] <= taken'[conn[d]]
          /\ fin[conn[d]] # "open" => fin'[conn[d]] = fin[conn[d]]
          /\ \A n, m \in Nat : Prefix(wire[conn[d]], d, n, m) => Prefix(wire'[conn[d]], d, n, m)

LEMMA StaysGood ==
    ASSUME ServTypes, ServTypes', NEW d \in Cid, Stays(d), Good(d)
    PROVE  Good(d)'
<1>0. /\ conn[d] \in ConnFd \cup {BadFd} /\ calls[d] \in Nat /\ op[d].total \in Nat
      /\ result[d].ret \in Int
  BY DEF ServTypes
<1>1. MovedBy(d)' = MovedBy(d) /\ Number(d)' = Number(d)
  BY DEF Stays, MovedBy, Number
<1>2. MovedBy(d) \in Nat /\ Number(d) \in Nat
  BY <1>0 DEF MovedBy, Number, Count
<1>3. RecvGood(d)'
  <2> SUFFICES ASSUME op[d].kind \in Recvs PROVE RecvGood(d)'
    BY DEF RecvGood, Stays
  <2>1. buf[d] \in Seq(Nat)
    BY DEF ServTypes
  <2>2. Len(buf[d]) \in Nat /\ \A i \in 1 .. Len(buf[d]) : buf[d][i] \in Nat
    BY <2>1
  <2>3. conn[d] # BadFd => taken[conn[d]] \in Nat /\ taken'[conn[d]] \in Nat
    BY <1>0 DEF ServTypes
  <2>4. conn[d] # BadFd => \A i \in 1 .. Len(buf[d]) : buf[d][i] <= taken'[conn[d]]
    BY <2>2, <2>3 DEF Stays, Good, RecvGood
  <2> QED
    BY <1>1, <2>4 DEF Stays, Good, RecvGood
<1>4. SendGood(d)'
  BY <1>1, <1>2 DEF Stays, Good, SendGood
<1>5. GoingOn(d)'
  BY DEF Stays, Good, GoingOn
<1>6. ShortGood(d)'
  BY <1>0 DEF Stays, Good, ShortGood
<1> QED
  BY <1>3, <1>4, <1>5, <1>6 DEF Good

\* A coroutine that has made no call is as it should be.
LEMMA NoneGood ==
    ASSUME NEW d \in Cid, op'[d].kind = "none"
    PROVE  Good(d)' /\ \A e \in Cid : Apart(d, e)' /\ Apart(e, d)'
BY KindsApart DEF Good, RecvGood, SendGood, GoingOn, ShortGood, Apart, Recvs, Sends

LEMMA ApartSymmetric ==
    ASSUME NEW c \in Cid, NEW d \in Cid, Apart(c, d)'
    PROVE  Apart(d, c)'
BY DEF Apart

\* A step that touches what the properties say of at most one coroutine.
LEMMA DataStep ==
    ASSUME ServTypes, ServTypes', DataInv, NEW c,
           \A d \in coroutines' \ {c} : Stays(d) \/ op'[d].kind = "none",
           c \in coroutines' => Good(c)' /\ \A d \in coroutines' \ {c} : Apart(c, d)'
    PROVE  DataInv'
<1>0. coroutines' \subseteq Cid /\ coroutines \subseteq Cid
  BY DEF coroutines
<1>1. ASSUME NEW d \in coroutines' PROVE Good(d)'
  <2>1. CASE d = c
    BY <2>1
  <2>2. CASE d # c /\ Stays(d)
    BY <1>0, <2>2, StaysGood DEF DataInv, Stays
  <2>3. CASE op'[d].kind = "none"
    BY <1>0, <2>3, NoneGood
  <2> QED
    BY <2>1, <2>2, <2>3
<1>2. ASSUME NEW d \in coroutines', NEW e \in coroutines', d # e PROVE Apart(d, e)'
  <2>1. CASE d = c
    BY <1>2, <2>1
  <2>2. CASE e = c
    <3>1. Apart(e, d)'
      BY <1>2, <2>2
    <3> QED
      BY <1>0, <3>1, ApartSymmetric
  <2>3. CASE d # c /\ e # c
    <3>1. CASE op'[d].kind = "none" \/ op'[e].kind = "none"
      BY <1>0, <3>1, NoneGood
    <3>2. CASE Stays(d) /\ Stays(e)
      <4>1. Apart(d, e)
        BY <1>2, <3>2 DEF DataInv, Stays
      <4> QED
        BY <3>2, <4>1 DEF Apart, Stays
    <3> QED
      BY <1>2, <2>3, <3>1, <3>2
  <2> QED
    BY <2>1, <2>2, <2>3
<1> QED
  BY <1>1, <1>2 DEF DataInv

\* A call that is made stays on record, as the call in progress or a past one.
Onward(c) ==
    \/ calls'[c] = calls[c] + 1
    \/ /\ calls'[c] = calls[c]
       /\ pc[c] # "user" /\ op[c].kind \in Sends => pc'[c] # "user" /\ op'[c].kind = op[c].kind

LEMMA MadeStays ==
    ASSUME ServTypes, ServTypes', NEW x \in Cid \X Nat \X Nat, Made(x), Onward(x[1])
    PROVE  Made(x)'
<1>1. x[1] \in Cid /\ x[2] \in Nat
  OBVIOUS
<1>2. calls[x[1]] \in Nat /\ calls'[x[1]] \in Nat
  BY <1>1 DEF ServTypes
<1> QED
  BY <1>1, <1>2 DEF Made, Onward

LEMMA WireStep ==
    ASSUME ServTypes, ServTypes', WireInv, \A c \in Cid : Onward(c),
           \A f \in ConnFd : wire'[f] = wire[f] \/ wire'[f] = << >>
    PROVE  WireInv'
<1> SUFFICES ASSUME NEW f \in ConnFd, NEW i \in 1 .. Len(wire'[f]), NEW z, z = wire'[f][i]
             PROVE  Made(z)'
  BY DEF WireInv, Made
<1>1. wire'[f] = wire[f]
  OBVIOUS
<1>2. wire[f] \in Seq(Cid \X Nat \X Nat)
  BY DEF ServTypes
<1>3. wire[f][i] \in Cid \X Nat \X Nat
  BY <1>1, <1>2
<1>4. Made(wire[f][i])
  BY <1>1 DEF WireInv, Made
<1>5. Onward(wire[f][i][1])
  BY <1>3
<1> DEFINE x == wire[f][i]
<1>6. x \in Cid \X Nat \X Nat /\ Made(x) /\ Onward(x[1])
  BY <1>3, <1>4, <1>5
<1> HIDE DEF x
<1>7. \A y \in Cid \X Nat \X Nat : Made(y) /\ Onward(y[1]) => Made(y)'
  BY MadeStays
<1> QED
  BY <1>1, <1>6, <1>7 DEF x

-----------------------------------------------------------------------------
(* Steps that make, continue and end no call *)

CoKept == last_cid' = last_cid /\ coroutines' \subseteq coroutines /\ conn' = conn

\* create, the new coroutine being given the connection f.
CoAdded(f) ==
    /\ last_cid \in Nat /\ last_cid' = last_cid + 1 /\ last_cid + 1 \in Cid
    /\ coroutines' = coroutines \cup {last_cid + 1}
    /\ conn' = [conn EXCEPT ![last_cid + 1] = f]
    /\ f \in (open \cap ConnFd) \cup {BadFd} /\ (last_cid + 1 = Acceptor => f = BadFd)

Quiet ==
    /\ CoInv' /\ timers' = {}
    /\ UNCHANGED <<op, buf, result, calls, open, taken, wire>>
    /\ pc' \in [Cid -> {"user", "call", "wait_event"}]
    /\ \A c \in Cid : pc'[c] = "user" <=> pc[c] = "user"
    /\ fin' \in [ConnFd -> {"open", "eof", "reset"}]
    /\ \A f \in ConnFd : fin[f] # "open" => fin'[f] = fin[f]
    /\ arrived' \in [ConnFd -> Nat] /\ drained' \in [ConnFd -> Nat]
    /\ serving' \in BOOLEAN /\ start_at' \in {"begin", "top", "accept", "returned"}
    /\ late' \in Nat
    /\ CoKept \/ \E f : CoAdded(f)

LEMMA QuietKeeps ==
    ASSUME ServInv, Quiet
    PROVE  ServTypes' /\ SwitchInv' /\ FreshInv' /\ OwnInv' /\ DataInv' /\ WireInv'
<1> USE DEF ServInv
<1>0. BadFd \notin Fd /\ ConnFd \subseteq Fd /\ Acceptor \in Cid /\ coroutines \subseteq Cid
      /\ coroutines' \subseteq Cid /\ \A c \in Cid : c \in Nat
  BY ServerConstants, MainIsNoCid DEF coroutines
<1>c. conn' \in [Cid -> ConnFd \cup {BadFd}]
  <2>1. CASE CoKept
    BY <2>1 DEF CoKept, ServTypes
  <2>2. CASE \E f : CoAdded(f)
    BY <2>2 DEF CoAdded, ServTypes
  <2> QED
    BY <2>1, <2>2 DEF Quiet
<1>1. ServTypes' /\ SwitchInv'
  <2>1. CoTypeOK' /\ SwitchInv'
    BY DEF Quiet, CoInv
  <2> QED
    BY <1>c, <2>1 DEF Quiet, ServTypes
<1>l. last_cid \in Nat
  BY CoroutineConstants DEF ServTypes, CoTypeOK, SwitchTypeOK
<1>2. FreshInv'
  <2> SUFFICES ASSUME NEW c \in Cid, c > last_cid'
               PROVE  op'[c].kind = "none" /\ pc'[c] = "user" /\ conn'[c] = BadFd
    BY DEF FreshInv
  <2>1. c > last_cid /\ conn'[c] = conn[c]
    <3>1. CASE CoKept
      BY <3>1 DEF CoKept
    <3>2. CASE \E f : CoAdded(f)
      <4>1. c > last_cid + 1 /\ c > last_cid
        BY <1>0, <1>l, <3>2 DEF CoAdded
      <4> QED
        BY <3>2, <4>1, <1>l, <1>0 DEF CoAdded, ServTypes
    <3> QED
      BY <3>1, <3>2 DEF Quiet
  <2> QED
    BY <2>1 DEF Quiet, FreshInv
\* Every coroutine is an old one with its connection, or a new one.
<1>3. ASSUME NEW c \in coroutines'
      PROVE  \/ c \in coroutines /\ conn'[c] = conn[c]
             \/ op[c].kind = "none" /\ conn'[c] \in open \cup {BadFd}
  <2>1. CASE CoKept
    BY <2>1 DEF CoKept
  <2>2. CASE \E f : CoAdded(f)
    <3>1. CASE c = last_cid + 1
      <4>1. c > last_cid
        BY <1>l, <3>1
      <4> QED
        BY <1>0, <2>2, <3>1, <4>1 DEF CoAdded, ServTypes, FreshInv
    <3>2. CASE c # last_cid + 1
      BY <1>0, <2>2, <3>2 DEF CoAdded, ServTypes
    <3> QED
      BY <3>1, <3>2
  <2> QED
    BY <2>1, <2>2 DEF Quiet
\* Whoever has called has the connection he called on.
<1>4. ASSUME NEW c \in Cid, op[c].kind # "none" PROVE conn'[c] = conn[c]
  <2>1. CASE CoKept
    BY <2>1 DEF CoKept
  <2>2. CASE \E f : CoAdded(f)
    <3>1. ~ (c > last_cid)
      BY <1>4 DEF FreshInv
    <3>2. c # last_cid + 1
      BY <1>l, <3>1
    <3> QED
      BY <2>2, <3>2 DEF CoAdded, ServTypes
  <2> QED
    BY <2>1, <2>2 DEF Quiet
<1>5. OwnInv'
  <2>1. \A c \in coroutines' : conn'[c] \in open' \cup {BadFd}
    BY <1>3 DEF Quiet, OwnInv
  <2>2. conn'[Acceptor] = BadFd
    <3>1. CASE CoKept
      BY <3>1 DEF CoKept, OwnInv
    <3>2. CASE \E f : CoAdded(f)
      BY <1>0, <3>2 DEF CoAdded, ServTypes, OwnInv
    <3> QED
      BY <3>1, <3>2 DEF Quiet
  <2> QED
    BY <1>4, <2>1, <2>2 DEF Quiet, OwnInv
<1>6. DataInv'
  <2>1. Main \notin coroutines'
    BY <1>0, MainIsNoCid
  <2>2. ASSUME NEW d \in coroutines' PROVE Stays(d) \/ op'[d].kind = "none"
    <3> SUFFICES ASSUME op'[d].kind # "none" PROVE Stays(d)
      OBVIOUS
    <3>1. d \in coroutines /\ conn'[d] = conn[d]
      BY <1>3 DEF Quiet
    <3>2. conn[d] # BadFd => conn[d] \in ConnFd
      BY <1>0 DEF ServTypes
    <3>3. conn[d] # BadFd => taken[conn[d]] <= taken'[conn[d]]
      BY <3>2 DEF Quiet, ServTypes
    <3> QED
      BY <1>0, <3>1, <3>2, <3>3 DEF Quiet, Stays
  <2> QED
    BY <1>1, <2>1, <2>2, DataStep
<1>7. WireInv'
  <2>1. \A c \in Cid : Onward(c)
    BY DEF Quiet, Onward
  <2>2. \A f \in ConnFd : wire'[f] = wire[f] \/ wire'[f] = << >>
    BY DEF Quiet
  <2> QED
    BY <1>1, <2>1, <2>2, WireStep
<1> QED
  BY <1>1, <1>2, <1>5, <1>6, <1>7

\* The rest of the invariant, where start does not go on.
LEMMA StartKeeps ==
    ASSUME ServInv, running # Acceptor, UNCHANGED <<start_at, late>>,
           pc'[Acceptor] = pc[Acceptor], serving' => serving
    PROVE  AcceptInv' /\ LateInv'
BY DEF ServInv, AcceptInv, LateInv, ServTypes

\* What of the state the steps of the calls and of the server leave alone.
LEMMA KernelKeeps ==
    ASSUME ServTypes, UNCHANGED kernelVars
    PROVE  /\ UNCHANGED <<open, taken, wire>> /\ fin' \in [ConnFd -> {"open", "eof", "reset"}]
           /\ \A f \in ConnFd : fin[f] # "open" => fin'[f] = fin[f]
           /\ arrived' \in [ConnFd -> Nat] /\ drained' \in [ConnFd -> Nat]
BY DEF ServTypes, kernelVars

LEMMA LoopKeeps ==
    ASSUME ServInv, LoopStep(ReadyFds), UNCHANGED <<sockVars, serverVars>>
    PROVE  ServInv'
<1>0. CoInv /\ ServTypes /\ timers = {}
  BY DEF ServInv, ServTypes, CoInv
<1>1. fault = "none" /\ running = Main /\ UNCHANGED callVars
  BY DEF LoopStep, run, wait_returns, epoll_wait, epoll_events, epoll_none, handle_io,
         handle_timer, run_timers, run_timers_done, OnMain, Goto
<1>2. timers' = {}
  BY <1>0 DEF LoopStep, run, wait_returns, epoll_wait, epoll_events, epoll_none, handle_io,
         handle_timer, run_timers, run_timers_done, OnMain, Goto, timerVars, Tops
<1>3. \/ create \/ UNCHANGED coVars \/ Die("null")
      \/ \E d \in Cid, byCid \in BOOLEAN : resume(d, byCid)
  <2>1. CASE run
    BY <2>1 DEF run
  <2>2. CASE wait_returns \/ epoll_wait \/ epoll_events(ReadyFds) \/ epoll_none(ReadyFds)
             \/ handle_timer \/ run_timers_done
    BY <2>2 DEF wait_returns, epoll_wait, epoll_events, epoll_none, handle_timer,
                run_timers_done, Goto
  <2>3. CASE handle_io
    BY <2>3 DEF handle_io
  <2>4. CASE run_timers
    BY <1>0, <2>4 DEF run_timers, Tops
  <2> QED
    BY <2>1, <2>2, <2>3, <2>4 DEF LoopStep
<1>4. CoInv' /\ (CoKept \/ \E f : CoAdded(f))
  <2>c. conn' = conn /\ conn \in [Cid -> ConnFd \cup {BadFd}]
    BY <1>0 DEF serverVars, ServTypes
  <2>1. CASE create
    <3>1. CoInv' /\ last_cid \in Nat /\ last_cid' = last_cid + 1 /\ last_cid + 1 \in Cid
          /\ coroutines' = coroutines \cup {last_cid + 1}
      BY <1>0, <1>1, <2>1, CoCreates
    <3>2. last_cid + 1 > last_cid
      BY <3>1
    <3>3. conn[last_cid + 1] = BadFd
      BY <3>1, <3>2 DEF ServInv, FreshInv
    <3>4. conn' = [conn EXCEPT ![last_cid + 1] = BadFd]
      BY <2>c, <3>3
    <3> QED
      BY <3>1, <3>4 DEF CoAdded
  <2>2. CASE ~ create
    <3>1. CoInv' /\ last_cid' = last_cid /\ coroutines' \subseteq coroutines
      BY <1>0, <1>1, <1>3, <2>2, CoKeeps
    <3> QED
      BY <2>c, <3>1 DEF CoKept
  <2> QED
    BY <2>1, <2>2
<1>5. Quiet
  <2>1. UNCHANGED <<op, buf, result, calls, pc, serving, start_at, late>> /\ UNCHANGED kernelVars
    BY <1>1 DEF sockVars, progVars, callVars, serverVars
  <2>2. /\ pc \in [Cid -> {"user", "call", "wait_event"}] /\ serving \in BOOLEAN /\ late \in Nat
        /\ start_at \in {"begin", "top", "accept", "returned"}
    BY <1>0 DEF ServTypes
  <2> QED
    BY <1>0, <1>2, <1>4, <2>1, <2>2, KernelKeeps DEF Quiet
<1>6. AcceptInv' /\ LateInv'
  <2>1. running # Acceptor
    BY <1>1, ServerConstants, MainIsNoCid
  <2>2. UNCHANGED <<start_at, late, pc, serving>>
    BY <1>1 DEF serverVars, callVars
  <2> QED
    BY <2>1, <2>2, StartKeeps
<1> QED
  BY <1>5, <1>6, QuietKeeps DEF ServInv

\* EAGAIN: the call waits, and is woken.
LEMMA WaitKeeps ==
    ASSUME ServInv, NEW c \in Cid, again(c) \/ woken(c), UNCHANGED serverVars
    PROVE  ServInv'
<1>0. CoInv /\ ServTypes /\ timers = {} /\ running # Main
  BY MainIsNoCid DEF ServInv, ServTypes, CoInv, again, woken, InCall
<1>1. /\ fault = "none" /\ running = c /\ pc[c] # "user" /\ UNCHANGED <<calls, sockVars>>
      /\ UNCHANGED timers
  BY DEF again, woken, InCall, wait_event, add_event, wait_event_woken, timerVars
<1>2. UNCHANGED coVars \/ yield
  BY DEF again, woken, wait_event, add_event, wait_event_woken
<1>3. \E where \in {"call", "wait_event"} : pc' = [pc EXCEPT ![c] = where]
  BY DEF again, woken, wait_event, add_event
<1>4. CoInv' /\ CoKept
  <2>1. CoInv' /\ last_cid' = last_cid /\ coroutines' \subseteq coroutines
    BY <1>0, <1>1, <1>2, CoKeeps
  <2> QED
    BY <2>1 DEF CoKept, serverVars
<1>5. Quiet
  <2>1. UNCHANGED <<op, buf, result, calls, serving, start_at, late>> /\ UNCHANGED kernelVars
    BY <1>1 DEF sockVars, progVars, serverVars
  <2>2. /\ pc \in [Cid -> {"user", "call", "wait_event"}] /\ serving \in BOOLEAN /\ late \in Nat
        /\ start_at \in {"begin", "top", "accept", "returned"}
    BY <1>0 DEF ServTypes
  <2>3. /\ pc' \in [Cid -> {"user", "call", "wait_event"}]
        /\ \A d \in Cid : pc'[d] = "user" <=> pc[d] = "user"
    BY <1>1, <1>3, <2>2
  <2> QED
    BY <1>0, <1>1, <1>4, <2>1, <2>2, <2>3, KernelKeeps DEF Quiet
<1>6. AcceptInv' /\ LateInv'
  <2>1. UNCHANGED <<start_at, late, serving>> /\ pc'[c] # "user" /\ Acceptor \in Cid
    BY <1>1, <1>3, ServerConstants DEF serverVars, ServInv, ServTypes
  <2>2. LateInv'
    BY <2>1 DEF LateInv, ServInv
  <2>3. CASE c = Acceptor
    BY <2>1, <2>2, <2>3 DEF AcceptInv
  <2>4. CASE c # Acceptor
    BY <1>1, <1>3, <2>1, <2>4, StartKeeps DEF ServInv, ServTypes
  <2> QED
    BY <2>3, <2>4
<1> QED
  BY <1>5, <1>6, QuietKeeps DEF ServInv

\* The steps of start and of shutdown between two calls.
LEMMA StartStep ==
    ASSUME ServInv, start_begin \/ start_return \/ \E c \in Cid : shutdown(c)
    PROVE  ServInv'
<1>0. CoInv /\ ServTypes /\ timers = {} /\ fault = "none"
  BY DEF ServInv, ServTypes, CoInv, start_begin, start_return, shutdown, InUserCode, Handling
<1>1. UNCHANGED <<eventVars, sockVars, conn, late>>
  BY DEF start_begin, start_return, shutdown
<1>2. UNCHANGED <<coVars, pc, calls, timers, op, buf, result, conn, late>> /\ UNCHANGED kernelVars
  BY <1>1 DEF eventVars, sockVars, progVars, callVars, timerVars
<1>3. serving' \in BOOLEAN /\ start_at' \in {"begin", "top", "accept", "returned"}
  BY <1>0 DEF start_begin, start_return, shutdown, ServTypes
<1>4. CoInv' /\ CoKept
  <2>1. CoInv' /\ last_cid' = last_cid /\ coroutines' \subseteq coroutines
    BY <1>0, <1>2, CoKeeps
  <2> QED
    BY <1>2, <2>1 DEF CoKept
<1>5. Quiet
  <2>1. pc \in [Cid -> {"user", "call", "wait_event"}] /\ late \in Nat
    BY <1>0 DEF ServTypes
  <2> QED
    BY <1>0, <1>2, <1>3, <1>4, <2>1, KernelKeeps DEF Quiet
<1>6. AcceptInv' /\ LateInv'
  <2>1. CASE start_begin
    <3>1. start_at = "begin" /\ start_at' = "top"
      BY <2>1 DEF start_begin
    <3>2. late # 1 /\ late <= 1
      BY <3>1 DEF ServInv, LateInv
    <3> QED
      BY <1>2, <3>1, <3>2 DEF AcceptInv, LateInv
  <2>2. CASE start_return
    BY <1>2, <2>2 DEF start_return, AcceptInv, LateInv, ServInv
  <2>3. CASE \E c \in Cid : shutdown(c)
    <3>1. running # Acceptor /\ UNCHANGED start_at /\ ~ serving'
      BY <2>3 DEF shutdown, Handling, InUserCode
    <3> QED
      BY <1>2, <3>1, StartKeeps
  <2> QED
    BY <2>1, <2>2, <2>3
<1> QED
  BY <1>5, <1>6, QuietKeeps DEF ServInv

\* A coroutine is created for a connection, by start or by a handler that
\* shares its own.
LEMMA CreateStep ==
    ASSUME ServInv, start_serve \/ \E c \in Cid : handler_share(c)
    PROVE  ServInv'
<1>0. CoInv /\ ServTypes /\ timers = {} /\ fault = "none" /\ create
  BY DEF ServInv, ServTypes, CoInv, start_serve, handler_share, InUserCode, Handling
<1>1. UNCHANGED <<callVars, timerVars, sockVars, serving>>
  BY DEF start_serve, handler_share
<1>2. UNCHANGED <<pc, calls, timers, op, buf, result, serving>> /\ UNCHANGED kernelVars
  BY <1>1 DEF sockVars, progVars, callVars, timerVars
<1>3. CoInv' /\ last_cid \in Nat /\ last_cid' = last_cid + 1 /\ last_cid + 1 \in Cid
      /\ coroutines' = coroutines \cup {last_cid + 1} /\ last_cid + 1 \notin coroutines
      /\ running' = last_cid + 1
  BY <1>0, CoCreates
<1>4. Acceptor # last_cid + 1 /\ running # last_cid + 1 /\ running \in Cid
  <2>1. running \in Cid
    BY ServerConstants DEF start_serve, handler_share, InUserCode, Handling
  <2>2. running \in coroutines /\ running <= last_cid
    BY <1>0, <2>1, RunningLives
  <2>3. Acceptor = 1 /\ running \in Nat /\ running # 0
    BY <2>1, MainIsNoCid DEF Acceptor, Main
  <2> QED
    BY <1>3, <2>1, <2>2, <2>3
<1>5. ASSUME start_serve
      PROVE  CoAdded(result[Acceptor].ret) /\ start_at' = "top" /\ start_at = "accept"
             /\ late' = (IF serving THEN late ELSE late + 1)
  <2>1. /\ InUserCode(Acceptor) /\ start_at = "accept" /\ start_at' = "top"
        /\ conn' = [conn EXCEPT ![last_cid + 1] = result[Acceptor].ret]
        /\ late' = IF serving THEN late ELSE late + 1
    BY <1>5 DEF start_serve
  <2>2. result[Acceptor].ret \in (open \cap ConnFd) \cup {BadFd}
    BY <2>1 DEF ServInv, AcceptInv, InUserCode
  <2> QED
    BY <1>3, <1>4, <2>1, <2>2 DEF CoAdded
<1>6. ASSUME NEW c \in Cid, handler_share(c)
      PROVE  CoAdded(conn[c]) /\ UNCHANGED <<start_at, late>> /\ running # Acceptor
  <2>1. /\ conn' = [conn EXCEPT ![last_cid + 1] = conn[c]] /\ conn[c] \in open
        /\ UNCHANGED <<start_at, late>> /\ running # Acceptor
    BY <1>6 DEF handler_share, Handling, InUserCode
  <2>2. conn[c] \in (open \cap ConnFd) \cup {BadFd}
    BY <1>0, <2>1 DEF ServTypes
  <2> QED
    BY <1>3, <1>4, <2>1, <2>2 DEF CoAdded
<1>7. start_at' \in {"begin", "top", "accept", "returned"} /\ late' \in Nat
  BY <1>0, <1>5, <1>6 DEF ServTypes
<1>8. Quiet
  <2>1. pc \in [Cid -> {"user", "call", "wait_event"}] /\ serving \in BOOLEAN
    BY <1>0 DEF ServTypes
  <2>2. \E f : CoAdded(f)
    BY <1>5, <1>6
  <2> QED
    BY <1>0, <1>2, <1>3, <1>7, <2>1, <2>2, KernelKeeps DEF Quiet
<1>9. AcceptInv' /\ LateInv'
  <2>1. CASE start_serve
    <3>1. late # 1 /\ late <= 1 /\ late \in Nat
      BY <1>0, <1>5, <2>1 DEF ServInv, LateInv, ServTypes
    <3>2. late' <= 1 /\ (late' = 1 => ~ serving)
      BY <1>5, <2>1, <3>1
    <3> QED
      BY <1>2, <1>5, <2>1, <3>2 DEF AcceptInv, LateInv
  <2>2. CASE \E c \in Cid : handler_share(c)
    BY <1>2, <1>6, <2>2, StartKeeps
  <2> QED
    BY <2>1, <2>2
<1> QED
  BY <1>8, <1>9, QuietKeeps DEF ServInv

\* A coroutine ends, or a peer does something.
LEMMA EndStep ==
    ASSUME ServInv, NEW c \in Cid, server_end(c)
    PROVE  ServInv'
<1>0. CoInv /\ ServTypes /\ timers = {} /\ fault = "none" /\ running = c /\ context_end
  BY DEF ServInv, ServTypes, CoInv, server_end, InUserCode
<1>1. UNCHANGED <<callVars, timerVars, sockVars, serverVars>>
  BY DEF server_end
<1>2. /\ UNCHANGED <<pc, calls, timers, op, buf, result, serving, start_at, conn, late>>
      /\ UNCHANGED kernelVars
  BY <1>1 DEF sockVars, progVars, callVars, timerVars, serverVars
<1>3. CoInv' /\ CoKept
  <2>1. CoInv' /\ last_cid' = last_cid /\ coroutines' \subseteq coroutines
    BY <1>0, CoKeeps
  <2> QED
    BY <1>2, <2>1 DEF CoKept
<1>4. Quiet
  <2>1. /\ pc \in [Cid -> {"user", "call", "wait_event"}] /\ serving \in BOOLEAN /\ late \in Nat
        /\ start_at \in {"begin", "top", "accept", "returned"}
    BY <1>0 DEF ServTypes
  <2> QED
    BY <1>0, <1>2, <1>3, <2>1, KernelKeeps DEF Quiet
<1>5. AcceptInv' /\ LateInv'
  <2>1. CASE c = Acceptor
    <3>1. start_at = "returned"
      BY <2>1 DEF server_end
    <3> QED
      BY <1>2, <3>1 DEF AcceptInv, LateInv, ServInv
  <2>2. CASE c # Acceptor
    BY <1>0, <1>2, <2>2, StartKeeps
  <2> QED
    BY <2>1, <2>2
<1> QED
  BY <1>4, <1>5, QuietKeeps DEF ServInv

LEMMA PeersStep ==
    ASSUME ServInv, Peers
    PROVE  ServInv'
<1>0. CoInv /\ ServTypes /\ timers = {} /\ fault = "none"
  BY DEF ServInv, ServTypes, CoInv, Peers, peer_connects, peer_sends, peer_drains, peer_ends, Alive
<1>1. UNCHANGED <<eventVars, progVars, serverVars, open, taken, wire>>
  BY DEF Peers, peer_connects, peer_sends, peer_drains, peer_ends
<1>2. UNCHANGED <<coVars, running, pc, calls, timers, op, buf, result, serving, start_at, conn, late>>
  BY <1>1 DEF eventVars, coVars, switchVars, progVars, callVars, timerVars, serverVars
<1>3. CoInv' /\ CoKept
  <2>1. CoInv' /\ last_cid' = last_cid /\ coroutines' \subseteq coroutines
    BY <1>0, <1>2, CoKeeps
  <2> QED
    BY <1>2, <2>1 DEF CoKept
<1> DEFINE Kernel == /\ fin' \in [ConnFd -> {"open", "eof", "reset"}]
                     /\ \A f \in ConnFd : fin[f] # "open" => fin'[f] = fin[f]
                     /\ arrived' \in [ConnFd -> Nat] /\ drained' \in [ConnFd -> Nat]
<1>4. Kernel
  <2>0. /\ fin \in [ConnFd -> {"open", "eof", "reset"}]
        /\ arrived \in [ConnFd -> Nat] /\ drained \in [ConnFd -> Nat]
    BY <1>0 DEF ServTypes
  <2>1. CASE peer_connects
    BY <2>0, <2>1 DEF peer_connects
  <2>2. ASSUME NEW f \in ConnFd, peer_sends(f) PROVE Kernel
    BY <2>0, <2>2 DEF peer_sends
  <2>3. ASSUME NEW f \in ConnFd, peer_drains(f) PROVE Kernel
    <3>1. wire[f] \in Seq(Cid \X Nat \X Nat)
      BY <1>0 DEF ServTypes
    <3>2. Len(wire[f]) \in Nat
      BY <3>1
    <3> QED
      BY <2>0, <2>3, <3>2 DEF peer_drains
  <2>4. ASSUME NEW f \in ConnFd, NEW how \in {"eof", "reset"}, peer_ends(f, how) PROVE Kernel
    BY <2>0, <2>4 DEF peer_ends
  <2> QED
    BY <2>1, <2>2, <2>3, <2>4 DEF Peers
<1>5. Quiet
  <2>1. /\ pc \in [Cid -> {"user", "call", "wait_event"}] /\ serving \in BOOLEAN /\ late \in Nat
        /\ start_at \in {"begin", "top", "accept", "returned"}
    BY <1>0 DEF ServTypes
  <2> QED
    BY <1>0, <1>1, <1>2, <1>3, <1>4, <2>1 DEF Quiet
<1>6. AcceptInv' /\ LateInv'
  BY <1>1, <1>2 DEF AcceptInv, LateInv, ServInv
<1> QED
  BY <1>5, <1>6, QuietKeeps DEF ServInv

-----------------------------------------------------------------------------
(* Making a call *)

LEMMA SameCoroutines ==
    ASSUME ServInv, UNCHANGED coVars
    PROVE  /\ CoTypeOK' /\ SwitchInv' /\ coroutines' = coroutines /\ last_cid' = last_cid
           /\ running' = running /\ coroutines \subseteq Cid
<1>1. UNCHANGED switchVars /\ UNCHANGED deferVars /\ UNCHANGED fault
  BY DEF coVars
<1>2. CoTypeOK'
  BY <1>1 DEF ServInv, ServTypes, CoTypeOK, SwitchTypeOK, DeferTypeOK, switchVars, deferVars
<1>3. SwitchInv'
  BY <1>1 DEF ServInv, SwitchInv, CurrentIsRunning, OriginsFormAChain, ControlCanReturn,
              FreshCids, switchVars, Active
<1> QED
  BY <1>1, <1>2, <1>3 DEF switchVars, coroutines

\* A coroutine that nobody else's step is about.
LEMMA OthersStay ==
    ASSUME ServInv, NEW c \in Cid, NEW d \in coroutines, d # c, coroutines' = coroutines,
           \A e \in Cid : e # c => /\ op'[e] = op[e] /\ buf'[e] = buf[e] /\ result'[e] = result[e]
                                   /\ calls'[e] = calls[e] /\ conn'[e] = conn[e] /\ pc'[e] = pc[e],
           conn[d] # BadFd =>
              /\ taken[conn[d]] <= taken'[conn[d]]
              /\ fin'[conn[d]] = fin[conn[d]]
              /\ \A n, m \in Nat : Prefix(wire[conn[d]], d, n, m) => Prefix(wire'[conn[d]], d, n, m)
    PROVE  Stays(d)
<1>1. d \in Cid
  BY DEF coroutines
<1> QED
  BY <1>1 DEF Stays

LEMMA CallStep ==
    ASSUME ServInv, NEW c \in Cid, NEW kind \in Kinds \cup {"accept"}, NEW len \in Nat,
           NEW f \in Fd \cup {BadFd}, Call(c, kind, f, len), UNCHANGED conn,
           c = Acceptor => kind = "accept",
           c # Acceptor => kind \in Kinds /\ f = conn[c] /\ len > 0,
           UNCHANGED late, serving' \in BOOLEAN,
           start_at' \in {"begin", "top", "accept", "returned"}
    PROVE  /\ ServTypes' /\ SwitchInv' /\ FreshInv' /\ OwnInv' /\ DataInv' /\ WireInv'
           /\ running' = running /\ pc'[c] = "call"
           /\ \A d \in Cid : d # c => pc'[d] = pc[d]
<1> DEFINE e == [kind |-> kind, fd |-> f, len |-> len, total |-> 0]
<1>0. /\ ServTypes /\ FreshInv /\ OwnInv /\ DataInv /\ WireInv /\ CoInv
      /\ Acceptor \in Cid /\ fault = "none" /\ running = c /\ pc[c] = "user"
  BY ServerConstants DEF ServInv, Call, CoInv, ServTypes
<1>1. /\ pc' = [pc EXCEPT ![c] = "call"] /\ op' = [op EXCEPT ![c] = e]
      /\ buf' = [buf EXCEPT ![c] = << >>] /\ UNCHANGED <<coVars, calls, timerVars, result>>
      /\ UNCHANGED kernelVars
  BY DEF Call
<1>e. /\ e \in [kind : Kinds \cup {"none", "accept"}, fd : Fd \cup {BadFd}, len : Nat, total : Nat]
      /\ e.kind = kind /\ e.fd = f /\ e.len = len /\ e.total = 0
  OBVIOUS
<1> HIDE DEF e
<1>2. /\ CoTypeOK' /\ SwitchInv' /\ coroutines' = coroutines /\ last_cid' = last_cid
      /\ running' = running /\ coroutines \subseteq Cid
  BY <1>1, SameCoroutines
<1>3. UNCHANGED <<open, taken, wire, fin, arrived, drained, timers>>
  BY <1>1 DEF kernelVars, timerVars
<1>4. /\ op'[c] = e /\ pc'[c] = "call" /\ buf'[c] = << >> /\ buf' \in [Cid -> Seq(Nat)]
      /\ \A d \in Cid : d # c => op'[d] = op[d] /\ pc'[d] = pc[d] /\ buf'[d] = buf[d]
  BY <1>0, <1>1 DEF ServTypes
<1>5. ServTypes'
  BY <1>0, <1>1, <1>2, <1>3, <1>4, <1>e DEF ServTypes
<1>6. FreshInv'
  <2>1. c <= last_cid /\ last_cid \in Nat /\ c \in Nat
    BY <1>0, RunningLives, MainIsNoCid
  <2>2. \A d \in Cid : d > last_cid => d # c
    BY <2>1
  <2> QED
    BY <1>0, <1>2, <1>4, <2>2 DEF FreshInv
<1>7. OwnInv'
  BY <1>0, <1>2, <1>3, <1>4, <1>e DEF OwnInv
<1>8. Good(c)' /\ \A d \in coroutines : Apart(c, d)'
  <2>1. MovedBy(c)' = 0 /\ Number(c)' = calls[c] + 1
    BY <1>1, <1>4, <1>e DEF MovedBy, Number
  <2>2. RecvGood(c)' /\ \A d \in coroutines : Apart(c, d)'
    BY <1>4, <2>1 DEF RecvGood, Apart
  <2>3. SendGood(c)'
    <3> SUFFICES ASSUME conn[c] # BadFd PROVE Prefix(wire[conn[c]], c, calls[c] + 1, 0)
      BY <1>3, <2>1 DEF SendGood
    <3> DEFINE w == wire[conn[c]]
    <3>1. conn[c] \in ConnFd /\ calls[c] \in Nat
      BY <1>0 DEF ServTypes
    <3>2. w \in Seq(Cid \X Nat \X Nat)
      BY <1>0, <3>1 DEF ServTypes
    <3>3. \A i \in 1 .. Len(w) : w[i] \in Cid \X Nat \X Nat /\ Made(w[i])
      BY <1>0, <3>1, <3>2 DEF WireInv
    <3> HIDE DEF w
    <3>4. Mine(w, c, calls[c] + 1) = {}
      <4> SUFFICES ASSUME NEW i \in 1 .. Len(w), w[i][1] = c, w[i][2] = calls[c] + 1 PROVE FALSE
        BY DEF Mine
      <4>1. w[i][2] <= calls[c]
        BY <1>0, <3>3 DEF Made
      <4> QED
        BY <3>1, <4>1
    <3> QED
      BY <3>4 DEF Prefix, w
  <2>4. GoingOn(c)'
    <3>1. kind \in Kinds => c # Acceptor
      BY KindsApart
    <3> QED
      BY <1>4, <1>e, <3>1 DEF GoingOn
  <2>5. ShortGood(c)'
    BY <1>4 DEF ShortGood
  <2> QED
    BY <2>2, <2>3, <2>4, <2>5 DEF Good
<1>9. ASSUME NEW d \in coroutines, d # c PROVE Stays(d)
  <2>1. conn[d] # BadFd => conn[d] \in ConnFd
    BY <1>0, <1>2 DEF ServTypes
  <2>2. conn[d] # BadFd => taken[conn[d]] <= taken'[conn[d]]
    BY <1>0, <1>3, <2>1 DEF ServTypes
  <2> QED
    BY <1>1, <1>2, <1>3, <1>4, <1>9, <2>2, OthersStay
<1>10. DataInv'
  BY <1>0, <1>2, <1>5, <1>8, <1>9, DataStep
<1>11. WireInv'
  <2>1. \A d \in Cid : Onward(d)
    BY <1>0, <1>1, <1>4 DEF Onward
  <2> QED
    BY <1>0, <1>3, <1>5, <2>1, WireStep
<1> QED
  BY <1>2, <1>4, <1>5, <1>6, <1>7, <1>10, <1>11

LEMMA CallsKeep ==
    ASSUME ServInv, start_accept \/ \E c \in Cid : handler_call(c)
    PROVE  ServInv'
<1>0. ServTypes /\ Acceptor \in Cid /\ ListenFd \in Fd /\ BadFd \notin Fd
  BY ServerConstants, SocketConstants DEF ServInv
<1>1. CASE start_accept
  <2>1. /\ Call(Acceptor, "accept", ListenFd, 0) /\ start_at = "top" /\ start_at' = "accept"
        /\ serving /\ UNCHANGED <<serving, conn, late>>
    BY <1>1 DEF start_accept
  <2>2. serving' \in BOOLEAN
    BY <1>0, <2>1 DEF ServTypes
  <2>3. /\ ServTypes' /\ SwitchInv' /\ FreshInv' /\ OwnInv' /\ DataInv' /\ WireInv'
        /\ pc'[Acceptor] = "call"
    BY <1>0, <2>1, <2>2, CallStep
  <2>4. AcceptInv' /\ LateInv'
    BY <2>1, <2>3 DEF AcceptInv, LateInv, ServInv
  <2> QED
    BY <2>3, <2>4 DEF ServInv
<1>2. CASE \E c \in Cid : handler_call(c)
  <2>1. PICK c \in Cid : handler_call(c)
    BY <1>2
  <2>2. PICK kind \in Kinds, len \in Lens : Call(c, kind, conn[c], len)
    BY <2>1 DEF handler_call
  <2>3. /\ UNCHANGED <<serving, start_at, conn, late>> /\ c # Acceptor /\ running = c
    BY <2>1 DEF handler_call, Handling, InUserCode, serverVars
  <2>4. len \in Nat /\ len > 0
    BY SocketConstants
  <2>5. /\ conn[c] \in Fd \cup {BadFd} /\ serving' \in BOOLEAN
        /\ start_at' \in {"begin", "top", "accept", "returned"}
    BY <1>0, <2>3, ServerConstants DEF ServTypes
  <2>6. /\ ServTypes' /\ SwitchInv' /\ FreshInv' /\ OwnInv' /\ DataInv' /\ WireInv'
        /\ pc'[Acceptor] = pc[Acceptor]
    BY <1>0, <2>2, <2>3, <2>4, <2>5, CallStep
  <2>7. AcceptInv' /\ LateInv'
    BY <2>3, <2>6, StartKeeps
  <2> QED
    BY <2>6, <2>7 DEF ServInv
<1> QED
  BY <1>1, <1>2

-----------------------------------------------------------------------------
(* Receiving and sending *)

\* One system call of c moves bytes or ends the call.
Turn(c) ==
    /\ running = c /\ fault = "none" /\ pc[c] = "call" /\ op[c].kind \in Kinds
    /\ Others(c)
    /\ UNCHANGED <<coVars, timers, conn, serving, start_at, late, open, fin, arrived, drained>>
    /\ buf' \in [Cid -> Seq(Nat)] /\ taken' \in [ConnFd -> Nat]
    /\ wire' \in [ConnFd -> Seq(Cid \X Nat \X Nat)]
    /\ \A d \in Cid : d # c => buf'[d] = buf[d]

LEMMA TurnKeeps ==
    ASSUME ServInv, NEW c \in Cid, Turn(c)
    PROVE  /\ ServTypes' /\ SwitchInv' /\ FreshInv' /\ OwnInv' /\ AcceptInv' /\ LateInv'
           /\ coroutines' = coroutines /\ coroutines \subseteq Cid /\ c \in coroutines
           /\ op[c].fd = conn[c] /\ conn[c] \in (open \cap ConnFd) \cup {BadFd}
           /\ Good(c) /\ op[c].total < op[c].len
<1>0. /\ ServTypes /\ FreshInv /\ OwnInv /\ DataInv /\ CoInv /\ Acceptor \in Cid
  BY ServerConstants DEF ServInv, CoInv, ServTypes
<1>1. UNCHANGED coVars
  BY DEF Turn
<1>2. /\ CoTypeOK' /\ SwitchInv' /\ coroutines' = coroutines /\ last_cid' = last_cid
      /\ running' = running /\ coroutines \subseteq Cid
  BY <1>1, SameCoroutines
<1>3. c \in coroutines /\ c <= last_cid /\ last_cid \in Nat /\ c \in Nat
  BY <1>0, RunningLives, MainIsNoCid DEF Turn
<1>4. c # Acceptor /\ op[c].kind # "none"
  BY <1>0, KindsApart DEF Turn, OwnInv
<1>5. ServTypes'
  BY <1>0, <1>2 DEF Turn, Others, ServTypes
<1>6. FreshInv'
  <2>1. \A d \in Cid : d > last_cid => d # c
    BY <1>3
  <2>2. conn' = conn /\ \A d \in Cid : d # c => op'[d] = op[d] /\ pc'[d] = pc[d]
    BY DEF Turn, Others
  <2> QED
    BY <1>0, <1>2, <2>1, <2>2 DEF FreshInv
<1>7. OwnInv'
  <2>1. op'[c].kind = op[c].kind /\ op'[c].fd = op[c].fd /\ conn' = conn /\ open' = open
        /\ \A d \in Cid : d # c => op'[d] = op[d]
    BY DEF Turn, Others
  <2> QED
    BY <1>0, <1>2, <1>4, <2>1 DEF OwnInv
<1>8. AcceptInv' /\ LateInv'
  BY <1>0, <1>4, StartKeeps DEF Turn, Others
<1>9. op[c].fd = conn[c] /\ conn[c] \in (open \cap ConnFd) \cup {BadFd}
  BY <1>0, <1>3, <1>4 DEF OwnInv, ServTypes
<1>10. Good(c) /\ op[c].total < op[c].len
  BY <1>0, <1>3 DEF DataInv, Good, GoingOn, Turn
<1> QED
  BY <1>2, <1>3, <1>5, <1>6, <1>7, <1>8, <1>9, <1>10

\* The call ends without moving a byte.
LEMMA EndKeeps ==
    ASSUME ServInv, NEW c \in Cid, Turn(c), UNCHANGED <<buf, taken, wire>>,
           MovedBy(c)' = op[c].total, GoingOn(c)', pc'[c] = "user",
           \/ conn[c] = BadFd \/ result'[c].errno = "EEXIST"
           \/ op[c].kind \in Recvs /\ fin[conn[c]] # "open"
           \/ op[c].kind \in Sends /\ fin[conn[c]] = "reset"
    PROVE  ServInv'
<1>0. /\ ServTypes' /\ SwitchInv' /\ FreshInv' /\ OwnInv' /\ AcceptInv' /\ LateInv'
      /\ coroutines' = coroutines /\ coroutines \subseteq Cid /\ c \in coroutines
      /\ op[c].fd = conn[c] /\ conn[c] \in (open \cap ConnFd) \cup {BadFd}
      /\ Good(c) /\ ServTypes /\ DataInv /\ WireInv
  BY TurnKeeps DEF ServInv
<1>1. /\ op'[c].kind = op[c].kind /\ op'[c].len = op[c].len /\ Number(c)' = Number(c)
      /\ conn' = conn /\ fin' = fin /\ calls'[c] = calls[c] + 1 /\ MovedBy(c) = op[c].total
      /\ \A d \in Cid : d # c => /\ pc'[d] = pc[d] /\ calls'[d] = calls[d]
                                 /\ result'[d] = result[d] /\ op'[d] = op[d]
  BY DEF Turn, Others, MovedBy
<1>2. Good(c)'
  <2>1. RecvGood(c)'
    BY <1>0, <1>1 DEF Good, RecvGood
  <2>2. SendGood(c)'
    BY <1>0, <1>1 DEF Good, SendGood
  <2>3. ShortGood(c)'
    BY <1>1 DEF ShortGood, Recvs, Sends
  <2> QED
    BY <2>1, <2>2, <2>3 DEF Good
<1>3. ASSUME NEW d \in coroutines, d # c PROVE Apart(c, d)'
  <2>1. Apart(c, d)
    BY <1>0, <1>3 DEF DataInv
  <2>2. op'[d] = op[d]
    BY <1>0, <1>1, <1>3
  <2> QED
    BY <1>1, <2>1, <2>2 DEF Apart
<1>4. ASSUME NEW d \in coroutines, d # c PROVE Stays(d)
  <2>1. conn[d] # BadFd => taken[conn[d]] <= taken'[conn[d]]
    <3>1. conn[d] # BadFd => taken[conn[d]] \in Nat
      BY <1>0 DEF ServTypes
    <3> QED
      BY <3>1
  <2> QED
    BY <1>0, <1>1, <1>4, <2>1, OthersStay
<1>5. DataInv'
  BY <1>0, <1>2, <1>3, <1>4, DataStep
<1>6. WireInv'
  <2>1. \A d \in Cid : Onward(d)
    BY <1>1 DEF Onward
  <2> QED
    BY <1>0, <2>1, WireStep
<1> QED
  BY <1>0, <1>5, <1>6 DEF ServInv

\* A buffer of m bytes, filled up with the n bytes after the first t of a stream.
Fill(b, m, n, t) == SubSeq(b, 1, m) \o [i \in 1 .. n |-> t + i]

IsFilled(s, b, m, n, t) ==
    /\ s \in Seq(Nat) /\ Len(s) = m + n
    /\ \A i \in 1 .. m : s[i] = b[i]
    /\ \A i \in 1 .. (m + n) : i > m => s[i] = t + (i - m)

LEMMA Filled ==
    ASSUME NEW b \in Seq(Nat), NEW m \in Nat, m = Len(b), NEW n \in Nat, NEW t \in Nat
    PROVE  IsFilled(Fill(b, m, n, t), b, m, n, t)
<1> DEFINE s == Fill(b, m, n, t)
<1> DEFINE h == [i \in 1 .. n |-> t + i]
<1>1. m \in Nat
  OBVIOUS
<1>2. SubSeq(b, 1, m) = b
  BY <1>1, SubSeqFull
<1>3. h \in Seq(Nat) /\ Len(h) = n /\ \A i \in 1 .. n : h[i] = t + i
  OBVIOUS
<1> HIDE DEF h
<1>4. s = b \o h
  BY <1>2 DEF h, Fill
<1> HIDE DEF s
<1>5. /\ b \o h \in Seq(Nat) /\ Len(b \o h) = m + n
      /\ \A i \in 1 .. (m + n) : (b \o h)[i] = IF i <= m THEN b[i] ELSE h[i - m]
  BY <1>1, <1>3, ConcatProperties
<1>6. ASSUME NEW i \in 1 .. (m + n), i > m PROVE s[i] = t + (i - m)
  <2>1. i - m \in 1 .. n /\ ~ (i <= m)
    BY <1>1, <1>6
  <2> QED
    BY <1>3, <1>4, <1>5, <2>1
<1>7. ASSUME NEW i \in 1 .. m PROVE s[i] = b[i]
  <2>1. i \in 1 .. (m + n) /\ i <= m
    BY <1>1, <1>7
  <2> QED
    BY <1>4, <1>5, <2>1
<1>8. s \in Seq(Nat) /\ Len(s) = m + n
  BY <1>4, <1>5
<1> QED
  BY <1>6, <1>7, <1>8 DEF s, IsFilled

\* recv and recv_all store the next bytes of the stream behind those they have.
LEMMA RecvMoves ==
    ASSUME ServInv, NEW c \in Cid, NEW r \in Nat, r > 0, Turn(c), op[c].kind \in Recvs,
           conn[c] # BadFd, Store(c, r), UNCHANGED wire,
           taken' = [taken EXCEPT ![conn[c]] = @ + r],
           MovedBy(c)' = op[c].total + r, GoingOn(c)',
           pc'[c] = "user" /\ op[c].kind \in {"recv_all", "send_all"} => result'[c].ret = op[c].len
    PROVE  ServInv'
<1>0. /\ ServTypes' /\ SwitchInv' /\ FreshInv' /\ OwnInv' /\ AcceptInv' /\ LateInv'
      /\ coroutines' = coroutines /\ coroutines \subseteq Cid /\ c \in coroutines
      /\ op[c].fd = conn[c] /\ conn[c] \in (open \cap ConnFd) \cup {BadFd}
      /\ Good(c) /\ ServTypes /\ DataInv /\ WireInv
  BY TurnKeeps DEF ServInv
<1>1. /\ op'[c].kind = op[c].kind /\ op'[c].len = op[c].len
      /\ conn' = conn /\ fin' = fin /\ MovedBy(c) = op[c].total
      /\ \A d \in Cid : d # c => /\ pc'[d] = pc[d] /\ calls'[d] = calls[d] /\ buf'[d] = buf[d]
                                 /\ result'[d] = result[d] /\ op'[d] = op[d]
  BY DEF Turn, Others, MovedBy
<1> DEFINE f == conn[c]
           m == op[c].total
           t == taken[f]
           b == buf[c]
           s == buf'[c]
<1>2. f \in ConnFd /\ m \in Nat /\ t \in Nat /\ b \in Seq(Nat)
  BY <1>0 DEF ServTypes
<1>3. taken'[f] = t + r /\ \A g \in ConnFd : g # f => taken'[g] = taken[g]
  BY <1>0, <1>2 DEF ServTypes
<1>4. s = Fill(b, m, r, t)
  BY <1>0 DEF Store, Fill, ServTypes
<1>5. /\ Len(b) = m /\ \A i, j \in 1 .. m : i < j => b[i] < b[j]
      /\ \A i \in 1 .. m : b[i] <= t
  BY <1>0, <1>1 DEF Good, RecvGood
<1>u. \A d \in Cid : buf[d] \in Seq(Nat)
  BY <1>0 DEF ServTypes
<1> HIDE DEF f, m, t, b, s
<1>6. /\ s \in Seq(Nat) /\ Len(s) = m + r
      /\ \A i \in 1 .. m : s[i] = b[i]
      /\ \A i \in 1 .. (m + r) : i > m => s[i] = t + (i - m)
  <2>1. m = Len(b)
    BY <1>5
  <2>2. IsFilled(Fill(b, m, r, t), b, m, r, t)
    BY <1>2, <2>1, Filled
  <2> QED
    BY <1>4, <2>2 DEF IsFilled
<1>7. \A i \in 1 .. m : b[i] \in Nat
  BY <1>2, <1>5
<1>8. ASSUME NEW i \in 1 .. (m + r) PROVE s[i] \in Nat /\ s[i] <= t + r /\ (i > m => s[i] > t)
                                          /\ (i <= m => s[i] <= t /\ i \in 1 .. m)
  <2>1. CASE i <= m
    <3>1. i \in 1 .. m
      BY <1>2, <2>1
    <3>2. s[i] = b[i] /\ b[i] <= t /\ b[i] \in Nat
      BY <1>5, <1>6, <1>7, <3>1
    <3> QED
      BY <1>2, <2>1, <3>1, <3>2
  <2>2. CASE i > m
    <3>1. s[i] = t + (i - m) /\ i - m \in 1 .. r
      BY <1>2, <1>6, <2>2
    <3> QED
      BY <1>2, <2>2, <3>1
  <2> QED
    BY <1>2, <2>1, <2>2
<1>9. ASSUME NEW i \in 1 .. (m + r), NEW j \in 1 .. (m + r), i < j PROVE s[i] < s[j]
  <2>1. CASE j <= m
    <3>1. i \in 1 .. m /\ j \in 1 .. m
      BY <1>2, <1>9, <2>1
    <3> QED
      BY <1>5, <1>6, <1>9, <3>1
  <2>2. CASE i <= m /\ j > m
    BY <1>2, <1>8, <2>2
  <2>3. CASE i > m /\ j > m
    <3>1. s[i] = t + (i - m) /\ s[j] = t + (j - m)
      BY <1>6, <2>3
    <3> QED
      BY <1>2, <1>9, <3>1
  <2> QED
    BY <1>2, <1>9, <2>1, <2>2, <2>3
<1>10. RecvGood(c)'
  <2>1. Len(s) = MovedBy(c)'
    BY <1>6 DEF m
  <2>2. \A i, j \in 1 .. Len(s) : i < j => s[i] < s[j]
    BY <1>6, <1>9
  <2>3. \A i \in 1 .. Len(s) : s[i] <= taken'[f]
    BY <1>3, <1>6, <1>8
  <2> QED
    BY <1>1, <2>1, <2>2, <2>3 DEF RecvGood, s, f
<1>11. Good(c)'
  <2>1. SendGood(c)'
    BY <1>1, KindsApart DEF SendGood
  <2>2. ShortGood(c)'
    <3>1. op[c].len \in Nat
      BY <1>0 DEF ServTypes
    <3> QED
      BY <1>1, <3>1 DEF ShortGood
  <2> QED
    BY <1>10, <2>1, <2>2 DEF Good
\* The bytes are new: no other reader of the connection has them.
<1>12. ASSUME NEW d \in coroutines, d # c PROVE Apart(c, d)'
  <2>0. d \in Cid /\ buf'[d] = buf[d] /\ op'[d] = op[d] /\ buf[d] \in Seq(Nat)
    BY <1>0, <1>1, <1>12, <1>u
  <2> DEFINE e == buf[d]
  <2> SUFFICES ASSUME op[d].kind \in Recvs, conn[d] = f,
                      NEW i \in 1 .. (m + r), NEW j \in 1 .. Len(e)
               PROVE  s[i] # e[j]
    BY <1>1, <1>6, <2>0 DEF Apart, f, s
  <2>1. Apart(c, d) /\ RecvGood(d)
    BY <1>0, <1>12 DEF DataInv, Good
  <2>2. e[j] <= t /\ e[j] \in Nat
    BY <2>0, <2>1 DEF RecvGood, f, t
  <2>3. CASE i <= m
    <3>1. i \in 1 .. m
      BY <1>8, <2>3
    <3>2. b[i] # e[j]
      BY <1>1, <1>5, <2>1, <3>1 DEF Apart, f, b
    <3> QED
      BY <1>6, <3>1, <3>2
  <2>4. CASE i > m
    BY <1>2, <1>8, <2>2, <2>4
  <2> QED
    BY <1>2, <2>3, <2>4
<1>13. ASSUME NEW d \in coroutines, d # c PROVE Stays(d)
  <2>0. conn[d] # BadFd => conn[d] \in ConnFd
    BY <1>0 DEF ServTypes
  <2>1. conn[d] # BadFd => taken[conn[d]] <= taken'[conn[d]]
    <3>1. CASE conn[d] = f
      <4>1. taken[conn[d]] = t /\ taken'[conn[d]] = t + r
        BY <1>3, <3>1 DEF t
      <4> QED
        BY <1>2, <4>1
    <3>2. ASSUME conn[d] # f, conn[d] # BadFd PROVE taken[conn[d]] <= taken'[conn[d]]
      <4>1. taken'[conn[d]] = taken[conn[d]]
        BY <1>3, <2>0, <3>2
      <4>2. taken[conn[d]] \in Nat
        BY <1>0, <2>0, <3>2 DEF ServTypes
      <4> QED
        BY <4>1, <4>2
    <3> QED
      BY <3>1, <3>2
  <2> QED
    BY <1>0, <1>1, <1>13, <2>1, OthersStay
<1>14. DataInv'
  BY <1>0, <1>11, <1>12, <1>13, DataStep
<1>15. WireInv'
  <2>1. \A d \in Cid : Onward(d)
    <3>1. Onward(c)
      BY DEF Onward, Turn, Others
    <3>2. \A d \in Cid : d # c => Onward(d)
      BY <1>1 DEF Onward
    <3> QED
      BY <3>1, <3>2
  <2> QED
    BY <1>0, <2>1, WireStep
<1> QED
  BY <1>0, <1>14, <1>15 DEF ServInv

\* The bytes m + 1 .. m + r of call n of c.
Part(c, n, m, r) == [i \in 1 .. r |-> <<c, n, m + i>>]

\* Bytes handed over behind w: what w holds, and the new ones.
Grown(v, w, c, n, m, r) ==
    /\ v \in Seq(Cid \X Nat \X Nat) /\ Len(v) = Len(w) + r
    /\ \A i \in 1 .. Len(w) : v[i] = w[i]
    /\ \A i \in 1 .. (Len(w) + r) : i > Len(w) =>
          v[i] = <<c, n, m + (i - Len(w))>> /\ i - Len(w) \in 1 .. r

LEMMA WireGrows ==
    ASSUME NEW w \in Seq(Cid \X Nat \X Nat), NEW c \in Cid, NEW n \in Nat, NEW m \in Nat,
           NEW r \in Nat
    PROVE  Grown(w \o Part(c, n, m, r), w, c, n, m, r)
<1> DEFINE h == Part(c, n, m, r)
           v == w \o h
           T == Cid \X Nat \X Nat
<1>1. Len(w) \in Nat
  OBVIOUS
<1>2. h \in Seq(T) /\ Len(h) = r /\ \A i \in 1 .. r : h[i] = <<c, n, m + i>>
  <2>1. \A i \in 1 .. r : <<c, n, m + i>> \in T
    OBVIOUS
  <2>2. h \in [1 .. r -> T]
    BY <2>1 DEF Part
  <2> QED
    BY <2>2 DEF Part
<1> HIDE DEF h, T
<1>3. w \in Seq(T)
  BY DEF T
<1>4. /\ v \in Seq(T) /\ Len(v) = Len(w) + r
      /\ \A i \in 1 .. (Len(w) + r) : v[i] = IF i <= Len(w) THEN w[i] ELSE h[i - Len(w)]
  BY <1>2, <1>3, ConcatProperties
<1> HIDE DEF v
<1>5. ASSUME NEW i \in 1 .. (Len(w) + r), i > Len(w)
      PROVE  v[i] = <<c, n, m + (i - Len(w))>> /\ i - Len(w) \in 1 .. r
  <2>1. i - Len(w) \in 1 .. r /\ ~ (i <= Len(w))
    BY <1>1, <1>5
  <2> QED
    BY <1>2, <1>4, <2>1
<1>6. ASSUME NEW i \in 1 .. Len(w) PROVE v[i] = w[i]
  <2>1. i \in 1 .. (Len(w) + r) /\ i <= Len(w)
    BY <1>1, <1>6
  <2> QED
    BY <1>4, <2>1
<1> QED
  <2>1. Grown(v, w, c, n, m, r)
    BY <1>4, <1>5, <1>6 DEF T, Grown
  <2> QED
    BY <2>1 DEF v, h

\* They continue the prefix of the call they belong to ...
LEMMA PrefixGrows ==
    ASSUME NEW w \in Seq(Cid \X Nat \X Nat), NEW c \in Cid, NEW n \in Nat, NEW m \in Nat,
           NEW r \in Nat, Prefix(w, c, n, m)
    PROVE  Prefix(w \o Part(c, n, m, r), c, n, m + r)
<1> DEFINE v == w \o Part(c, n, m, r)
           k == Len(w)
           old == Mine(w, c, n)
           new == Mine(v, c, n)
<1>1. /\ Len(v) = k + r /\ k \in Nat
      /\ \A i \in 1 .. k : v[i] = w[i]
      /\ \A i \in 1 .. (k + r) : i > k => v[i] = <<c, n, m + (i - k)>> /\ i - k \in 1 .. r
  <2>1. Grown(v, w, c, n, m, r)
    BY WireGrows
  <2>2. Len(w) \in Nat
    OBVIOUS
  <2> HIDE DEF v
  <2> QED
    BY <2>1, <2>2 DEF Grown
<1>2. /\ {w[i][3] : i \in old} = 1 .. m
      /\ \A i, j \in old : i < j => w[i][3] < w[j][3]
  BY DEF Prefix
<1> HIDE DEF v
<1>3. \A i \in old : i \in 1 .. k /\ i \in new /\ v[i][3] = w[i][3] /\ w[i][3] \in 1 .. m
  <2> SUFFICES ASSUME NEW i \in old PROVE i \in 1 .. k /\ i \in new /\ v[i][3] = w[i][3] /\ w[i][3] \in 1 .. m
    OBVIOUS
  <2>1. i \in 1 .. k /\ w[i][1] = c /\ w[i][2] = n
    BY DEF Mine
  <2>2. i \in 1 .. (k + r)
    BY <1>1, <2>1
  <2>3. v[i] = w[i]
    BY <1>1, <2>1
  <2>4. i \in new
    BY <1>1, <2>1, <2>2, <2>3 DEF Mine
  <2> QED
    BY <1>2, <2>1, <2>3, <2>4
<1>4. ASSUME NEW i \in new
      PROVE  \/ i \in old /\ i <= k /\ v[i][3] = w[i][3] /\ v[i][3] \in 1 .. m
             \/ i > k /\ v[i][3] = m + (i - k) /\ i - k \in 1 .. r
  <2>1. i \in 1 .. (k + r) /\ v[i][1] = c /\ v[i][2] = n
    BY <1>1 DEF Mine
  <2>2. CASE i > k
    <3>1. v[i] = <<c, n, m + (i - k)>> /\ i - k \in 1 .. r
      BY <1>1, <2>1, <2>2
    <3> QED
      BY <2>2, <3>1
  <2>3. CASE ~ (i > k)
    <3>1. i \in 1 .. k /\ i <= k
      BY <1>1, <2>1, <2>3
    <3>2. i \in old
      BY <1>1, <2>1, <3>1 DEF Mine
    <3> QED
      BY <1>3, <3>1, <3>2
  <2> QED
    BY <2>2, <2>3
<1>5. \A j \in 1 .. r : k + j \in new /\ v[k + j][3] = m + j
  <2> SUFFICES ASSUME NEW j \in 1 .. r PROVE k + j \in new /\ v[k + j][3] = m + j
    OBVIOUS
  <2>1. k + j \in 1 .. (k + r) /\ k + j > k /\ (k + j) - k = j
    BY <1>1
  <2>2. v[k + j] = <<c, n, m + j>>
    BY <1>1, <2>1
  <2> QED
    BY <1>1, <2>1, <2>2 DEF Mine
<1> DEFINE x(i) == v[i][3]
<1> HIDE DEF old, new, k
<1>6. \A i \in new : x(i) \in 1 .. (m + r)
  <2> SUFFICES ASSUME NEW i \in new PROVE x(i) \in 1 .. (m + r)
    OBVIOUS
  <2>1. CASE v[i][3] \in 1 .. m
    BY <2>1
  <2>2. CASE i > k /\ v[i][3] = m + (i - k) /\ i - k \in 1 .. r
    BY <2>2
  <2> QED
    BY <1>4, <2>1, <2>2
<1>7. ASSUME NEW q \in 1 .. (m + r) PROVE \E i \in new : x(i) = q
  <2>1. CASE q <= m
    <3>1. q \in 1 .. m
      BY <2>1
    <3>2. \E i \in old : w[i][3] = q
      BY <1>2, <3>1
    <3> QED
      BY <1>3, <3>2
  <2>2. CASE q > m
    <3>1. q - m \in 1 .. r /\ m + (q - m) = q
      BY <2>2
    <3> QED
      BY <1>5, <3>1
  <2> QED
    BY <2>1, <2>2
<1>8. {x(i) : i \in new} = 1 .. (m + r)
  BY <1>6, <1>7
<1>9. ASSUME NEW i \in new, NEW j \in new, i < j PROVE v[i][3] < v[j][3]
  <2>1. CASE i > k /\ j > k
    <3>1. v[i][3] = m + (i - k) /\ v[j][3] = m + (j - k) /\ i - k \in Int /\ j - k \in Int
          /\ i \in Int /\ j \in Int
      BY <1>1, <1>4, <2>1 DEF new, Mine
    <3>2. i - k < j - k
      BY <1>1, <1>9, <3>1
    <3> QED
      BY <3>1, <3>2
  <2>2. CASE i \in old /\ j \in old
    BY <1>2, <1>3, <1>9, <2>2
  <2>3. CASE i \in old /\ j > k
    <3>1. v[i][3] \in 1 .. m
      BY <1>3, <2>3
    <3>2. v[j][3] = m + (j - k) /\ j - k \in 1 .. r
      <4>1. ~ (j <= k)
        BY <1>1, <2>3 DEF new, Mine
      <4> QED
        BY <1>4, <4>1
    <3> QED
      BY <3>1, <3>2
  <2>4. CASE i > k /\ j \in old
    <3>1. j \in 1 .. k /\ i \in Int
      BY <1>3, <2>4 DEF new, Mine
    <3> QED
      BY <1>1, <1>9, <2>4, <3>1
  <2> QED
    BY <1>4, <2>1, <2>2, <2>3, <2>4
<1>10. {v[i][3] : i \in Mine(v, c, n)} = 1 .. (m + r)
  BY <1>8 DEF new
<1> QED
  BY <1>9, <1>10 DEF Prefix, v, new

\* ... and are nobody else's.
LEMMA PrefixKept ==
    ASSUME NEW w \in Seq(Cid \X Nat \X Nat), NEW c \in Cid, NEW n \in Nat, NEW m \in Nat,
           NEW r \in Nat, NEW d \in Cid, d # c, NEW a \in Nat, NEW b \in Nat, Prefix(w, d, a, b)
    PROVE  Prefix(w \o Part(c, n, m, r), d, a, b)
<1> DEFINE v == w \o Part(c, n, m, r)
           k == Len(w)
<1>1. /\ Len(v) = k + r /\ k \in Nat
      /\ \A i \in 1 .. k : v[i] = w[i]
      /\ \A i \in 1 .. (k + r) : i > k => v[i] = <<c, n, m + (i - k)>> /\ i - k \in 1 .. r
  <2>1. Grown(v, w, c, n, m, r)
    BY WireGrows
  <2>2. Len(w) \in Nat
    OBVIOUS
  <2> HIDE DEF v
  <2> QED
    BY <2>1, <2>2 DEF Grown
<1> HIDE DEF v
<1>2. ASSUME NEW i \in Mine(v, d, a) PROVE i \in Mine(w, d, a)
  <2>1. i \in 1 .. (k + r) /\ v[i][1] = d /\ v[i][2] = a
    BY <1>1 DEF Mine
  <2>2. ~ (i > k)
    <3> SUFFICES ASSUME i > k PROVE FALSE
      OBVIOUS
    <3>1. v[i] = <<c, n, m + (i - k)>>
      BY <1>1, <2>1
    <3> QED
      BY <2>1, <3>1
  <2>3. i \in 1 .. k
    BY <1>1, <2>1, <2>2
  <2> QED
    BY <1>1, <2>1, <2>3 DEF Mine
<1>3. ASSUME NEW i \in Mine(w, d, a) PROVE i \in Mine(v, d, a) /\ v[i] = w[i]
  <2>1. i \in 1 .. k /\ w[i][1] = d /\ w[i][2] = a
    BY DEF Mine
  <2>2. i \in 1 .. (k + r) /\ v[i] = w[i]
    BY <1>1, <2>1
  <2> QED
    BY <1>1, <2>1, <2>2 DEF Mine
<1>4. Mine(v, d, a) = Mine(w, d, a)
  BY <1>2, <1>3
<1>5. {v[i][3] : i \in Mine(v, d, a)} = {w[i][3] : i \in Mine(w, d, a)}
  BY <1>3, <1>4
<1> QED
  <2>1. /\ {w[i][3] : i \in Mine(w, d, a)} = 1 .. b
        /\ \A i, j \in Mine(w, d, a) : i < j => w[i][3] < w[j][3]
    BY DEF Prefix
  <2>2. {v[i][3] : i \in Mine(v, d, a)} = 1 .. b
    BY <1>5, <2>1
  <2>3. \A i, j \in Mine(v, d, a) : i < j => v[i][3] < v[j][3]
    <3> SUFFICES ASSUME NEW i \in Mine(v, d, a), NEW j \in Mine(v, d, a), i < j
                 PROVE  v[i][3] < v[j][3]
      OBVIOUS
    <3>1. w[i][3] < w[j][3]
      BY <1>4, <2>1
    <3>2. v[i] = w[i] /\ v[j] = w[j]
      BY <1>3, <1>4
    <3> QED
      BY <3>1, <3>2
  <2>4. Prefix(v, d, a, b)
    BY <2>2, <2>3 DEF Prefix
  <2> QED
    BY <2>4 DEF v

\* send and send_all hand over the next bytes of their buffer.
LEMMA SendMoves ==
    ASSUME ServInv, NEW c \in Cid, NEW r \in Nat, r > 0, Turn(c), op[c].kind \in Sends,
           conn[c] # BadFd, UNCHANGED <<buf, taken>>,
           wire' = [wire EXCEPT ![conn[c]] = @ \o Handed(c, r)],
           MovedBy(c)' = op[c].total + r, GoingOn(c)',
           pc'[c] = "user" /\ op[c].kind \in {"recv_all", "send_all"} => result'[c].ret = op[c].len
    PROVE  ServInv'
<1>0. /\ ServTypes' /\ SwitchInv' /\ FreshInv' /\ OwnInv' /\ AcceptInv' /\ LateInv'
      /\ coroutines' = coroutines /\ coroutines \subseteq Cid /\ c \in coroutines
      /\ op[c].fd = conn[c] /\ conn[c] \in (open \cap ConnFd) \cup {BadFd}
      /\ Good(c) /\ ServTypes /\ DataInv /\ WireInv
  BY TurnKeeps DEF ServInv
<1>1. /\ op'[c].kind = op[c].kind /\ op'[c].len = op[c].len /\ Number(c)' = Number(c)
      /\ conn' = conn /\ fin' = fin /\ MovedBy(c) = op[c].total /\ Number(c) = calls[c] + 1
      /\ \A d \in Cid : d # c => /\ pc'[d] = pc[d] /\ calls'[d] = calls[d] /\ buf'[d] = buf[d]
                                 /\ result'[d] = result[d] /\ op'[d] = op[d]
  BY DEF Turn, Others, MovedBy, Number
<1> DEFINE f == conn[c]
           m == op[c].total
           n == calls[c] + 1
           w == wire[f]
           v == w \o Part(c, n, m, r)
<1>2. /\ f \in ConnFd /\ m \in Nat /\ n \in Nat /\ calls[c] \in Nat
      /\ w \in Seq(Cid \X Nat \X Nat)
  <2>1. f \in ConnFd /\ m \in Nat /\ calls[c] \in Nat
    BY <1>0 DEF ServTypes
  <2>2. n \in Nat
    BY <2>1
  <2>3. w \in Seq(Cid \X Nat \X Nat)
    BY <1>0, <2>1 DEF ServTypes
  <2> QED
    BY <2>1, <2>2, <2>3
<1>3. wire'[f] = v /\ \A g \in ConnFd : g # f => wire'[g] = wire[g]
  <2>1. Handed(c, r) = Part(c, n, m, r)
    BY DEF Handed, Part
  <2> HIDE DEF n, m
  <2>2. wire' = [wire EXCEPT ![f] = v]
    BY <2>1
  <2> HIDE DEF v, f
  <2> QED
    BY <1>0, <1>2, <2>2 DEF ServTypes
<1>4. Prefix(w, c, n, m)
  BY <1>0, <1>1 DEF Good, SendGood
<1> HIDE DEF f, m, n, w, v
<1>5. Prefix(v, c, n, m + r)
  BY <1>2, <1>4, PrefixGrows DEF v
<1>6. Good(c)'
  <2>1. RecvGood(c)'
    BY <1>1, KindsApart DEF RecvGood
  <2>2. SendGood(c)'
    <3>1. Number(c)' = n /\ MovedBy(c)' = m + r /\ wire'[conn[c]] = v
      BY <1>1, <1>3 DEF n, m, f
    <3> QED
      BY <1>1, <1>5, <3>1 DEF SendGood
  <2>3. ShortGood(c)'
    <3>1. op[c].len \in Nat
      BY <1>0 DEF ServTypes
    <3> QED
      BY <1>1, <3>1 DEF ShortGood
  <2> QED
    BY <2>1, <2>2, <2>3 DEF Good
<1>7. ASSUME NEW d \in coroutines PROVE Apart(c, d)'
  BY <1>1, KindsApart DEF Apart
<1>8. ASSUME NEW d \in coroutines, d # c PROVE Stays(d)
  <2>0. d \in Cid /\ (conn[d] # BadFd => conn[d] \in ConnFd)
    BY <1>0 DEF ServTypes
  <2>1. conn[d] # BadFd => taken[conn[d]] <= taken'[conn[d]]
    BY <1>0, <2>0 DEF ServTypes
  <2>2. ASSUME conn[d] # BadFd, NEW a \in Nat, NEW b \in Nat, Prefix(wire[conn[d]], d, a, b)
        PROVE  Prefix(wire'[conn[d]], d, a, b)
    <3>1. CASE conn[d] = f
      <4>1. Prefix(w, d, a, b)
        BY <2>2, <3>1 DEF w
      <4>2. Prefix(v, d, a, b)
        BY <1>2, <1>8, <2>0, <4>1, PrefixKept DEF v
      <4> QED
        BY <1>3, <3>1, <4>2
    <3>2. CASE conn[d] # f
      BY <1>3, <2>0, <2>2, <3>2
    <3> QED
      BY <3>1, <3>2
  <2> QED
    BY <1>0, <1>1, <1>8, <2>1, <2>2, OthersStay
<1>9. DataInv'
  BY <1>0, <1>6, <1>7, <1>8, DataStep
<1>10. WireInv'
  <2>1. \A d \in Cid : Onward(d)
    <3>1. Onward(c)
      BY DEF Onward, Turn, Others
    <3>2. \A d \in Cid : d # c => Onward(d)
      BY <1>1 DEF Onward
    <3> QED
      BY <3>1, <3>2
  <2>t. \A g \in ConnFd : wire[g] \in Seq(Cid \X Nat \X Nat)
    BY <1>0 DEF ServTypes
  <2>2. ASSUME NEW g \in ConnFd, NEW i \in 1 .. Len(wire[g]), NEW x, x = wire[g][i]
        PROVE  Made(x)'
    <3>1. x \in Cid \X Nat \X Nat
      BY <2>2, <2>t
    <3>2. Made(x)
      BY <1>0, <2>2 DEF WireInv
    <3>3. Onward(x[1])
      BY <2>1, <3>1
    <3> QED
      BY <1>0, <3>1, <3>2, <3>3, MadeStays
  <2>3. ASSUME NEW q, NEW x, x = <<c, n, q>> PROVE Made(x)'
    <3>1. x[1] = c /\ x[2] = calls[c] + 1
      BY <2>3 DEF n
    <3>2. \/ calls'[c] = calls[c] + 1
          \/ calls'[c] = calls[c] /\ pc'[c] # "user" /\ op'[c].kind \in Sends
      BY <1>1 DEF Turn, Others
    <3> QED
      BY <1>2, <3>1, <3>2 DEF Made
  <2>4. ASSUME NEW g \in ConnFd, NEW i \in 1 .. Len(wire'[g]), NEW x, x = wire'[g][i]
        PROVE  Made(x)'
    <3>1. CASE g # f
      BY <1>3, <2>2, <2>4, <3>1
    <3>2. CASE g = f
      <4>1. Grown(v, w, c, n, m, r)
        BY <1>2, WireGrows DEF v
      <4>2. i \in 1 .. (Len(w) + r) /\ x = v[i] /\ Len(w) \in Nat
        <5>1. Len(v) = Len(w) + r
          BY <4>1 DEF Grown
        <5>2. Len(w) \in Nat
          BY <1>2
        <5>3. i \in 1 .. Len(v) /\ x = v[i]
          BY <1>3, <2>4, <3>2
        <5> QED
          BY <5>1, <5>2, <5>3
      <4>3. CASE i > Len(w)
        <5>1. x = <<c, n, m + (i - Len(w))>>
          BY <4>1, <4>2, <4>3 DEF Grown
        <5> QED
          BY <2>3, <5>1
      <4>4. CASE ~ (i > Len(w))
        <5>1. i \in 1 .. Len(w)
          BY <4>2, <4>4
        <5>2. x = w[i]
          BY <4>1, <4>2, <5>1 DEF Grown
        <5> QED
          BY <2>2, <3>2, <5>1, <5>2 DEF w
      <4> QED
        BY <4>3, <4>4
    <3> QED
      BY <3>1, <3>2
  <2> QED
    BY <2>4 DEF WireInv, Made
<1> QED
  BY <1>0, <1>9, <1>10 DEF ServInv

\* One system call of recv, recv_all, send or send_all that does not say
\* EAGAIN, or one that does while another coroutine waits for the descriptor.
LEMMA RecvKeeps ==
    ASSUME ServInv, NEW c \in Cid, recv(c), UNCHANGED serverVars
    PROVE  ServInv'
<1>0. /\ running = c /\ fault = "none" /\ pc[c] = "call" /\ op[c].kind \in Recvs
      /\ ServTypes /\ OwnInv /\ DataInv /\ CoInv /\ Acceptor \in Cid
  BY ServerConstants DEF recv, InCall, Recvs, ServInv, CoInv, ServTypes
<1>1. /\ UNCHANGED <<coVars, timers, conn, serving, start_at, late, open, fin, arrived, drained>>
      /\ UNCHANGED wire
  BY DEF recv, NoSwitch, timerVars, serverVars
<1>2. c # Acceptor /\ op[c].kind \in Kinds /\ op[c].fd = conn[c] /\ c \in coroutines
  <2>1. c # Acceptor /\ op[c].kind # "none"
    BY <1>0 DEF OwnInv, Recvs
  <2>2. c \in coroutines
    BY <1>0, RunningLives
  <2> QED
    BY <1>0, <2>1, <2>2 DEF OwnInv
<1>3. op[c].total < op[c].len /\ conn[c] \in (open \cap ConnFd) \cup {BadFd}
      /\ op[c].total \in Nat /\ op[c].len \in Nat
  BY <1>0, <1>2 DEF DataInv, Good, GoingOn, OwnInv, ServTypes
<1>4. /\ buf \in [Cid -> Seq(Nat)] /\ taken \in [ConnFd -> Nat]
      /\ wire \in [ConnFd -> Seq(Cid \X Nat \X Nat)]
  BY <1>0 DEF ServTypes
<1> DEFINE k == op[c].len - op[c].total
           r == sys_recv(conn[c], k)
<1>5. k \in Nat /\ k > 0
  BY <1>3
<1>6. /\ r # Again
      /\ IF r > 0 THEN Store(c, r) /\ taken' = [taken EXCEPT ![conn[c]] = @ + r] /\ Moved(c, r)
         ELSE Return(c, Total(c, r), "end") /\ UNCHANGED <<buf, taken>>
  BY <1>2 DEF recv
<1> HIDE DEF r, k
\* Fewer bytes than asked for, or the end of the stream.
<1>7. \/ r \in Nat /\ r > 0 /\ r <= k /\ conn[c] # BadFd
      \/ r \in {0, -1} /\ (conn[c] = BadFd \/ fin[conn[c]] # "open")
  <2>1. CASE conn[c] = BadFd
    <3>1. conn[c] \notin open
      BY <1>0, <2>1, ServerConstants DEF ServTypes
    <3> QED
      BY <2>1, <3>1 DEF r, sys_recv, Fail
  <2>2. CASE conn[c] # BadFd
    <3>1. conn[c] \in open /\ conn[c] \in ConnFd
      BY <1>3, <2>2
    <3>2. arrived[conn[c]] \in Nat /\ taken[conn[c]] \in Nat
          /\ fin[conn[c]] \in {"open", "eof", "reset"}
      BY <1>0, <3>1 DEF ServTypes
    <3>3. Avail(conn[c]) \in Int
      BY <3>2 DEF Avail
    <3>4. CASE Avail(conn[c]) > 0
      <4>1. r = Least(Avail(conn[c]), k)
        BY <3>1, <3>4 DEF r, sys_recv
      <4> QED
        BY <1>5, <2>2, <3>3, <3>4, <4>1 DEF Least
    <3>5. CASE ~ (Avail(conn[c]) > 0)
      <4>1. r = CASE fin[conn[c]] = "eof" -> 0 [] fin[conn[c]] = "reset" -> Fail [] OTHER -> Again
        BY <3>1, <3>5 DEF r, sys_recv
      <4> QED
        BY <1>6, <3>2, <4>1 DEF Fail
    <3> QED
      BY <3>4, <3>5
  <2> QED
    BY <2>1, <2>2
<1>8. CASE r \in Nat /\ r > 0 /\ r <= k /\ conn[c] # BadFd
  <2>1. Store(c, r) /\ taken' = [taken EXCEPT ![conn[c]] = @ + r] /\ Moved(c, r)
    BY <1>6, <1>8
  <2>2. op[c].total + r <= op[c].len
    BY <1>3, <1>8 DEF k
  <2>3. /\ Others(c) /\ MovedBy(c)' = op[c].total + r /\ GoingOn(c)'
        /\ pc'[c] = "user" /\ op[c].kind \in {"recv_all", "send_all"} => result'[c].ret = op[c].len
    BY <1>0, <1>2, <1>8, <2>1, <2>2, MovedEffect
  <2>4. taken' \in [ConnFd -> Nat]
    <3>1. conn[c] \in ConnFd
      BY <1>3, <1>8
    <3>2. taken[conn[c]] + r \in Nat
      BY <1>4, <1>8, <3>1
    <3> QED
      BY <1>4, <2>1, <3>2
  <2>5. buf' \in [Cid -> Seq(Nat)] /\ \A d \in Cid : d # c => buf'[d] = buf[d]
    <3>1. conn[c] \in ConnFd
      BY <1>3, <1>8
    <3> DEFINE b == buf[c]
               m == op[c].total
               t == taken[conn[c]]
               s == Fill(b, m, r, t)
    <3>2. b \in Seq(Nat) /\ t \in Nat /\ m \in Nat
      BY <1>3, <1>4, <3>1
    <3>3. m = Len(b)
      BY <1>0, <1>2 DEF DataInv, Good, RecvGood, MovedBy
    <3>4. buf' = [buf EXCEPT ![c] = s]
      BY <1>2, <2>1 DEF Store, Fill
    <3> HIDE DEF b, m, t
    <3>5. IsFilled(s, b, m, r, t)
      BY <1>8, <3>2, <3>3, Filled
    <3> HIDE DEF s
    <3>6. s \in Seq(Nat)
      BY <3>5 DEF IsFilled
    <3> QED
      BY <1>4, <3>4, <3>6
  <2>6. Turn(c)
    BY <1>0, <1>1, <1>2, <1>4, <2>3, <2>4, <2>5 DEF Turn
  <2> QED
    BY <1>0, <1>1, <1>8, <2>1, <2>3, <2>6, RecvMoves
<1>9. CASE r \in {0, -1} /\ (conn[c] = BadFd \/ fin[conn[c]] # "open")
  <2>1. Return(c, Total(c, r), "end") /\ UNCHANGED <<buf, taken>>
    BY <1>6, <1>9
  <2>2. /\ Others(c) /\ MovedBy(c)' = op[c].total /\ GoingOn(c)' /\ pc'[c] = "user"
    BY <1>0, <1>2, <1>9, <2>1, EndedEffect
  <2>3. Turn(c)
    BY <1>0, <1>1, <1>2, <1>4, <2>1, <2>2 DEF Turn
  <2> QED
    BY <1>0, <1>1, <1>9, <2>1, <2>2, <2>3, EndKeeps
<1> QED
  BY <1>7, <1>8, <1>9

LEMMA SendKeeps ==
    ASSUME ServInv, NEW c \in Cid, send(c), UNCHANGED serverVars
    PROVE  ServInv'
<1>0. /\ running = c /\ fault = "none" /\ pc[c] = "call" /\ op[c].kind \in Sends
      /\ ServTypes /\ OwnInv /\ DataInv /\ CoInv /\ Acceptor \in Cid
  BY ServerConstants DEF send, InCall, Sends, ServInv, CoInv, ServTypes
<1>1. /\ UNCHANGED <<coVars, timers, conn, serving, start_at, late, open, fin, arrived, drained>>
      /\ UNCHANGED <<buf, taken>>
  BY DEF send, NoSwitch, timerVars, serverVars
<1>2. c # Acceptor /\ op[c].kind \in Kinds /\ op[c].fd = conn[c] /\ c \in coroutines
  <2>1. c # Acceptor /\ op[c].kind # "none"
    BY <1>0 DEF OwnInv, Sends
  <2>2. c \in coroutines
    BY <1>0, RunningLives
  <2> QED
    BY <1>0, <2>1, <2>2 DEF OwnInv
<1>3. op[c].total < op[c].len /\ conn[c] \in (open \cap ConnFd) \cup {BadFd}
      /\ op[c].total \in Nat /\ op[c].len \in Nat
  BY <1>0, <1>2 DEF DataInv, Good, GoingOn, OwnInv, ServTypes
<1>4. /\ buf \in [Cid -> Seq(Nat)] /\ taken \in [ConnFd -> Nat]
      /\ wire \in [ConnFd -> Seq(Cid \X Nat \X Nat)]
  BY <1>0 DEF ServTypes
<1> DEFINE k == op[c].len - op[c].total
           r == sys_send(conn[c], k)
<1>5. k \in Nat /\ k > 0
  BY <1>3
<1>6. /\ r # Again
      /\ IF r > 0 THEN wire' = [wire EXCEPT ![conn[c]] = @ \o Handed(c, r)] /\ Moved(c, r)
         ELSE Return(c, Total(c, r), "end") /\ UNCHANGED wire
  BY <1>2 DEF send
<1> HIDE DEF r, k
<1>7. \/ r \in Nat /\ r > 0 /\ r <= k /\ conn[c] # BadFd
      \/ r \in {0, -1} /\ (conn[c] = BadFd \/ fin[conn[c]] = "reset")
  <2>1. CASE conn[c] = BadFd
    <3>1. conn[c] \notin open
      BY <1>0, <2>1, ServerConstants DEF ServTypes
    <3> QED
      BY <2>1, <3>1 DEF r, sys_send, Fail
  <2>2. CASE conn[c] # BadFd
    <3>1. conn[c] \in open /\ conn[c] \in ConnFd
      BY <1>3, <2>2
    <3>2. wire[conn[c]] \in Seq(Cid \X Nat \X Nat) /\ drained[conn[c]] \in Nat
      BY <1>0, <3>1 DEF ServTypes
    <3>3. Len(wire[conn[c]]) \in Nat
      BY <3>2
    <3>4. Room(conn[c]) \in Int
      BY <3>2, <3>3, SocketConstants DEF Room
    <3>5. CASE fin[conn[c]] = "reset"
      BY <3>5 DEF r, sys_send, Fail
    <3>6. CASE fin[conn[c]] # "reset"
      <4>1. r = IF Room(conn[c]) > 0 THEN Least(Room(conn[c]), k) ELSE Again
        BY <3>1, <3>6 DEF r, sys_send
      <4> QED
        BY <1>5, <1>6, <2>2, <3>4, <4>1 DEF Least
    <3> QED
      BY <3>5, <3>6
  <2> QED
    BY <2>1, <2>2
<1>8. CASE r \in Nat /\ r > 0 /\ r <= k /\ conn[c] # BadFd
  <2>1. wire' = [wire EXCEPT ![conn[c]] = @ \o Handed(c, r)] /\ Moved(c, r)
    BY <1>6, <1>8
  <2>2. op[c].total + r <= op[c].len
    BY <1>3, <1>8 DEF k
  <2>3. /\ Others(c) /\ MovedBy(c)' = op[c].total + r /\ GoingOn(c)'
        /\ pc'[c] = "user" /\ op[c].kind \in {"recv_all", "send_all"} => result'[c].ret = op[c].len
    BY <1>0, <1>2, <1>8, <2>1, <2>2, MovedEffect
  <2>4. wire' \in [ConnFd -> Seq(Cid \X Nat \X Nat)]
    <3>1. conn[c] \in ConnFd /\ calls[c] \in Nat
      BY <1>0, <1>3, <1>8 DEF ServTypes
    <3> DEFINE w == wire[conn[c]]
               n == calls[c] + 1
               m == op[c].total
               v == w \o Part(c, n, m, r)
    <3>2. w \in Seq(Cid \X Nat \X Nat) /\ n \in Nat /\ m \in Nat
      BY <1>3, <1>4, <3>1
    <3>3. Handed(c, r) = Part(c, n, m, r)
      BY DEF Handed, Part
    <3> HIDE DEF n, m
    <3>4. wire' = [wire EXCEPT ![conn[c]] = v]
      BY <2>1, <3>3
    <3> HIDE DEF w
    <3>5. Grown(v, w, c, n, m, r)
      BY <1>8, <3>2, WireGrows
    <3> HIDE DEF v
    <3>6. v \in Seq(Cid \X Nat \X Nat)
      BY <3>5 DEF Grown
    <3> QED
      BY <1>4, <3>4, <3>6
  <2>5. Turn(c)
    BY <1>0, <1>1, <1>2, <1>4, <2>3, <2>4 DEF Turn
  <2> QED
    BY <1>0, <1>1, <1>8, <2>1, <2>3, <2>5, SendMoves
<1>9. CASE r \in {0, -1} /\ (conn[c] = BadFd \/ fin[conn[c]] = "reset")
  <2>1. Return(c, Total(c, r), "end") /\ UNCHANGED wire
    BY <1>6, <1>9
  <2>2. /\ Others(c) /\ MovedBy(c)' = op[c].total /\ GoingOn(c)' /\ pc'[c] = "user"
    BY <1>0, <1>2, <1>9, <2>1, EndedEffect
  <2>3. Turn(c)
    BY <1>0, <1>1, <1>2, <1>4, <2>1, <2>2 DEF Turn
  <2> QED
    BY <1>0, <1>1, <1>9, <2>1, <2>2, <2>3, EndKeeps
<1> QED
  BY <1>7, <1>8, <1>9

LEMMA AgainFailsKeeps ==
    ASSUME ServInv, NEW c \in Cid, again_fails(c), UNCHANGED serverVars,
           op[c].kind \in Kinds
    PROVE  ServInv'
<1>0. running = c /\ fault = "none" /\ pc[c] = "call" /\ ServTypes
  BY DEF again_fails, InCall, ServInv
<1>1. /\ UNCHANGED <<coVars, timers, conn, serving, start_at, late, open, fin, arrived, drained>>
      /\ UNCHANGED <<buf, taken, wire>>
  BY DEF again_fails, timerVars, serverVars, kernelVars
<1>2. /\ buf \in [Cid -> Seq(Nat)] /\ taken \in [ConnFd -> Nat]
      /\ wire \in [ConnFd -> Seq(Cid \X Nat \X Nat)]
  BY <1>0 DEF ServTypes
<1>3. Return(c, Total(c, -1), "EEXIST")
  BY DEF again_fails, Fail
<1>4. /\ Others(c) /\ MovedBy(c)' = op[c].total /\ GoingOn(c)' /\ pc'[c] = "user"
      /\ result'[c].errno = "EEXIST"
  BY <1>0, <1>3, EndedEffect
<1>5. Turn(c)
  BY <1>0, <1>1, <1>2, <1>4 DEF Turn
<1> QED
  BY <1>1, <1>4, <1>5, EndKeeps

-----------------------------------------------------------------------------
(* Accepting and deleting a connection *)

\* accept returns: a descriptor that no coroutine holds, or the bad one.
LEMMA AcceptReturns ==
    ASSUME ServInv, running = Acceptor, fault = "none", op[Acceptor].kind = "accept",
           pc[Acceptor] = "call", NEW f \in FreeFds \cup {BadFd},
           NEW why \in {"ok", "end", "EEXIST"}, Return(Acceptor, f, why),
           UNCHANGED <<coVars, timers, conn, serving, start_at, late, buf>>,
           f = BadFd => UNCHANGED <<open, fin, arrived, taken, wire, drained>>,
           f # BadFd => /\ open' = open \cup {f}
                        /\ fin' = [fin EXCEPT ![f] = "open"]
                        /\ arrived' = [arrived EXCEPT ![f] = 0]
                        /\ taken' = [taken EXCEPT ![f] = 0]
                        /\ wire' = [wire EXCEPT ![f] = << >>]
                        /\ drained' = [drained EXCEPT ![f] = 0]
    PROVE  ServInv'
<1> DEFINE c == Acceptor
<1>0. /\ ServTypes /\ FreshInv /\ OwnInv /\ DataInv /\ WireInv /\ CoInv /\ LateInv
      /\ c \in Cid /\ BadFd \notin Fd /\ f \in Int
  <2>1. f \in Int
    <3>1. \A g \in FreeFds : g \in Nat
      BY ServerConstants DEF FreeFds
    <3> QED
      BY <3>1 DEF BadFd
  <2> QED
    BY <2>1, ServerConstants DEF ServInv, CoInv, ServTypes
<1>1. /\ CoTypeOK' /\ SwitchInv' /\ coroutines' = coroutines /\ last_cid' = last_cid
      /\ running' = running /\ coroutines \subseteq Cid
  BY SameCoroutines
<1> HIDE DEF c
<1>2. /\ pc'[c] = "user" /\ result'[c].ret = f /\ op' = op /\ calls'[c] = calls[c]
      /\ pc' \in [Cid -> {"user", "call", "wait_event"}] /\ calls' \in [Cid -> Nat]
      /\ result' \in [Cid -> [ret : Int, errno : {"ok", "end", "EEXIST"}]]
      /\ \A d \in Cid : d # c => /\ pc'[d] = pc[d] /\ calls'[d] = calls[d]
                                 /\ result'[d] = result[d]
  BY <1>0, ReturnEffect DEF c
\* The connection that is reset is nobody's.
<1>3. ASSUME NEW g \in ConnFd, g \in open \/ f = BadFd
      PROVE  fin'[g] = fin[g] /\ taken'[g] = taken[g] /\ wire'[g] = wire[g]
  BY <1>0, <1>3 DEF ServTypes, FreeFds
<1>4. ServTypes' /\ open \subseteq open' /\ f \in (open' \cap ConnFd) \cup {BadFd}
  <2>1. open' \subseteq Fd /\ open \subseteq open' /\ f \in (open' \cap ConnFd) \cup {BadFd}
    BY <1>0 DEF ServTypes, FreeFds, ConnFd
  <2>2. /\ fin' \in [ConnFd -> {"open", "eof", "reset"}]
        /\ arrived' \in [ConnFd -> Nat] /\ taken' \in [ConnFd -> Nat]
        /\ drained' \in [ConnFd -> Nat]
    <3>0. /\ fin \in [ConnFd -> {"open", "eof", "reset"}]
          /\ arrived \in [ConnFd -> Nat] /\ taken \in [ConnFd -> Nat]
          /\ drained \in [ConnFd -> Nat]
      BY <1>0 DEF ServTypes
    <3>1. CASE f = BadFd
      BY <3>0, <3>1
    <3>2. CASE f # BadFd
      <4>1. fin' = [fin EXCEPT ![f] = "open"] /\ arrived' = [arrived EXCEPT ![f] = 0]
            /\ taken' = [taken EXCEPT ![f] = 0] /\ drained' = [drained EXCEPT ![f] = 0]
        BY <3>2
      <4>2. fin' \in [ConnFd -> {"open", "eof", "reset"}]
        BY <3>0, <4>1
      <4>3. arrived' \in [ConnFd -> Nat] /\ taken' \in [ConnFd -> Nat]
            /\ drained' \in [ConnFd -> Nat]
        BY <3>0, <4>1
      <4> QED
        BY <4>2, <4>3
    <3> QED
      BY <3>1, <3>2
  <2>3. wire' \in [ConnFd -> Seq(Cid \X Nat \X Nat)]
    <3>1. << >> \in Seq(Cid \X Nat \X Nat)
      OBVIOUS
    <3> QED
      BY <1>0, <3>1 DEF ServTypes
  <2> QED
    BY <1>0, <1>1, <1>2, <2>1, <2>2, <2>3 DEF ServTypes
<1>5. FreshInv'
  <2>1. c <= last_cid /\ last_cid \in Nat /\ c \in Nat
    BY <1>0, RunningLives, MainIsNoCid DEF c
  <2>2. \A d \in Cid : d > last_cid => d # c
    BY <2>1
  <2> QED
    BY <1>0, <1>1, <1>2, <2>2 DEF FreshInv
<1>6. OwnInv'
  <2>1. \A d \in coroutines : conn[d] \in open' \cup {BadFd}
    BY <1>0, <1>4 DEF OwnInv
  <2> QED
    BY <1>0, <1>1, <1>2, <2>1 DEF OwnInv
<1>7. AcceptInv' /\ LateInv'
  BY <1>0, <1>1, <1>2, <1>4 DEF AcceptInv, LateInv, c
<1>8. DataInv'
  <2>1. Good(c)'
    BY <1>2, KindsApart DEF Good, RecvGood, SendGood, GoingOn, ShortGood, Recvs, Sends, c
  <2>2. ASSUME NEW d \in coroutines PROVE Apart(c, d)'
    BY <1>2 DEF Apart, Recvs, c
  <2>3. ASSUME NEW d \in coroutines, d # c PROVE Stays(d)
    <3>1. conn[d] # BadFd => conn[d] \in ConnFd /\ conn[d] \in open
      BY <1>0, <1>1 DEF ServTypes, OwnInv
    <3>2. conn[d] # BadFd => fin'[conn[d]] = fin[conn[d]] /\ wire'[conn[d]] = wire[conn[d]]
                             /\ taken'[conn[d]] = taken[conn[d]]
      BY <1>3, <3>1
    <3>3. conn[d] # BadFd => taken[conn[d]] <= taken'[conn[d]]
      BY <1>0, <3>1, <3>2 DEF ServTypes
    <3> QED
      BY <1>0, <1>1, <1>2, <2>3, <3>2, <3>3, OthersStay
  <2> QED
    BY <1>0, <1>1, <1>4, <2>1, <2>2, <2>3, DataStep
<1>9. WireInv'
  <2>1. \A d \in Cid : Onward(d)
    <3>1. op[c].kind \notin Sends
      BY DEF c, Sends
    <3> QED
      BY <1>2, <3>1 DEF Onward
  <2>2. \A g \in ConnFd : wire'[g] = wire[g] \/ wire'[g] = << >>
    BY <1>0 DEF ServTypes
  <2> QED
    BY <1>0, <1>4, <2>1, <2>2, WireStep
<1> QED
  BY <1>1, <1>4, <1>5, <1>6, <1>7, <1>8, <1>9 DEF ServInv

\* The descriptor ::accept chooses exists.
LEMMA LowestFree ==
    ASSUME FreeFds # {}
    PROVE  \E f \in FreeFds : \A g \in FreeFds : f <= g
<1>1. FreeFds \subseteq Nat
  BY ServerConstants DEF FreeFds
<1>2. PICK f \in FreeFds : \A g \in FreeFds : ~ (<<g, f>> \in OpToRel(<, Nat))
  BY <1>1, NatLessThanWellFounded, WFMin
<1>3. \A g \in FreeFds : g \in Nat /\ f \in Nat /\ ~ (g < f)
  BY <1>1, <1>2 DEF OpToRel
<1> QED
  BY <1>3

LEMMA AcceptKeeps ==
    ASSUME ServInv, NEW c \in Cid, UNCHANGED serverVars,
           accept(c) \/ (again_fails(c) /\ op[c].kind \notin Kinds)
    PROVE  ServInv'
<1>0. /\ ServTypes /\ OwnInv /\ running = c /\ fault = "none" /\ pc[c] = "call"
      /\ op[c].kind = "accept"
  BY DEF ServInv, accept, again_fails, InCall
<1>1. c = Acceptor /\ op[c].total = 0
  BY <1>0, KindsApart DEF OwnInv
<1>2. UNCHANGED <<coVars, timers, conn, serving, start_at, late, buf>>
  BY DEF accept, again_fails, NoSwitch, timerVars, serverVars
<1>3. CASE accept(c)
  <2> DEFINE f == sys_accept
  <2>1. /\ f # Again /\ Return(c, f, "ok")
        /\ IF f = Fail
           THEN UNCHANGED <<open, pending, fin, arrived, taken, wire, drained>>
           ELSE /\ open' = open \cup {f} /\ pending' = pending - 1
                /\ fin' = [fin EXCEPT ![f] = "open"]
                /\ arrived' = [arrived EXCEPT ![f] = 0]
                /\ taken' = [taken EXCEPT ![f] = 0]
                /\ wire' = [wire EXCEPT ![f] = << >>]
                /\ drained' = [drained EXCEPT ![f] = 0]
    BY <1>3 DEF accept
  <2>2. f \in FreeFds \cup {BadFd}
    <3>1. CASE pending = 0
      BY <2>1, <3>1 DEF sys_accept
    <3>2. CASE pending # 0 /\ FreeFds = {}
      BY <3>2 DEF sys_accept, Fail, BadFd
    <3>3. CASE pending # 0 /\ FreeFds # {}
      BY <3>3, LowestFree DEF sys_accept
    <3> QED
      BY <3>1, <3>2, <3>3
  <2> HIDE DEF f
  <2>3. Fail = BadFd
    BY DEF Fail, BadFd
  <2> QED
    BY <1>0, <1>1, <1>2, <2>1, <2>2, <2>3, AcceptReturns
<1>4. CASE again_fails(c)
  <2>1. Return(c, BadFd, "EEXIST")
    BY <1>1, <1>4 DEF again_fails, Total, Fail, BadFd
  <2>2. UNCHANGED <<open, fin, arrived, taken, wire, drained>>
    BY <1>4 DEF again_fails, kernelVars
  <2> QED
    BY <1>0, <1>1, <1>2, <2>1, <2>2, AcceptReturns
<1> QED
  BY <1>3, <1>4

\* delete conn, by the only coroutine that has it.
LEMMA CloseKeeps ==
    ASSUME ServInv, NEW c \in Cid, handler_close(c)
    PROVE  ServInv'
<1>0. /\ ServTypes /\ FreshInv /\ OwnInv /\ DataInv /\ WireInv /\ CoInv /\ LateInv
      /\ Acceptor \in Cid /\ BadFd \notin Fd
      /\ running = c /\ fault = "none" /\ pc[c] = "user" /\ c # Acceptor
  BY ServerConstants DEF ServInv, CoInv, ServTypes, handler_close, Handling, InUserCode
<1>1. /\ op' = [op EXCEPT ![c] = NoOp] /\ buf' = [buf EXCEPT ![c] = << >>]
      /\ conn' = [conn EXCEPT ![c] = BadFd] /\ open' = open \ {conn[c]}
      /\ UNCHANGED <<eventVars, result, fin, arrived, taken, wire, drained>>
      /\ UNCHANGED <<serving, start_at, late>>
      /\ conn[c] \in open /\ \A d \in coroutines : d # c => conn[d] # conn[c]
  BY DEF handler_close, close, Sharing
<1>2. UNCHANGED <<coVars, pc, calls, timers>>
  BY <1>1 DEF eventVars, callVars, timerVars
<1>3. /\ CoTypeOK' /\ SwitchInv' /\ coroutines' = coroutines /\ last_cid' = last_cid
      /\ running' = running /\ coroutines \subseteq Cid
  BY <1>2, SameCoroutines
<1> DEFINE e == NoOp
<1>4. /\ e \in [kind : Kinds \cup {"none", "accept"}, fd : Fd \cup {BadFd}, len : Nat, total : Nat]
      /\ e.kind = "none"
  BY DEF NoOp
<1> HIDE DEF e
<1>5. /\ op'[c] = e /\ conn'[c] = BadFd
      /\ \A d \in Cid : d # c => op'[d] = op[d] /\ buf'[d] = buf[d] /\ conn'[d] = conn[d]
  BY <1>0, <1>1 DEF ServTypes, e
<1>6. ServTypes'
  <2>1. buf' \in [Cid -> Seq(Nat)]
    BY <1>0, <1>1 DEF ServTypes
  <2>2. op' \in [Cid -> [kind : Kinds \cup {"none", "accept"}, fd : Fd \cup {BadFd},
                         len : Nat, total : Nat]]
    BY <1>0, <1>1, <1>4 DEF ServTypes, e
  <2> QED
    BY <1>0, <1>1, <1>2, <1>3, <2>1, <2>2 DEF ServTypes
<1>7. FreshInv'
  BY <1>0, <1>2, <1>3, <1>4, <1>5 DEF FreshInv
<1>8. OwnInv'
  <2>1. ASSUME NEW d \in coroutines PROVE conn'[d] \in open' \cup {BadFd}
    BY <1>0, <1>1, <1>3, <1>5 DEF OwnInv
  <2> QED
    BY <1>0, <1>3, <1>4, <1>5, <2>1 DEF OwnInv
<1>9. AcceptInv' /\ LateInv'
  BY <1>0, <1>1, <1>2, StartKeeps
<1>10. DataInv'
  <2>1. ASSUME NEW d \in coroutines, d # c PROVE Stays(d)
    <3>1. conn[d] # BadFd => taken[conn[d]] <= taken'[conn[d]]
      BY <1>0, <1>1, <1>3 DEF ServTypes
    <3> QED
      BY <1>0, <1>1, <1>2, <1>3, <1>5, <2>1, <3>1, OthersStay
  <2>2. Good(c)' /\ \A d \in coroutines : Apart(c, d)'
    BY <1>3, <1>4, <1>5, NoneGood
  <2> QED
    BY <1>0, <1>3, <1>6, <2>1, <2>2, DataStep
<1>11. WireInv'
  <2>1. \A d \in Cid : Onward(d)
    BY <1>0, <1>2, <1>5 DEF Onward
  <2>2. \A g \in ConnFd : wire'[g] = wire[g] \/ wire'[g] = << >>
    BY <1>1
  <2> QED
    BY <1>0, <1>6, <2>1, <2>2, WireStep
<1> QED
  BY <1>3, <1>6, <1>7, <1>8, <1>9, <1>10, <1>11 DEF ServInv

-----------------------------------------------------------------------------
(* The theorems *)

LEMMA ServInit == ServerInit => ServInv
<1> SUFFICES ASSUME ServerInit PROVE ServInv
  OBVIOUS
<1>0. Acceptor \in Cid /\ BadFd \notin Fd /\ ListenFd \in Fd
  BY ServerConstants, SocketConstants
<1>1. CoInit /\ SockInit /\ EventInit
  BY DEF ServerInit, SockInit, EventInit
<1>2. coroutines = {}
  BY <1>1 DEF CoInit, coroutines
<1>3. CoTypeOK /\ SwitchInv
  BY <1>1, SwitchInit, CoroutineConstants
     DEF CoInit, CoTypeOK, SwitchTypeOK, DeferTypeOK, Stack, Main, Faults
<1> DEFINE e == NoOp
           z == [ret |-> 0, errno |-> "ok"]
<1>4. /\ e \in [kind : Kinds \cup {"none", "accept"}, fd : Fd \cup {BadFd}, len : Nat, total : Nat]
      /\ e.kind = "none" /\ e.total = 0
      /\ z \in [ret : Int, errno : {"ok", "end", "EEXIST"}]
  BY DEF NoOp
<1>5. op = [c \in Cid |-> e] /\ result = [c \in Cid |-> z]
  BY <1>1 DEF SockInit
<1> HIDE DEF e, z
<1>6. ServTypes
  <2>1. /\ pc \in [Cid -> {"user", "call", "wait_event"}] /\ calls \in [Cid -> Nat] /\ timers = {}
    BY <1>1 DEF EventInit
  <2>2. buf \in [Cid -> Seq(Nat)] /\ wire \in [ConnFd -> Seq(Cid \X Nat \X Nat)]
    BY <1>1 DEF SockInit
  <2>3. /\ open \subseteq Fd /\ fin \in [ConnFd -> {"open", "eof", "reset"}]
        /\ arrived \in [ConnFd -> Nat] /\ taken \in [ConnFd -> Nat] /\ drained \in [ConnFd -> Nat]
    BY <1>0, <1>1 DEF SockInit
  <2>4. /\ op \in [Cid -> [kind : Kinds \cup {"none", "accept"}, fd : Fd \cup {BadFd},
                           len : Nat, total : Nat]]
        /\ result \in [Cid -> [ret : Int, errno : {"ok", "end", "EEXIST"}]]
    BY <1>4, <1>5
  <2>5. /\ serving \in BOOLEAN /\ start_at \in {"begin", "top", "accept", "returned"}
        /\ conn \in [Cid -> ConnFd \cup {BadFd}] /\ late \in Nat
    BY DEF ServerInit
  <2> QED
    BY <1>3, <2>1, <2>2, <2>3, <2>4, <2>5 DEF ServTypes
<1>7. FreshInv /\ OwnInv
  BY <1>0, <1>1, <1>2, <1>4, <1>5 DEF FreshInv, OwnInv, EventInit, ServerInit
<1>8. AcceptInv /\ LateInv
  BY DEF AcceptInv, LateInv, ServerInit
<1>9. DataInv /\ WireInv
  BY <1>1, <1>2 DEF DataInv, WireInv, SockInit
<1> QED
  BY <1>3, <1>6, <1>7, <1>8, <1>9 DEF ServInv

LEMMA ServStep == ServInv /\ [ServerNext]_allVars => ServInv'
<1> SUFFICES ASSUME ServInv, [ServerNext]_allVars PROVE ServInv'
  OBVIOUS
<1>1. CASE LoopStep(ReadyFds) /\ UNCHANGED <<sockVars, serverVars>>
  BY <1>1, LoopKeeps
<1>2. ASSUME NEW c \in Cid, SocketStep(c), UNCHANGED serverVars PROVE ServInv'
  <2>1. CASE recv(c)
    BY <1>2, <2>1, RecvKeeps
  <2>2. CASE send(c)
    BY <1>2, <2>2, SendKeeps
  <2>3. CASE accept(c) \/ (again_fails(c) /\ op[c].kind \notin Kinds)
    BY <1>2, <2>3, AcceptKeeps
  <2>4. CASE again_fails(c) /\ op[c].kind \in Kinds
    BY <1>2, <2>4, AgainFailsKeeps
  <2>5. CASE again(c) \/ woken(c)
    BY <1>2, <2>5, WaitKeeps
  <2> QED
    <3>1. recv(c) \/ send(c) \/ accept(c) \/ again(c) \/ again_fails(c) \/ woken(c)
      BY <1>2 DEF SocketStep
    <3> QED
      BY <2>1, <2>2, <2>3, <2>4, <2>5, <3>1
<1>3. ASSUME NEW c \in Cid,
             \/ handler_call(c) \/ handler_share(c) \/ handler_close(c)
             \/ shutdown(c) \/ server_end(c)
      PROVE  ServInv'
  BY <1>3, CallsKeep, CreateStep, CloseKeeps, StartStep, EndStep
<1>4. CASE start_begin \/ start_accept \/ start_serve \/ start_return
  BY <1>4, CallsKeep, CreateStep, StartStep
<1>5. CASE Peers
  BY <1>5, PeersStep
<1>6. CASE UNCHANGED allVars
  <2>1. /\ UNCHANGED <<coVars, running, pc, calls, timers, op, buf, result>>
        /\ UNCHANGED <<serving, start_at, conn, late, open, fin, arrived, taken, wire, drained>>
    BY <1>6 DEF allVars, eventVars, coVars, switchVars, sockVars, progVars, kernelVars, callVars,
                timerVars, serverVars
  <2>2. /\ CoTypeOK' /\ SwitchInv' /\ coroutines' = coroutines /\ last_cid' = last_cid
    BY <2>1, SameCoroutines
  <2>3. ServTypes' /\ FreshInv' /\ OwnInv' /\ AcceptInv' /\ LateInv'
    BY <2>1, <2>2 DEF ServInv, ServTypes, FreshInv, OwnInv, AcceptInv, LateInv
  <2>4. WireInv'
    BY <2>1 DEF ServInv, WireInv, Made
  <2>5. DataInv'
    BY <2>1, <2>2 DEF ServInv, DataInv, Good, RecvGood, SendGood, GoingOn, ShortGood, Apart,
                      MovedBy, Number
  <2> QED
    BY <2>2, <2>3, <2>4, <2>5 DEF ServInv
<1> QED
  BY <1>1, <1>2, <1>3, <1>4, <1>5, <1>6 DEF ServerNext, ServerThread

\* The state of the server, its coroutines and their calls stays consistent:
\* the inductive invariant the properties below are read off from.
THEOREM ServerCorrect == ServerSpec => []ServInv
<1> QED
  BY ServInit, ServStep, PTL DEF ServerSpec

\* What recv and recv_all put into their buffers is in order, complete and
\* nobody else's, however often the calls were parked and whoever shares the
\* connection.
THEOREM ReceivesCorrect == ServerSpec => []RecvIntact
<1>1. ASSUME ServInv PROVE RecvIntact
  <2> SUFFICES ASSUME NEW c \in coroutines, op[c].kind \in Recvs
               PROVE  /\ Len(buf[c]) = MovedBy(c)
                      /\ \A i, j \in 1 .. Len(buf[c]) : i < j => buf[c][i] < buf[c][j]
                      /\ \A d \in Sharing(c) : op[d].kind \in Recvs =>
                           \A i \in 1 .. Len(buf[c]), j \in 1 .. Len(buf[d]) :
                              buf[c][i] # buf[d][j]
    BY DEF RecvIntact, Recvs
  <2>1. RecvGood(c) /\ \A d \in coroutines : c # d => Apart(c, d)
    BY <1>1 DEF ServInv, DataInv, Good
  <2>2. \A d \in Sharing(c) : d \in coroutines /\ c # d /\ conn[d] = conn[c]
    BY DEF Sharing
  <2> QED
    BY <2>1, <2>2 DEF RecvGood, Apart
<1> QED
  BY <1>1, ServerCorrect, PTL

\* What send and send_all have put on the wire is a prefix of their buffer, as
\* long as the call counts, whatever was sent on the connection in between.
THEOREM SendsCorrect == ServerSpec => []SendIntact
<1>1. ASSUME ServInv PROVE SendIntact
  <2> SUFFICES ASSUME NEW c \in coroutines, op[c].kind \in Sends, op[c].fd # BadFd
               PROVE  Prefix(wire[op[c].fd], c, Number(c), MovedBy(c))
    BY DEF SendIntact, Sends, Prefix, Mine, Number
  <2>1. c \in Cid /\ c # Acceptor /\ op[c].kind # "none"
    BY <1>1 DEF coroutines, ServInv, OwnInv, Sends
  <2>2. op[c].fd = conn[c]
    BY <1>1, <2>1 DEF ServInv, OwnInv
  <2>3. SendGood(c)
    BY <1>1 DEF ServInv, DataInv, Good
  <2> QED
    BY <2>2, <2>3 DEF SendGood
<1> QED
  BY <1>1, ServerCorrect, PTL

\* recv_all and send_all come back short only at the end of the stream, after
\* a reset, on a bad descriptor, or because somebody else waits for it.
THEOREM ShortReturnsCorrect == ServerSpec => []ShortMeansEnd
<1>1. ASSUME ServInv PROVE ShortMeansEnd
  <2> SUFFICES ASSUME NEW c \in coroutines, pc[c] = "user",
                      op[c].kind \in {"recv_all", "send_all"}, result[c].ret < op[c].len
               PROVE  \/ op[c].fd = BadFd \/ result[c].errno = "EEXIST"
                      \/ op[c].kind = "recv_all" /\ fin[op[c].fd] # "open"
                      \/ op[c].kind = "send_all" /\ fin[op[c].fd] = "reset"
    BY DEF ShortMeansEnd
  <2>1. c \in Cid /\ c # Acceptor /\ op[c].kind # "none"
    BY <1>1 DEF coroutines, ServInv, OwnInv
  <2>2. op[c].fd = conn[c]
    BY <1>1, <2>1 DEF ServInv, OwnInv
  <2>3. ShortGood(c)
    BY <1>1 DEF ServInv, DataInv, Good
  <2> QED
    BY <2>2, <2>3 DEF ShortGood
<1> QED
  BY <1>1, ServerCorrect, PTL

\* After shutdown at most the connection start already waits for is served.
THEOREM ShutdownCorrect == ServerSpec => []AtMostOneLate
<1>1. ASSUME ServInv PROVE AtMostOneLate
  <2>1. late \in Nat /\ late <= 1 /\ (start_at = "accept" => late # 1)
    BY <1>1 DEF ServInv, ServTypes, LateInv
  <2> QED
    BY <2>1 DEF AtMostOneLate
<1> QED
  BY <1>1, ServerCorrect, PTL
=============================================================================
