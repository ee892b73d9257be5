---------------------------- MODULE ChannelProofs ----------------------------
(***************************************************************************)
(* The channel, proved for every capacity and every number of coroutines,  *)
(* calls and timeouts: it implements a bounded queue, and as long as no    *)
(* call has started the timer of a timeout no wake-up is lost, nobody      *)
(* overtakes and nothing fails.                                            *)
(***************************************************************************)
EXTENDS Channel, EventProofs

-----------------------------------------------------------------------------
(* The inductive invariant *)

\* The calls made so far, of which some were push or pop.
Made == {p \in Cid \X (1 .. MaxCalls) : p[2] <= calls[p[1]]}

\* What holds with and without timeouts: a coroutine inside push or pop is
\* suspended there or runs, a new coroutine is in its own code, no descriptor
\* is waited for, the history is in bounds.
CallInv ==
    /\ \A c \in Cid : Pushing(c) \/ Popping(c) => state[c] = "suspended" \/ c = running
    /\ \A c \in Cid : state[c] = "none" => pc[c] = "user"
    /\ events = << >>
    /\ timed => Timeouts # {}
    /\ pushes + pops <= Cardinality(Made)

\* Without timeouts, every timer belongs to one coroutine that sleeps.
Sleeper(c) == state[c] = "suspended" /\ pc[c] = "sleep"
SleepersOnly ==
    /\ \A t \in timers : Sleeper(t.co)
    /\ \A t, u \in timers : t.co = u.co => t = u

\* The running coroutine was just resumed inside push, or inside pop.
PushWoken == running # Main /\ Pushing(running)
PopWoken  == running # Main /\ Popping(running)

WaitingIn(q, c) == \E i \in 1 .. Len(q) : q[i] = c
NoDuplicates(q) == \A i, j \in 1 .. Len(q) : q[i] = q[j] => i = j

\* WaitersExact, the waiting queues.
QueuesExact ==
    /\ \A c \in Cid : (state[c] = "suspended" /\ Pushing(c)) <=> WaitingIn(producer_queue, c)
    /\ \A c \in Cid : (state[c] = "suspended" /\ Popping(c)) <=> WaitingIn(consumer_queue, c)
    /\ NoDuplicates(producer_queue) /\ NoDuplicates(consumer_queue)

\* NoLostWakeup, with the slot or the item that a resumed coroutine finds.
WakeupsExact ==
    /\ PushWoken => Len(data_queue) = Capacity - 1
    /\ PopWoken => Len(data_queue) = 1
    /\ producer_queue # << >> => Len(data_queue) = Capacity \/ PushWoken
    /\ consumer_queue # << >> => Len(data_queue) = 0 \/ PopWoken

\* Calls that have completed: all that were made but the ones that wait and
\* the one that was just resumed.
Deposited == pushes - Len(producer_queue) - (IF PushWoken THEN 1 ELSE 0)
Withdrawn == pops - Len(consumer_queue) - (IF PopWoken THEN 1 ELSE 0)

\* The calls complete in the order in which they were made: the items of the
\* queue, and the tickets of those who wait, are consecutive.
InOrder ==
    /\ Len(data_queue) = Deposited - Withdrawn
    /\ \A i \in 1 .. Len(data_queue) : data_queue[i] = Withdrawn + i
    /\ \A i \in 1 .. Len(producer_queue) :
          ticket[producer_queue[i]] = pushes - Len(producer_queue) + i
    /\ \A i \in 1 .. Len(consumer_queue) :
          ticket[consumer_queue[i]] = pops - Len(consumer_queue) + i
    /\ PushWoken => ticket[running] = Deposited + 1
    /\ PopWoken => ticket[running] = Withdrawn + 1

\* CallsPairInOrder, the results.
Paired == \A c \in Cid : result[c].op # "none" =>
                            result[c].ok /\ result[c].item = ticket[c]

Orderly ==
    /\ fault = "none" /\ SleepersOnly /\ QueuesExact /\ WakeupsExact
    /\ InOrder /\ Paired

ChanInv ==
    /\ ChanTypeOK /\ SwitchInv /\ CallInv
    /\ ~ timed => Orderly

-----------------------------------------------------------------------------
(* Every step is a step of the coroutine library *)

\* A notification is a resume, possibly one that fails, or nothing.
LEMMA NoticeIsCoStep ==
    ASSUME fault = "none", NEW q \in Seq(Cid), NEW q2, notice(q, q2)
    PROVE  [CoNext]_coVars
<1>1. CASE q = << >>
  BY <1>1 DEF notice
<1>2. CASE q # << >>
  <2>1. Head(q) \in Cid
    BY <1>2
  <2> QED
    BY <1>2, <2>1 DEF notice, CoNext
<1> QED
  BY <1>1, <1>2

LEMMA ChanCoStep ==
    ASSUME ChanInv, [ChanNext]_chanVars
    PROVE  [CoNext]_coVars
<1>t. /\ producer_queue \in Seq(Cid) /\ consumer_queue \in Seq(Cid)
      /\ \A t \in timers : t.co \in Cid
      /\ events = << >> /\ idx \in Nat \ {0}
  BY EventConstants DEF ChanInv, ChanTypeOK, EventTypeOK, CallInv
<1>1. CASE LoopStep({})
  <2>1. CASE run
    BY <2>1 DEF run, OnMain, CoNext
  <2>2. CASE wait_returns \/ epoll_wait \/ epoll_none({}) \/ run_timers_done
             \/ epoll_events({}) \/ handle_timer
    BY <2>2 DEF wait_returns, epoll_wait, epoll_none, run_timers_done, Goto,
                epoll_events, handle_timer
  <2>3. CASE handle_io
    BY <2>3, <1>t DEF handle_io
  <2>4. CASE run_timers
    <3>1. PICK t \in Tops : resume(t.co, FALSE)
      BY <2>4 DEF run_timers
    <3>2. t.co \in Cid
      BY <1>t DEF Tops
    <3> QED
      BY <2>4, <3>1, <3>2 DEF run_timers, OnMain, CoNext
  <2> QED
    BY <1>1, <2>1, <2>2, <2>3, <2>4 DEF LoopStep
<1>2. ASSUME NEW c \in Cid, ChanStep(c) PROVE [CoNext]_coVars
  <2>1. CASE chan_create(c) \/ chan_end(c)
    BY <2>1 DEF chan_create, chan_end, InUserCode, CoNext
  <2>2. CASE \E t \in Delays : chan_sleep(c, t)
    BY <2>2 DEF chan_sleep, sleep, InUserCode, CoNext
  <2>3. CASE \E t \in TimeoutArg : push_blocks(c, t) \/ pop_blocks(c, t)
    BY <2>3 DEF push_blocks, pop_blocks, PushCalled, PopCalled, Block, InUserCode, CoNext
  <2>4. CASE push_at_once(c)
    BY <2>4, <1>t, NoticeIsCoStep DEF push_at_once, PushCalled, InUserCode, Deposit
  <2>5. CASE pop_at_once(c)
    BY <2>5, <1>t, NoticeIsCoStep DEF pop_at_once, PopCalled, InUserCode, Withdraw
  <2>6. CASE push_woken(c)
    BY <2>6, <1>t, NoticeIsCoStep DEF push_woken, Deposit
  <2>7. CASE pop_woken(c)
    BY <2>7, <1>t, NoticeIsCoStep DEF pop_woken, Withdraw
  <2> QED
    BY <1>2, <2>1, <2>2, <2>3, <2>4, <2>5, <2>6, <2>7 DEF ChanStep
<1>3. CASE Tick \/ UNCHANGED chanVars
  BY <1>3 DEF Tick, chanVars, eventVars
<1> QED
  BY <1>1, <1>2, <1>3 DEF ChanNext, ChanThread

-----------------------------------------------------------------------------
(* Types and the bound on the history *)

\* A call more is made.
LEMMA MadeGrows ==
    ASSUME EventTypeOK, NEW c \in Cid, Counted(c)
    PROVE  /\ Cardinality(Made) \in Nat /\ Cardinality(Made') = Cardinality(Made) + 1
           /\ Cardinality(Made') <= MaxCid * MaxCalls
<1> USE EventConstants, CoroutineConstants
<1>t. calls \in [Cid -> 0 .. MaxCalls]
  BY DEF EventTypeOK
<1>1. /\ calls[c] + 1 \in 1 .. MaxCalls /\ calls'[c] = calls[c] + 1
      /\ \A d \in Cid : d # c => calls'[d] = calls[d]
      /\ \A d \in Cid : calls[d] \in Nat
  BY <1>t DEF Counted
<1>2. Made' = Made \cup {<<c, calls[c] + 1>>} /\ <<c, calls[c] + 1>> \notin Made
  <2> DEFINE new == <<c, calls[c] + 1>>
  <2>1. new \in Cid \X (1 .. MaxCalls) /\ new[1] = c /\ new[2] = calls[c] + 1
    BY <1>1
  <2>2. ASSUME NEW p \in Cid \X (1 .. MaxCalls)
        PROVE  p \in Made' <=> p \in Made \/ p = new
    <3>1. p = <<p[1], p[2]>> /\ p[1] \in Cid /\ p[2] \in Nat
      OBVIOUS
    <3>2. CASE p[1] # c
      BY <3>1, <3>2, <1>1, <2>1 DEF Made
    <3>3. CASE p[1] = c
      BY <3>1, <3>3, <1>1, <2>1 DEF Made
    <3> QED
      BY <3>2, <3>3
  <2>3. new \notin Made
    BY <1>1, <2>1 DEF Made
  <2>4. Made' \subseteq Cid \X (1 .. MaxCalls) /\ Made \subseteq Cid \X (1 .. MaxCalls)
    BY DEF Made
  <2> HIDE DEF new
  <2>5. Made' = Made \cup {new}
    BY <2>1, <2>2, <2>4
  <2> QED
    BY <2>3, <2>5 DEF new
<1>3. /\ IsFiniteSet(Cid) /\ Cardinality(Cid) = MaxCid
      /\ IsFiniteSet(1 .. MaxCalls) /\ Cardinality(1 .. MaxCalls) = MaxCalls
  <2>1. /\ IsFiniteSet(1 .. MaxCid) /\ Cardinality(1 .. MaxCid) = MaxCid
    BY FS_Interval
  <2>2. /\ IsFiniteSet(1 .. MaxCalls) /\ Cardinality(1 .. MaxCalls) = MaxCalls
    BY FS_Interval
  <2> QED
    BY <2>1, <2>2 DEF Cid
<1>4. /\ IsFiniteSet(Cid \X (1 .. MaxCalls))
      /\ Cardinality(Cid \X (1 .. MaxCalls)) = MaxCid * MaxCalls
  BY <1>3, FS_Product
<1>5. /\ Made \subseteq Cid \X (1 .. MaxCalls) /\ Made' \subseteq Cid \X (1 .. MaxCalls)
  BY DEF Made
<1>6. /\ IsFiniteSet(Made) /\ IsFiniteSet(Made')
      /\ Cardinality(Made') <= Cardinality(Cid \X (1 .. MaxCalls))
  BY <1>4, <1>5, FS_Subset
<1>7. Cardinality(Made) \in Nat /\ Cardinality(Made') = Cardinality(Made) + 1
  BY <1>2, <1>6, FS_CardinalityType, FS_AddElement
<1> QED
  BY <1>4, <1>6, <1>7

\* So one more push or pop is in bounds.
LEMMA CallInBounds ==
    ASSUME ChanInv, NEW c \in Cid, Counted(c)
    PROVE  /\ pushes + 1 \in Calls /\ pops + 1 \in Calls
           /\ pushes + pops + 1 <= Cardinality(Made')
           /\ pushes + pops <= Cardinality(Made')
<1>1. /\ Cardinality(Made) \in Nat /\ Cardinality(Made') = Cardinality(Made) + 1
      /\ Cardinality(Made') <= MaxCid * MaxCalls
  BY MadeGrows DEF ChanInv, ChanTypeOK
<1>2. MaxCid * MaxCalls \in Nat
  BY EventConstants, CoroutineConstants
<1>3. pushes \in Nat /\ pops \in Nat /\ pushes + pops <= Cardinality(Made)
  BY <1>2 DEF ChanInv, ChanTypeOK, CallInv, Calls
<1> QED
  BY <1>1, <1>2, <1>3 DEF Calls

PcT == pc \in [Cid -> {"user", "sleep", "push", "pop", "push_timed", "pop_timed"}]
QueueT == /\ data_queue \in Seq(Calls) /\ Len(data_queue) <= Capacity
          /\ producer_queue \in Seq(Cid) /\ consumer_queue \in Seq(Cid)
HistT == /\ ticket \in [Cid -> Calls]
         /\ pushes \in Calls /\ pops \in Calls /\ timed \in BOOLEAN
         /\ result \in [Cid -> [op : {"none", "push", "pop"}, ok : BOOLEAN, item : Calls]]

\* The parts of ChanTypeOK.
LEMMA ChanParts ==
    /\ ChanTypeOK <=> CoTypeOK /\ PartsOK /\ PcT /\ QueueT /\ HistT
    /\ ChanTypeOK' <=> CoTypeOK' /\ PartsOK' /\ PcT' /\ QueueT' /\ HistT'
BY TypeParts DEF ChanTypeOK, PcT, QueueT, HistT

LEMMA ChanFrames ==
    ASSUME PcT, QueueT, HistT
    PROVE  /\ UNCHANGED callVars => PcT'
           /\ UNCHANGED queueVars => QueueT'
           /\ UNCHANGED histVars => HistT'
BY DEF PcT, QueueT, HistT, callVars, queueVars, histVars

\* Taking the head of a waiting queue.
LEMMA NoticeType ==
    ASSUME NEW q \in Seq(Cid), NEW q2, notice(q, q2) PROVE q2 \in Seq(Cid)
<1>1. CASE q = << >>
  BY <1>1 DEF notice
<1>2. CASE q # << >>
  BY <1>2 DEF notice
<1> QED
  BY <1>1, <1>2

\* Depositing and withdrawing keep the types, if the item is a call.
LEMMA DepositType ==
    ASSUME ChanInv, NEW c \in Cid, NEW v \in Calls, Deposit(c, v), Len(data_queue) # Capacity,
           UNCHANGED timed,
           ticket' \in [Cid -> Calls], pushes' \in Calls, pops' \in Calls,
           calls' \in [Cid -> 0 .. MaxCalls]
    PROVE  PartsOK' /\ PcT' /\ QueueT' /\ HistT'
<1>t. PartsOK /\ PcT /\ QueueT /\ HistT
  BY ChanParts DEF ChanInv
<1>1. PartsOK'
  <2>1. CallsTypeOK'
    BY <1>t DEF PartsOK, CallsTypeOK, Deposit
  <2> QED
    BY <1>t, <2>1, TypeFrames DEF PartsOK, Deposit, timerVars, pollVars
<1>2. PcT'
  BY <1>t DEF PcT, Deposit, Finish
<1>3. QueueT'
  BY <1>t, NoticeType, ChannelConstants DEF QueueT, Deposit
<1>4. HistT'
  BY <1>t DEF HistT, Deposit, Finish
<1> QED
  BY <1>1, <1>2, <1>3, <1>4

LEMMA WithdrawType ==
    ASSUME ChanInv, NEW c \in Cid, Withdraw(c), data_queue # << >>, UNCHANGED timed,
           ticket' \in [Cid -> Calls], pushes' \in Calls, pops' \in Calls,
           calls' \in [Cid -> 0 .. MaxCalls]
    PROVE  PartsOK' /\ PcT' /\ QueueT' /\ HistT'
<1>t. PartsOK /\ PcT /\ QueueT /\ HistT
  BY ChanParts DEF ChanInv
<1>1. PartsOK'
  <2>1. CallsTypeOK'
    BY <1>t DEF PartsOK, CallsTypeOK, Withdraw
  <2> QED
    BY <1>t, <2>1, TypeFrames DEF PartsOK, Withdraw, timerVars, pollVars
<1>2. PcT'
  BY <1>t DEF PcT, Withdraw, Finish
<1>3. QueueT'
  <2>1. Tail(data_queue) \in Seq(Calls) /\ Len(Tail(data_queue)) = Len(data_queue) - 1
    BY <1>t DEF QueueT
  <2>2. Len(data_queue) \in Nat
    BY <1>t DEF QueueT
  <2> QED
    BY <1>t, <2>1, <2>2, NoticeType, ChannelConstants DEF QueueT, Withdraw
<1>4. HistT'
  <2>1. Head(data_queue) \in Calls
    BY <1>t DEF QueueT
  <2> QED
    BY <1>t, <2>1 DEF HistT, Withdraw, Finish
<1> QED
  BY <1>1, <1>2, <1>3, <1>4

\* A blocked call keeps the types.
LEMMA BlockType ==
    ASSUME ChanInv, NEW c \in Cid, NEW o \in {"push", "pop"}, NEW timeout \in TimeoutArg,
           Block(c, o, timeout),
           ticket' \in [Cid -> Calls], pushes' \in Calls, pops' \in Calls,
           producer_queue' \in Seq(Cid), consumer_queue' \in Seq(Cid)
    PROVE  PartsOK' /\ PcT' /\ QueueT' /\ HistT'
<1>t. PartsOK /\ PcT /\ QueueT /\ HistT
  BY ChanParts DEF ChanInv
<1>1. PartsOK'
  BY <1>t, TypeFrames, CountedType DEF PartsOK, Block, Park, pollVars
<1>2. PcT'
  <2>1. In(o, timeout) \in {"push", "pop", "push_timed", "pop_timed"}
    BY DEF In
  <2> QED
    BY <1>t, <2>1 DEF PcT, Block, Park
<1>3. QueueT'
  BY <1>t DEF QueueT, Block
<1>4. HistT'
  <2>1. 0 \in Calls
    BY EventConstants, CoroutineConstants DEF Calls
  <2> QED
    BY <1>t, <2>1 DEF HistT, Block, NoResult
<1> QED
  BY <1>1, <1>2, <1>3, <1>4

\* Every step keeps the types.
LEMMA ChanTypeStep == ASSUME ChanInv, [ChanNext]_chanVars PROVE ChanTypeOK'
<1>t. CoTypeOK /\ EventTypeOK /\ PartsOK /\ PcT /\ QueueT /\ HistT
  BY ChanParts, TypeParts DEF ChanInv
<1>c. CoTypeOK'
  BY <1>t, ChanCoStep, TypeStep
<1>s. SUFFICES PartsOK' /\ PcT' /\ QueueT' /\ HistT'
  BY <1>c, ChanParts
<1>1. ASSUME LoopStep({}), UNCHANGED <<queueVars, histVars>>
      PROVE  PartsOK' /\ PcT' /\ QueueT' /\ HistT'
  <2>1. PartsOK'
    BY <1>1, <1>t, LoopStepTypes
  <2>2. UNCHANGED callVars
    BY <1>1 DEF LoopStep, run, wait_returns, epoll_wait, epoll_events,
                epoll_none, handle_io, handle_timer, run_timers, run_timers_done, Goto
  <2> QED
    BY <1>1, <1>t, <2>1, <2>2, ChanFrames
<1>2. ASSUME NEW c \in Cid, ChanStep(c) PROVE PartsOK' /\ PcT' /\ QueueT' /\ HistT'
  <2>1. CASE chan_create(c) \/ chan_end(c)
    BY <2>1, <1>t, TypeFrames, ChanFrames DEF chan_create, chan_end, PartsOK, timerVars, pollVars
  <2>2. ASSUME NEW t \in Delays, chan_sleep(c, t) PROVE PartsOK' /\ PcT' /\ QueueT' /\ HistT'
    <3>1. PartsOK'
      BY <2>2, <1>t, TypeFrames, CountedType DEF chan_sleep, sleep, Park, PartsOK, pollVars
    <3>2. PcT'
      BY <2>2, <1>t DEF chan_sleep, sleep, Park, PcT
    <3> QED
      BY <2>2, <1>t, <3>1, <3>2, ChanFrames DEF chan_sleep
  <2>3. ASSUME NEW t \in TimeoutArg, push_blocks(c, t)
        PROVE  PartsOK' /\ PcT' /\ QueueT' /\ HistT'
    <3>1. pushes + 1 \in Calls
      BY <2>3, CallInBounds DEF push_blocks, Block, Park
    <3>2. ticket' \in [Cid -> Calls] /\ pushes' \in Calls /\ pops' \in Calls
      BY <2>3, <1>t, <3>1 DEF push_blocks, PushCalled, HistT
    <3>3. producer_queue' \in Seq(Cid) /\ consumer_queue' \in Seq(Cid)
      BY <2>3, <1>t DEF push_blocks, QueueT
    <3> QED
      BY <2>3, <3>2, <3>3, BlockType DEF push_blocks
  <2>4. ASSUME NEW t \in TimeoutArg, pop_blocks(c, t)
        PROVE  PartsOK' /\ PcT' /\ QueueT' /\ HistT'
    <3>1. pops + 1 \in Calls
      BY <2>4, CallInBounds DEF pop_blocks, Block, Park
    <3>2. ticket' \in [Cid -> Calls] /\ pushes' \in Calls /\ pops' \in Calls
      BY <2>4, <1>t, <3>1 DEF pop_blocks, PopCalled, HistT
    <3>3. producer_queue' \in Seq(Cid) /\ consumer_queue' \in Seq(Cid)
      BY <2>4, <1>t DEF pop_blocks, QueueT
    <3> QED
      BY <2>4, <3>2, <3>3, BlockType DEF pop_blocks
  <2>5. CASE push_at_once(c)
    <3>1. pushes + 1 \in Calls /\ calls' \in [Cid -> 0 .. MaxCalls]
      BY <2>5, <1>t, CallInBounds, CountedType DEF push_at_once
    <3>2. ticket' \in [Cid -> Calls] /\ pushes' \in Calls /\ pops' \in Calls
      BY <2>5, <1>t, <3>1 DEF push_at_once, PushCalled, HistT
    <3> QED
      BY <2>5, <3>1, <3>2, DepositType DEF push_at_once
  <2>6. CASE pop_at_once(c)
    <3>1. pops + 1 \in Calls /\ calls' \in [Cid -> 0 .. MaxCalls]
      BY <2>6, <1>t, CallInBounds, CountedType DEF pop_at_once
    <3>2. ticket' \in [Cid -> Calls] /\ pushes' \in Calls /\ pops' \in Calls
      BY <2>6, <1>t, <3>1 DEF pop_at_once, PopCalled, HistT
    <3> QED
      BY <2>6, <3>1, <3>2, WithdrawType DEF pop_at_once
  <2>g. ASSUME NEW o \in {"push", "pop"}, Finish(c, o, FALSE, 0),
               UNCHANGED <<coVars, wfd, timerVars, loopVars, pollVars, queueVars>>,
               UNCHANGED <<calls, ticket, pushes, pops, timed>>
        PROVE  PartsOK' /\ PcT' /\ QueueT' /\ HistT'
    <3>1. PartsOK' /\ QueueT'
      BY <2>g, <1>t, TypeFrames, ChanFrames DEF PartsOK, timerVars, pollVars
    <3>2. 0 \in Calls
      BY EventConstants, CoroutineConstants DEF Calls
    <3> QED
      BY <2>g, <1>t, <3>1, <3>2 DEF PcT, HistT, Finish
  <2>k. ASSUME UNCHANGED <<calls, ticket, pushes, pops, timed>>
        PROVE  /\ ticket' \in [Cid -> Calls] /\ pushes' \in Calls /\ pops' \in Calls
               /\ calls' \in [Cid -> 0 .. MaxCalls] /\ ticket[c] \in Calls
    BY <2>k, <1>t DEF HistT, PartsOK, CallsTypeOK
  <2>7. CASE push_woken(c)
    BY <2>7, <2>g, <2>k, DepositType DEF push_woken
  <2>8. CASE pop_woken(c)
    BY <2>8, <2>g, <2>k, WithdrawType DEF pop_woken
  <2> QED
    BY <1>2, <2>1, <2>2, <2>3, <2>4, <2>5, <2>6, <2>7, <2>8 DEF ChanStep
<1>3. CASE Tick /\ UNCHANGED <<queueVars, histVars>>
  <2>1. LoopTypeOK'
    BY <1>3, <1>t, EventConstants DEF Tick, PartsOK, LoopTypeOK, loopVars, Time
  <2> QED
    BY <1>3, <1>t, <2>1, TypeFrames, ChanFrames DEF Tick, PartsOK, pollVars
<1>4. CASE UNCHANGED chanVars
  BY <1>4, <1>t, TypeFrames, ChanFrames
     DEF chanVars, eventVars, PartsOK, timerVars, pollVars
<1> QED
  BY <1>1, <1>2, <1>3, <1>4 DEF ChanNext, ChanThread

-----------------------------------------------------------------------------
(* CallInv *)

\* A resume switches to a suspended coroutine, or fails and switches nowhere.
LEMMA ResumeOrDie ==
    ASSUME NEW d \in Cid, resume(d, FALSE)
    PROVE  \/ /\ state[d] = "suspended" /\ state' = [state EXCEPT ![d] = "active"]
              /\ running' = d /\ fault' = fault
           \/ UNCHANGED <<state, running>>
BY DEF resume, swap_in, Die, switchVars

LEMMA NoticeEffect ==
    ASSUME NEW q \in Seq(Cid), NEW q2, notice(q, q2)
    PROVE  \/ /\ q # << >> /\ Head(q) \in Cid /\ state[Head(q)] = "suspended"
              /\ state' = [state EXCEPT ![Head(q)] = "active"]
              /\ running' = Head(q) /\ fault' = fault
           \/ UNCHANGED <<state, running>>
<1>1. CASE q = << >>
  BY <1>1 DEF notice, coVars, switchVars
<1>2. CASE q # << >>
  <2>1. Head(q) \in Cid
    BY <1>2
  <2> QED
    BY <1>2, <2>1, ResumeOrDie DEF notice
<1> QED
  BY <1>1, <1>2

\* Facts of the state in which a coroutine runs.
LEMMA RunningFacts ==
    ASSUME ChanInv, NEW c \in Cid, running = c
    PROVE  /\ CoInv /\ c # Main /\ running # Main /\ state[c] = "active"
           /\ state \in [Cid -> {"none", "active", "suspended", "ended"}]
           /\ pc \in [Cid -> {"user", "sleep", "push", "pop", "push_timed", "pop_timed"}]
           /\ \A d \in Cid : d # c /\ (Pushing(d) \/ Popping(d)) => state[d] = "suspended"
BY MainIsNoCid DEF ChanInv, CoInv, ChanTypeOK, EventTypeOK, CoTypeOK, SwitchTypeOK, SwitchInv,
                   CurrentIsRunning, CallInv

\* Where the coroutines are, after a step that keeps the calls made.
LEMMA PlacesStep ==
    ASSUME ChanInv, [ChanNext]_chanVars
    PROVE  /\ \A c \in Cid : (Pushing(c) \/ Popping(c))' =>
                                state'[c] = "suspended" \/ c = running'
           /\ \A c \in Cid : state'[c] = "none" => pc'[c] = "user"
<1> USE MainIsNoCid
<1> DEFINE InCall(c) == Pushing(c) \/ Popping(c)
           Places == /\ \A c \in Cid : InCall(c)' => state'[c] = "suspended" \/ c = running'
                     /\ \A c \in Cid : state'[c] = "none" => pc'[c] = "user"
<1>t. /\ state \in [Cid -> {"none", "active", "suspended", "ended"}]
      /\ pc \in [Cid -> {"user", "sleep", "push", "pop", "push_timed", "pop_timed"}]
      /\ CoInv /\ producer_queue \in Seq(Cid) /\ consumer_queue \in Seq(Cid)
      /\ \A c \in Cid : InCall(c) => state[c] = "suspended" \/ c = running
      /\ \A c \in Cid : state[c] = "none" => pc[c] = "user"
      /\ \A t \in timers : t.co \in Cid
  BY DEF ChanInv, CoInv, ChanTypeOK, EventTypeOK, CoTypeOK, SwitchTypeOK, CallInv
<1>s. SUFFICES Places
  OBVIOUS
<1>u. ASSUME UNCHANGED <<state, running, pc>> PROVE Places
  BY <1>u, <1>t DEF Pushing, Popping
<1>c. ASSUME create, UNCHANGED pc, ~ (running \in Cid /\ InCall(running)) PROVE Places
  <2>1. /\ last_cid + 1 \in Cid /\ state[last_cid + 1] = "none"
        /\ state' = [state EXCEPT ![last_cid + 1] = "active"]
    BY <1>c, <1>t, CreateEffect
  <2> QED
    BY <1>c, <1>t, <2>1 DEF Pushing, Popping
\* The running coroutine stops where w says.
<1>k. ASSUME NEW c \in Cid, running = c, NEW s \in {"suspended", "ended"}, NEW w,
             state' = [state EXCEPT ![c] = s], pc' = [pc EXCEPT ![c] = w],
             s = "ended" => w \in {"user", "sleep"}
      PROVE  Places
  BY <1>k, <1>t DEF Pushing, Popping
\* The running coroutine finishes its call and may resume another.
<1>n. ASSUME NEW c \in Cid, running = c, pc' = [pc EXCEPT ![c] = "user"],
             \/ UNCHANGED <<state, running>>
             \/ \E d \in Cid : /\ state' = [state EXCEPT ![d] = "active"] /\ running' = d
                               /\ state[d] = "suspended"
      PROVE  Places
  BY <1>n, <1>t DEF Pushing, Popping
<1>1. CASE LoopStep({})
  <2>1. CASE run
    BY <2>1, <1>c DEF run, OnMain, callVars
  <2>2. CASE wait_returns \/ epoll_wait \/ epoll_none({}) \/ run_timers_done
             \/ epoll_events({}) \/ handle_timer
    BY <2>2, <1>u DEF wait_returns, epoll_wait, epoll_none, run_timers_done, Goto,
                      epoll_events, handle_timer, coVars, switchVars, callVars
  <2>3. CASE handle_io
    BY <2>3, EventConstants DEF handle_io, ChanInv, ChanTypeOK, EventTypeOK, CallInv
  <2>4. CASE run_timers
    <3>1. PICK t \in Tops : resume(t.co, FALSE)
      BY <2>4 DEF run_timers
    <3>2. t.co \in Cid
      BY <1>t DEF Tops
    <3>3. \/ /\ state' = [state EXCEPT ![t.co] = "active"] /\ running' = t.co
             /\ state[t.co] = "suspended"
          \/ UNCHANGED <<state, running>>
      BY <3>1, <3>2, ResumeOrDie
    <3>4. running = Main /\ UNCHANGED pc
      BY <2>4 DEF run_timers, OnMain, callVars
    <3> QED
      BY <3>2, <3>3, <3>4, <1>t DEF Pushing, Popping
  <2> QED
    BY <1>1, <2>1, <2>2, <2>3, <2>4 DEF LoopStep
<1>2. ASSUME NEW c \in Cid, ChanStep(c) PROVE Places
  <2>1. CASE chan_create(c)
    BY <2>1, <1>c DEF chan_create, InUserCode, callVars, Pushing, Popping
  <2>2. CASE chan_end(c)
    <3>1. pc' = [pc EXCEPT ![c] = pc[c]] /\ pc[c] \in {"user", "sleep"} /\ running = c
      BY <2>2, <1>t DEF chan_end, callVars, InUserCode
    <3> QED
      BY <2>2, <3>1, <1>t, <1>k, EndEffect DEF chan_end
  <2>3. CASE \E t \in Delays : chan_sleep(c, t)
    BY <2>3, <1>t, <1>k, YieldEffect DEF chan_sleep, sleep, Park, InUserCode
  <2>4. CASE \E t \in TimeoutArg : push_blocks(c, t) \/ pop_blocks(c, t)
    BY <2>4, <1>t, <1>k, YieldEffect
       DEF push_blocks, pop_blocks, PushCalled, PopCalled, Block, Park, InUserCode
  <2>5. ASSUME NEW v, Deposit(c, v), running = c PROVE Places
    BY <2>5, <1>t, <1>n, NoticeEffect DEF Deposit, Finish
  <2>6. ASSUME Withdraw(c), running = c PROVE Places
    BY <2>6, <1>t, <1>n, NoticeEffect DEF Withdraw, Finish
  <2>7. CASE push_at_once(c) \/ pop_at_once(c)
    BY <2>5, <2>6, <2>7 DEF push_at_once, pop_at_once, PushCalled, PopCalled, InUserCode
  <2>8. CASE push_woken(c) \/ pop_woken(c)
    BY <2>5, <2>6, <2>8, <1>n DEF push_woken, pop_woken, Finish, coVars, switchVars
  <2> QED
    BY <1>2, <2>1, <2>2, <2>3, <2>4, <2>7, <2>8 DEF ChanStep
<1>3. CASE Tick \/ UNCHANGED chanVars
  BY <1>3, <1>u DEF Tick, chanVars, eventVars, coVars, switchVars, callVars
<1> QED
  BY <1>1, <1>2, <1>3 DEF ChanNext, ChanThread

\* No step waits for a descriptor, and the history stays in bounds.
LEMMA CallInvStep == ASSUME ChanInv, [ChanNext]_chanVars PROVE CallInv'
<1> DEFINE Rest == /\ events' = << >>
                   /\ timed' => Timeouts # {}
                   /\ pushes' + pops' <= Cardinality(Made')
<1>i. /\ events = << >> /\ (timed => Timeouts # {})
      /\ pushes + pops <= Cardinality(Made)
  BY DEF ChanInv, CallInv
<1>q. pushes \in Nat /\ pops \in Nat
  BY EventConstants, CoroutineConstants DEF ChanInv, ChanTypeOK, Calls
<1>u. ASSUME UNCHANGED <<calls, pushes, pops, timed>>, events' = events \/ events' = << >>
      PROVE  Rest
  BY <1>u, <1>i DEF Made
<1>h. ASSUME NEW c \in Cid, Counted(c), UNCHANGED events, timed' => Timeouts # {},
             pushes' + pops' \in {pushes + pops, pushes + pops + 1}
      PROVE  Rest
  BY <1>h, <1>i, CallInBounds
<1>1. Rest
  <2>1. CASE LoopStep({}) /\ UNCHANGED <<queueVars, histVars>>
    <3>1. UNCHANGED callVars /\ (events' = events \/ events' = << >>)
      <4>1. ~ epoll_events({})
        BY DEF epoll_events
      <4> QED
        BY <2>1, <4>1 DEF LoopStep, run, wait_returns, epoll_wait, epoll_none, handle_io,
                          handle_timer, run_timers, run_timers_done, Goto, pollVars
    <3> QED
      BY <2>1, <3>1, <1>u DEF callVars, histVars
  <2>2. ASSUME NEW c \in Cid, ChanStep(c) PROVE Rest
    <3>1. CASE chan_create(c) \/ chan_end(c)
      BY <3>1, <1>u DEF chan_create, chan_end, callVars, pollVars, histVars
    <3>2. CASE \E t \in Delays : chan_sleep(c, t)
      <4>1. Counted(c) /\ UNCHANGED <<events, timed, pushes, pops>>
        BY <3>2 DEF chan_sleep, sleep, Park, pollVars, histVars
      <4> QED
        BY <4>1, <1>h, <1>i
    <3>3. ASSUME NEW t \in TimeoutArg, push_blocks(c, t) \/ pop_blocks(c, t) PROVE Rest
      <4>1. /\ Counted(c) /\ UNCHANGED events
            /\ t # NoTimeout \/ timed' = timed
        BY <3>3 DEF push_blocks, pop_blocks, Block, Park, pollVars
      <4>2. t # NoTimeout => Timeouts # {}
        BY DEF TimeoutArg
      <4>3. pushes' + pops' = pushes + pops + 1
        BY <3>3, <1>q DEF push_blocks, pop_blocks, PushCalled, PopCalled
      <4> QED
        BY <4>1, <4>2, <4>3, <1>h, <1>i
    <3>4. CASE push_at_once(c) \/ pop_at_once(c)
      <4>1. Counted(c) /\ UNCHANGED <<events, timed>>
        BY <3>4 DEF push_at_once, pop_at_once, Deposit, Withdraw, pollVars
      <4>2. pushes' + pops' = pushes + pops + 1
        BY <3>4, <1>q DEF push_at_once, pop_at_once, PushCalled, PopCalled
      <4> QED
        BY <4>1, <4>2, <1>h, <1>i
    <3>5. CASE push_woken(c) \/ pop_woken(c)
      BY <3>5, <1>u DEF push_woken, pop_woken, Deposit, Withdraw, pollVars
    <3> QED
      BY <2>2, <3>1, <3>2, <3>3, <3>4, <3>5 DEF ChanStep
  <2>3. CASE Tick /\ UNCHANGED <<queueVars, histVars>>
    BY <2>3, <1>u DEF Tick, callVars, pollVars, histVars
  <2>4. CASE UNCHANGED chanVars
    BY <2>4, <1>u DEF chanVars, eventVars, callVars, pollVars, histVars
  <2> QED
    BY <2>1, <2>2, <2>3, <2>4 DEF ChanNext, ChanThread
<1> QED
  BY <1>1, PlacesStep DEF CallInv

-----------------------------------------------------------------------------
(* Orderly, as long as no timer of a timeout was started *)

\* The steps that do not touch the channel: before and after them nobody is
\* in the middle of push or pop, and the same coroutines are suspended there.
LEMMA ElsewhereStep ==
    ASSUME ChanInv, Orderly, UNCHANGED <<queueVars, histVars>>, fault' = "none",
           ~ PushWoken, ~ PopWoken, ~ PushWoken', ~ PopWoken',
           \A c \in Cid : /\ (state[c] = "suspended" /\ Pushing(c))'
                                <=> (state[c] = "suspended" /\ Pushing(c))
                          /\ (state[c] = "suspended" /\ Popping(c))'
                                <=> (state[c] = "suspended" /\ Popping(c)),
           SleepersOnly'
    PROVE  Orderly'
<1>u. UNCHANGED <<data_queue, producer_queue, consumer_queue, ticket, pushes, pops, result>>
  BY DEF queueVars, histVars
<1>1. QueuesExact'
  BY <1>u DEF Orderly, QueuesExact, WaitingIn, NoDuplicates
<1>2. WakeupsExact'
  BY <1>u DEF Orderly, WakeupsExact
<1>3. InOrder'
  BY <1>u DEF Orderly, InOrder, Deposited, Withdrawn
<1>4. Paired'
  BY <1>u DEF Orderly, Paired
<1> QED
  BY <1>1, <1>2, <1>3, <1>4 DEF Orderly

\* The steps that change no coroutine either.
LEMMA QuietStep ==
    ASSUME ChanInv, Orderly, UNCHANGED <<queueVars, histVars>>,
           UNCHANGED <<state, running, pc, fault, timers>>
    PROVE  Orderly'
<1>u. UNCHANGED <<data_queue, producer_queue, consumer_queue, ticket, pushes, pops, result>>
  BY DEF queueVars, histVars
<1>1. \A c \in Cid : (Pushing(c)' <=> Pushing(c)) /\ (Popping(c)' <=> Popping(c))
  BY DEF Pushing, Popping
<1>w. (PushWoken' <=> PushWoken) /\ (PopWoken' <=> PopWoken)
  BY DEF PushWoken, PopWoken, Pushing, Popping
<1>2. QueuesExact'
  BY <1>u, <1>1 DEF Orderly, QueuesExact, WaitingIn, NoDuplicates
<1>3. WakeupsExact'
  BY <1>u, <1>w DEF Orderly, WakeupsExact
<1>4. InOrder'
  BY <1>u, <1>w DEF Orderly, InOrder, Deposited, Withdrawn
<1>5. Paired' /\ SleepersOnly' /\ fault' = "none"
  BY <1>u DEF Orderly, Paired, SleepersOnly, Sleeper
<1> QED
  BY <1>2, <1>3, <1>4, <1>5 DEF Orderly

\* After the running coroutine has stopped, the one that runs is not in the
\* middle of push or pop.
LEMMA BackInOwnCode ==
    ASSUME ChanInv, [ChanNext]_chanVars, NEW c \in Cid, running = c,
           NEW s \in {"suspended", "ended"}, state' = [state EXCEPT ![c] = s],
           \A d \in Cid : d # c => pc'[d] = pc[d]
    PROVE  ~ PushWoken' /\ ~ PopWoken'
<1>t. /\ state \in [Cid -> {"none", "active", "suspended", "ended"}]
      /\ CoTypeOK /\ CoTypeOK' /\ SwitchInv
  BY ChanCoStep, TypeStep DEF ChanInv, ChanTypeOK, EventTypeOK, CoTypeOK, SwitchTypeOK
<1>1. SwitchInv'
  BY <1>t, ChanCoStep, SwitchStep
<1>2. running' \in Stack /\ (running' = Main \/ state'[running'] = "active")
  BY <1>1, <1>t DEF SwitchInv, CurrentIsRunning, CoTypeOK, SwitchTypeOK
<1>3. CASE running' = Main
  BY <1>3 DEF PushWoken, PopWoken
<1>4. CASE running' # Main
  <2>1. running' \in Cid /\ running' # c /\ state[running'] = "active"
    BY <1>2, <1>4, <1>t DEF Stack
  <2>2. ~ Pushing(running') /\ ~ Popping(running')
    BY <2>1 DEF ChanInv, CallInv
  <2> QED
    BY <2>1, <2>2 DEF PushWoken, PopWoken, Pushing, Popping
<1> QED
  BY <1>3, <1>4

\* A coroutine in its own code is not in the middle of push or pop.
LEMMA NobodyWoken ==
    ASSUME ChanInv, running = Main \/ \E c \in Cid : InUserCode(c)
    PROVE  ~ PushWoken /\ ~ PopWoken
BY MainIsNoCid DEF InUserCode, PushWoken, PopWoken, Pushing, Popping

LEMMA OrderlyCreate ==
    ASSUME ChanInv, Orderly, [ChanNext]_chanVars, create,
           running = Main \/ \E c \in Cid : InUserCode(c),
           UNCHANGED <<callVars, timerVars, queueVars, histVars>>
    PROVE  Orderly'
<1>t. /\ state \in [Cid -> {"none", "active", "suspended", "ended"}] /\ CoInv
      /\ \A t \in timers : t.co \in Cid
  BY DEF ChanInv, CoInv, ChanTypeOK, EventTypeOK, CoTypeOK, SwitchTypeOK
<1> DEFINE d == last_cid + 1
<1>1. /\ d \in Cid /\ state[d] = "none" /\ state' = [state EXCEPT ![d] = "active"]
      /\ running' = d /\ fault' = fault
  BY <1>t, CreateEffect
<1> HIDE DEF d
<1>2. pc[d] = "user" /\ pc' = pc /\ timers' = timers
  BY <1>1 DEF ChanInv, CallInv, callVars, timerVars
<1>3. ~ PushWoken' /\ ~ PopWoken'
  BY <1>1, <1>2 DEF PushWoken, PopWoken, Pushing, Popping
<1>4. SleepersOnly'
  BY <1>1, <1>2, <1>t DEF Orderly, SleepersOnly, Sleeper
<1> QED
  BY <1>1, <1>2, <1>3, <1>4, <1>t, NobodyWoken, ElsewhereStep DEF Pushing, Popping, Orderly

LEMMA OrderlyEnd ==
    ASSUME ChanInv, Orderly, [ChanNext]_chanVars, NEW c \in Cid, chan_end(c)
    PROVE  Orderly'
<1>t. /\ state \in [Cid -> {"none", "active", "suspended", "ended"}] /\ CoInv
      /\ \A t \in timers : t.co \in Cid
  BY DEF ChanInv, CoInv, ChanTypeOK, EventTypeOK, CoTypeOK, SwitchTypeOK
<1>1. /\ running = c /\ state' = [state EXCEPT ![c] = "ended"] /\ fault' = fault
      /\ state[c] = "active" /\ pc' = pc /\ timers' = timers
      /\ UNCHANGED <<queueVars, histVars>>
  BY <1>t, EndEffect DEF chan_end, InUserCode, callVars, timerVars
<1>2. ~ PushWoken' /\ ~ PopWoken'
  BY <1>1, BackInOwnCode
<1>3. SleepersOnly'
  BY <1>1, <1>t DEF Orderly, SleepersOnly, Sleeper
<1> QED
  BY <1>1, <1>2, <1>3, <1>t, NobodyWoken, ElsewhereStep DEF Pushing, Popping, Orderly, chan_end

LEMMA OrderlySleep ==
    ASSUME ChanInv, Orderly, [ChanNext]_chanVars, NEW c \in Cid, NEW t \in Delays,
           chan_sleep(c, t)
    PROVE  Orderly'
<1>t. /\ state \in [Cid -> {"none", "active", "suspended", "ended"}] /\ CoInv
      /\ pc \in [Cid -> {"user", "sleep", "push", "pop", "push_timed", "pop_timed"}]
      /\ \A u \in timers : u.co \in Cid
  BY DEF ChanInv, CoInv, ChanTypeOK, EventTypeOK, CoTypeOK, SwitchTypeOK
<1> DEFINE new == [exec |-> now + t, co |-> c, call |-> calls[c] + 1]
<1>1. /\ running = c /\ state' = [state EXCEPT ![c] = "suspended"] /\ fault' = fault
      /\ state[c] = "active" /\ pc' = [pc EXCEPT ![c] = "sleep"]
      /\ timers' = timers \cup {new} /\ new.co = c
      /\ UNCHANGED <<queueVars, histVars>> /\ pc[c] \in {"user", "sleep"}
  BY <1>t, YieldEffect DEF chan_sleep, sleep, InUserCode, Park, add_timer
<1> HIDE DEF new
<1>2. ~ PushWoken' /\ ~ PopWoken'
  BY <1>1, <1>t, BackInOwnCode
<1>3. SleepersOnly'
  <2>1. \A u \in timers : u.co # c
    BY <1>1 DEF Orderly, SleepersOnly, Sleeper
  <2> QED
    BY <1>1, <1>t, <2>1 DEF Orderly, SleepersOnly, Sleeper
<1>4. \A d \in Cid : /\ (state[d] = "suspended" /\ Pushing(d))'
                           <=> (state[d] = "suspended" /\ Pushing(d))
                     /\ (state[d] = "suspended" /\ Popping(d))'
                           <=> (state[d] = "suspended" /\ Popping(d))
  BY <1>1, <1>t DEF Pushing, Popping
<1> QED
  BY <1>1, <1>2, <1>3, <1>4, NobodyWoken, ElsewhereStep DEF Orderly, chan_sleep

\* Only sleepers have timers, so run_timers resumes one and does not fail.
LEMMA OrderlyTimer ==
    ASSUME ChanInv, Orderly, run_timers, UNCHANGED <<queueVars, histVars>>
    PROVE  Orderly'
<1>t. /\ state \in [Cid -> {"none", "active", "suspended", "ended"}]
      /\ \A t \in timers : t.co \in Cid
  BY DEF ChanInv, ChanTypeOK, EventTypeOK, CoTypeOK, SwitchTypeOK
<1>1. PICK t \in Tops : timers' = timers \ {t} /\ resume(t.co, FALSE)
  BY DEF run_timers
<1>2. t \in timers /\ t.co \in Cid /\ Sleeper(t.co)
  BY <1>t DEF Tops, Orderly, SleepersOnly
<1>3. /\ state' = [state EXCEPT ![t.co] = "active"] /\ running' = t.co /\ fault' = fault
      /\ pc' = pc /\ running = Main
  BY <1>1, <1>2, ResumeEffect DEF Sleeper, run_timers, callVars, OnMain
<1>4. ~ PushWoken' /\ ~ PopWoken'
  BY <1>2, <1>3 DEF PushWoken, PopWoken, Pushing, Popping, Sleeper
<1>5. SleepersOnly'
  <2>1. \A u \in timers' : u \in timers /\ u.co # t.co
    BY <1>1, <1>2 DEF Orderly, SleepersOnly
  <2> QED
    BY <1>2, <1>3, <1>t, <2>1 DEF Orderly, SleepersOnly, Sleeper
<1>6. \A d \in Cid : /\ (state[d] = "suspended" /\ Pushing(d))'
                           <=> (state[d] = "suspended" /\ Pushing(d))
                     /\ (state[d] = "suspended" /\ Popping(d))'
                           <=> (state[d] = "suspended" /\ Popping(d))
  BY <1>2, <1>3, <1>t DEF Pushing, Popping, Sleeper
<1> QED
  BY <1>3, <1>4, <1>5, <1>6, NobodyWoken, ElsewhereStep DEF Orderly

\* Sequences: the last place of an appended one, the places of a tail.
LEMMA AppendPlaces ==
    ASSUME NEW T, NEW s \in Seq(T), NEW e \in T
    PROVE  /\ Len(Append(s, e)) = Len(s) + 1 /\ Len(s) \in Nat
           /\ \A i \in 1 .. Len(s) : Append(s, e)[i] = s[i]
           /\ Append(s, e)[Len(s) + 1] = e
OBVIOUS

LEMMA TailPlaces ==
    ASSUME NEW T, NEW s \in Seq(T), s # << >>
    PROVE  /\ Len(s) \in Nat \ {0} /\ Len(Tail(s)) = Len(s) - 1
           /\ Head(s) = s[1] /\ s[1] \in T
           /\ \A i \in 1 .. Len(s) - 1 : Tail(s)[i] = s[i + 1]
<1>1. Len(s) \in Nat \ {0}
  OBVIOUS
<1>2. Len(Tail(s)) = Len(s) - 1 /\ Head(s) = s[1] /\ s[1] \in T
  BY <1>1
<1>3. \A i \in 1 .. Len(s) - 1 : Tail(s)[i] = s[i + 1]
  OBVIOUS
<1> QED
  BY <1>1, <1>2, <1>3

\* A coroutine that is not in a waiting queue joins it at the end.
LEMMA JoinQueue ==
    ASSUME NEW q \in Seq(Cid), NEW c \in Cid, ~ WaitingIn(q, c), NoDuplicates(q)
    PROVE  /\ NoDuplicates(Append(q, c))
           /\ \A d \in Cid : WaitingIn(Append(q, c), d) <=> WaitingIn(q, d) \/ d = c
<1>1. /\ Len(Append(q, c)) = Len(q) + 1 /\ Len(q) \in Nat
      /\ \A i \in 1 .. Len(q) : Append(q, c)[i] = q[i]
      /\ Append(q, c)[Len(q) + 1] = c
  BY AppendPlaces
<1> DEFINE q2 == Append(q, c)
<1> HIDE DEF q2
<1>2. NoDuplicates(q2)
  <2> SUFFICES ASSUME NEW i \in 1 .. Len(q2), NEW j \in 1 .. Len(q2), q2[i] = q2[j]
               PROVE  i = j
    BY DEF NoDuplicates
  <2>1. CASE i \in 1 .. Len(q) /\ j \in 1 .. Len(q)
    BY <2>1, <1>1 DEF q2, NoDuplicates
  <2>2. CASE i = Len(q) + 1 /\ j \in 1 .. Len(q)
    BY <2>2, <1>1 DEF q2, WaitingIn
  <2>3. CASE j = Len(q) + 1 /\ i \in 1 .. Len(q)
    BY <2>3, <1>1 DEF q2, WaitingIn
  <2> QED
    BY <2>1, <2>2, <2>3, <1>1 DEF q2
<1>3. ASSUME NEW d \in Cid PROVE WaitingIn(q2, d) <=> WaitingIn(q, d) \/ d = c
  <2>1. ASSUME WaitingIn(q2, d) PROVE WaitingIn(q, d) \/ d = c
    BY <2>1, <1>1 DEF q2, WaitingIn
  <2>2. ASSUME WaitingIn(q, d) PROVE WaitingIn(q2, d)
    <3>1. PICK i \in 1 .. Len(q) : q[i] = d
      BY <2>2 DEF WaitingIn
    <3>2. i \in 1 .. Len(q2) /\ q2[i] = d
      BY <3>1, <1>1 DEF q2
    <3> QED
      BY <3>2 DEF WaitingIn
  <2>3. ASSUME d = c PROVE WaitingIn(q2, d)
    <3>1. Len(q) + 1 \in 1 .. Len(q2) /\ q2[Len(q) + 1] = d
      BY <2>3, <1>1 DEF q2
    <3> QED
      BY <3>1 DEF WaitingIn
  <2> QED
    BY <2>1, <2>2, <2>3
<1> QED
  BY <1>2, <1>3 DEF q2

\* The coroutine at the head of a waiting queue leaves it.
LEMMA LeaveQueue ==
    ASSUME NEW q \in Seq(Cid), q # << >>, NoDuplicates(q)
    PROVE  /\ NoDuplicates(Tail(q)) /\ Head(q) \in Cid /\ WaitingIn(q, Head(q))
           /\ \A d \in Cid : WaitingIn(Tail(q), d) <=> WaitingIn(q, d) /\ d # Head(q)
<1>1. /\ Len(q) \in Nat \ {0} /\ Len(Tail(q)) = Len(q) - 1
      /\ Head(q) = q[1] /\ q[1] \in Cid
      /\ \A i \in 1 .. Len(q) - 1 : Tail(q)[i] = q[i + 1]
  BY TailPlaces
<1> DEFINE q2 == Tail(q)
           h  == Head(q)
<1> HIDE DEF q2, h
<1>2. NoDuplicates(q2)
  <2> SUFFICES ASSUME NEW i \in 1 .. Len(q2), NEW j \in 1 .. Len(q2), q2[i] = q2[j]
               PROVE  i = j
    BY DEF NoDuplicates
  <2>1. q[i + 1] = q[j + 1] /\ i + 1 \in 1 .. Len(q) /\ j + 1 \in 1 .. Len(q)
    BY <1>1 DEF q2
  <2>2. i + 1 = j + 1
    BY <2>1 DEF NoDuplicates
  <2> QED
    BY <2>2, <1>1 DEF q2
<1>3. WaitingIn(q, h)
  BY <1>1 DEF h, WaitingIn
<1>4. ASSUME NEW d \in Cid PROVE WaitingIn(q2, d) <=> WaitingIn(q, d) /\ d # h
  <2>1. ASSUME WaitingIn(q2, d) PROVE WaitingIn(q, d) /\ d # h
    <3>1. PICK i \in 1 .. Len(q2) : q2[i] = d
      BY <2>1 DEF WaitingIn
    <3>2. q[i + 1] = d /\ i + 1 \in 1 .. Len(q) /\ i + 1 # 1 /\ 1 \in 1 .. Len(q)
      BY <3>1, <1>1 DEF q2
    <3> QED
      BY <3>2, <1>1 DEF h, WaitingIn, NoDuplicates
  <2>2. ASSUME WaitingIn(q, d), d # h PROVE WaitingIn(q2, d)
    <3>1. PICK i \in 1 .. Len(q) : q[i] = d
      BY <2>2 DEF WaitingIn
    <3>2. i # 1
      BY <2>2, <3>1, <1>1 DEF h
    <3>3. i - 1 \in 1 .. Len(q) - 1 /\ (i - 1) + 1 = i
      BY <3>1, <3>2, <1>1
    <3>4. q2[i - 1] = d /\ i - 1 \in 1 .. Len(q2)
      BY <3>1, <3>3, <1>1 DEF q2
    <3> QED
      BY <3>4 DEF WaitingIn
  <2> QED
    BY <2>1, <2>2
<1> QED
  BY <1>1, <1>2, <1>3, <1>4 DEF q2, h

\* Where Orderly starts from.
LEMMA OrderlyTypes ==
    ASSUME ChanInv
    PROVE  /\ state \in [Cid -> {"none", "active", "suspended", "ended"}] /\ CoInv
           /\ PcT /\ QueueT /\ HistT /\ pushes \in Nat /\ pops \in Nat
           /\ \A u \in timers : u.co \in Cid
<1>1. state \in [Cid -> {"none", "active", "suspended", "ended"}] /\ CoInv
  BY DEF ChanInv, CoInv, ChanTypeOK, EventTypeOK, CoTypeOK, SwitchTypeOK
<1>2. PcT /\ QueueT /\ HistT
  BY ChanParts DEF ChanInv
<1>3. MaxCid * MaxCalls \in Nat
  BY EventConstants, CoroutineConstants
<1>4. pushes \in Nat /\ pops \in Nat
  BY <1>2, <1>3 DEF HistT, Calls
<1>5. \A u \in timers : u.co \in Cid
  BY DEF ChanInv, ChanTypeOK, EventTypeOK
<1> QED
  BY <1>1, <1>2, <1>4, <1>5

\* A push that blocks takes the last place among the producers.
LEMMA OrderlyPushBlocks ==
    ASSUME ChanInv, Orderly, [ChanNext]_chanVars, NEW c \in Cid, NEW t \in TimeoutArg,
           push_blocks(c, t), ~ timed'
    PROVE  Orderly'
<1>t. /\ state \in [Cid -> {"none", "active", "suspended", "ended"}] /\ CoInv
      /\ PcT /\ QueueT /\ HistT /\ pushes \in Nat /\ pops \in Nat
      /\ \A u \in timers : u.co \in Cid
  BY OrderlyTypes
<1>1. /\ running = c /\ state' = [state EXCEPT ![c] = "suspended"] /\ fault' = fault
      /\ state[c] = "active" /\ pc[c] \in {"user", "sleep"} /\ InUserCode(c)
  BY <1>t, YieldEffect DEF push_blocks, PushCalled, InUserCode, Block
<1>2. t = NoTimeout /\ timers' = timers /\ pc' = [pc EXCEPT ![c] = "push"]
  BY DEF push_blocks, Block, Park, In
<1>3. /\ Len(data_queue) = Capacity /\ data_queue' = data_queue
      /\ producer_queue' = Append(producer_queue, c) /\ consumer_queue' = consumer_queue
      /\ pushes' = pushes + 1 /\ pops' = pops
      /\ ticket' = [ticket EXCEPT ![c] = pushes + 1]
      /\ result' = [result EXCEPT ![c] = NoResult]
  BY DEF push_blocks, PushCalled, Block
<1>4. /\ state'[c] = "suspended" /\ pc'[c] = "push"
      /\ ticket'[c] = pushes + 1 /\ result'[c] = NoResult
      /\ \A d \in Cid : d # c => /\ state'[d] = state[d] /\ pc'[d] = pc[d]
                                 /\ ticket'[d] = ticket[d] /\ result'[d] = result[d]
  BY <1>t, <1>1, <1>2, <1>3 DEF PcT, HistT
<1>5. ~ PushWoken /\ ~ PopWoken /\ ~ PushWoken' /\ ~ PopWoken'
  BY <1>1, <1>4, NobodyWoken, BackInOwnCode
<1>6. SleepersOnly'
  BY <1>1, <1>2, <1>4, <1>t DEF Orderly, SleepersOnly, Sleeper
<1>7. ~ WaitingIn(producer_queue, c) /\ ~ WaitingIn(consumer_queue, c)
  BY <1>1 DEF Orderly, QueuesExact
<1>8. QueuesExact'
  <2>1. /\ NoDuplicates(producer_queue')
        /\ \A d \in Cid : WaitingIn(producer_queue', d) <=> WaitingIn(producer_queue, d) \/ d = c
    BY <1>3, <1>7, <1>t, JoinQueue DEF Orderly, QueuesExact, QueueT
  <2>2. \A d \in Cid : /\ (state[d] = "suspended" /\ Pushing(d))'
                             <=> (state[d] = "suspended" /\ Pushing(d)) \/ d = c
                       /\ (state[d] = "suspended" /\ Popping(d))'
                             <=> (state[d] = "suspended" /\ Popping(d))
    BY <1>1, <1>4 DEF Pushing, Popping
  <2> QED
    BY <1>3, <2>1, <2>2 DEF Orderly, QueuesExact
<1>9. consumer_queue = << >>
  BY <1>3, <1>5, ChannelConstants DEF Orderly, WakeupsExact
<1>10. WakeupsExact'
  BY <1>3, <1>5, <1>9 DEF WakeupsExact
<1>11. InOrder'
  <2>1. /\ Len(producer_queue') = Len(producer_queue) + 1 /\ Len(producer_queue) \in Nat
        /\ \A i \in 1 .. Len(producer_queue) : producer_queue'[i] = producer_queue[i]
        /\ producer_queue'[Len(producer_queue) + 1] = c
    BY <1>3, <1>t, AppendPlaces DEF QueueT
  <2>2. \A i \in 1 .. Len(producer_queue) : producer_queue[i] \in Cid /\ producer_queue[i] # c
    BY <1>7, <1>t DEF WaitingIn, QueueT
  <2>3. Deposited' = Deposited /\ Withdrawn' = Withdrawn
    BY <1>3, <1>5, <1>t, <2>1 DEF Deposited, Withdrawn
  <2>4. ASSUME NEW i \in 1 .. Len(producer_queue')
        PROVE  ticket'[producer_queue'[i]] = pushes' - Len(producer_queue') + i
    <3>1. CASE i \in 1 .. Len(producer_queue)
      <4>1. ticket[producer_queue[i]] = pushes - Len(producer_queue) + i
        BY <3>1 DEF Orderly, InOrder
      <4>2. ticket'[producer_queue'[i]] = ticket[producer_queue[i]]
        BY <3>1, <2>1, <2>2, <1>4
      <4> QED
        BY <3>1, <4>1, <4>2, <2>1, <1>3, <1>t
    <3>2. CASE i = Len(producer_queue) + 1
      <4>1. ticket'[producer_queue'[i]] = pushes + 1
        BY <3>2, <2>1, <1>4
      <4> QED
        BY <3>2, <4>1, <2>1, <1>3, <1>t
    <3> QED
      BY <3>1, <3>2, <2>1
  <2> QED
    BY <2>3, <2>4, <1>3, <1>5, <1>9 DEF Orderly, InOrder
<1>12. Paired'
  BY <1>4 DEF Orderly, Paired, NoResult
<1> QED
  BY <1>1, <1>6, <1>8, <1>10, <1>11, <1>12 DEF Orderly

\* A pop that blocks takes the last place among the consumers.
LEMMA OrderlyPopBlocks ==
    ASSUME ChanInv, Orderly, [ChanNext]_chanVars, NEW c \in Cid, NEW t \in TimeoutArg,
           pop_blocks(c, t), ~ timed'
    PROVE  Orderly'
<1>t. /\ state \in [Cid -> {"none", "active", "suspended", "ended"}] /\ CoInv
      /\ PcT /\ QueueT /\ HistT /\ pushes \in Nat /\ pops \in Nat
      /\ \A u \in timers : u.co \in Cid
  BY OrderlyTypes
<1>1. /\ running = c /\ state' = [state EXCEPT ![c] = "suspended"] /\ fault' = fault
      /\ state[c] = "active" /\ pc[c] \in {"user", "sleep"} /\ InUserCode(c)
  BY <1>t, YieldEffect DEF pop_blocks, PopCalled, InUserCode, Block
<1>2. t = NoTimeout /\ timers' = timers /\ pc' = [pc EXCEPT ![c] = "pop"]
  BY DEF pop_blocks, Block, Park, In
<1>3. /\ data_queue = << >> /\ data_queue' = data_queue
      /\ consumer_queue' = Append(consumer_queue, c) /\ producer_queue' = producer_queue
      /\ pops' = pops + 1 /\ pushes' = pushes
      /\ ticket' = [ticket EXCEPT ![c] = pops + 1]
      /\ result' = [result EXCEPT ![c] = NoResult]
  BY DEF pop_blocks, PopCalled, Block
<1>4. /\ state'[c] = "suspended" /\ pc'[c] = "pop"
      /\ ticket'[c] = pops + 1 /\ result'[c] = NoResult
      /\ \A d \in Cid : d # c => /\ state'[d] = state[d] /\ pc'[d] = pc[d]
                                 /\ ticket'[d] = ticket[d] /\ result'[d] = result[d]
  BY <1>t, <1>1, <1>2, <1>3 DEF PcT, HistT
<1>5. ~ PopWoken /\ ~ PushWoken /\ ~ PopWoken' /\ ~ PushWoken'
  BY <1>1, <1>4, NobodyWoken, BackInOwnCode
<1>6. SleepersOnly'
  BY <1>1, <1>2, <1>4, <1>t DEF Orderly, SleepersOnly, Sleeper
<1>7. ~ WaitingIn(consumer_queue, c) /\ ~ WaitingIn(producer_queue, c)
  BY <1>1 DEF Orderly, QueuesExact
<1>8. QueuesExact'
  <2>1. /\ NoDuplicates(consumer_queue')
        /\ \A d \in Cid : WaitingIn(consumer_queue', d) <=> WaitingIn(consumer_queue, d) \/ d = c
    BY <1>3, <1>7, <1>t, JoinQueue DEF Orderly, QueuesExact, QueueT
  <2>2. \A d \in Cid : /\ (state[d] = "suspended" /\ Popping(d))'
                             <=> (state[d] = "suspended" /\ Popping(d)) \/ d = c
                       /\ (state[d] = "suspended" /\ Pushing(d))'
                             <=> (state[d] = "suspended" /\ Pushing(d))
    BY <1>1, <1>4 DEF Popping, Pushing
  <2> QED
    BY <1>3, <2>1, <2>2 DEF Orderly, QueuesExact
<1>9. producer_queue = << >>
  BY <1>3, <1>5, ChannelConstants DEF Orderly, WakeupsExact
<1>10. WakeupsExact'
  BY <1>3, <1>5, <1>9 DEF WakeupsExact
<1>11. InOrder'
  <2>1. /\ Len(consumer_queue') = Len(consumer_queue) + 1 /\ Len(consumer_queue) \in Nat
        /\ \A i \in 1 .. Len(consumer_queue) : consumer_queue'[i] = consumer_queue[i]
        /\ consumer_queue'[Len(consumer_queue) + 1] = c
    BY <1>3, <1>t, AppendPlaces DEF QueueT
  <2>2. \A i \in 1 .. Len(consumer_queue) : consumer_queue[i] \in Cid /\ consumer_queue[i] # c
    BY <1>7, <1>t DEF WaitingIn, QueueT
  <2>3. Withdrawn' = Withdrawn /\ Deposited' = Deposited
    BY <1>3, <1>5, <1>t, <2>1 DEF Withdrawn, Deposited
  <2>4. ASSUME NEW i \in 1 .. Len(consumer_queue')
        PROVE  ticket'[consumer_queue'[i]] = pops' - Len(consumer_queue') + i
    <3>1. CASE i \in 1 .. Len(consumer_queue)
      <4>1. ticket[consumer_queue[i]] = pops - Len(consumer_queue) + i
        BY <3>1 DEF Orderly, InOrder
      <4>2. ticket'[consumer_queue'[i]] = ticket[consumer_queue[i]]
        BY <3>1, <2>1, <2>2, <1>4
      <4> QED
        BY <3>1, <4>1, <4>2, <2>1, <1>3, <1>t
    <3>2. CASE i = Len(consumer_queue) + 1
      <4>1. ticket'[consumer_queue'[i]] = pops + 1
        BY <3>2, <2>1, <1>4
      <4> QED
        BY <3>2, <4>1, <2>1, <1>3, <1>t
    <3> QED
      BY <3>1, <3>2, <2>1
  <2> QED
    BY <2>3, <2>4, <1>3, <1>5, <1>9 DEF Orderly, InOrder
<1>12. Paired'
  BY <1>4 DEF Orderly, Paired, NoResult
<1> QED
  BY <1>1, <1>6, <1>8, <1>10, <1>11, <1>12 DEF Orderly

\* A notification while those in the queue are suspended: it resumes the head
\* of the queue, which leaves it, and does not fail.
LEMMA HandOver ==
    ASSUME ChanInv, NEW c \in Cid, running = c, NEW q \in Seq(Cid), NEW q2, notice(q, q2),
           NoDuplicates(q), \A d \in Cid : WaitingIn(q, d) => state[d] = "suspended"
    PROVE  /\ fault' = fault /\ NoDuplicates(q2)
           /\ \A d \in Cid : WaitingIn(q2, d) <=> WaitingIn(q, d) /\ (q = << >> \/ d # Head(q))
           /\ q = << >> => q2 = << >> /\ UNCHANGED <<state, running>>
           /\ q # << >> => /\ q2 = Tail(q) /\ Head(q) \in Cid /\ Head(q) # c
                           /\ WaitingIn(q, Head(q)) /\ running' = Head(q)
                           /\ state' = [state EXCEPT ![Head(q)] = "active"]
<1>1. CASE q = << >>
  <2>1. q2 = << >> /\ UNCHANGED <<state, running, fault>>
    BY <1>1 DEF notice, coVars, switchVars
  <2> QED
    BY <1>1, <2>1
<1>2. CASE q # << >>
  <2>1. /\ NoDuplicates(Tail(q)) /\ Head(q) \in Cid /\ WaitingIn(q, Head(q))
        /\ \A d \in Cid : WaitingIn(Tail(q), d) <=> WaitingIn(q, d) /\ d # Head(q)
    BY <1>2, LeaveQueue
  <2>2. state[Head(q)] = "suspended" /\ q2 = Tail(q) /\ resume(Head(q), FALSE)
    BY <1>2, <2>1 DEF notice
  <2>3. /\ state' = [state EXCEPT ![Head(q)] = "active"] /\ running' = Head(q)
        /\ fault' = fault
    BY <2>1, <2>2, ResumeEffect
  <2>4. Head(q) # c
    BY <2>2, RunningFacts
  <2> QED
    BY <1>2, <2>1, <2>2, <2>3, <2>4
<1> QED
  BY <1>1, <1>2

\* A push that completes, at once or after it was resumed: its item is the
\* next, and a consumer that waits is resumed and finds just this item.
LEMMA OrderlyDeposit ==
    ASSUME ChanInv, Orderly, NEW c \in Cid, running = c, ~ Popping(c), NEW v \in Nat,
           v \in Calls, Deposit(c, v), Len(data_queue) # Capacity, v = Deposited + 1, pops' = pops,
           pushes' \in Nat, pushes' - Len(producer_queue) = v,
           producer_queue = << >> \/ pushes' = pushes,
           ticket'[c] = v, \A d \in Cid : d # c => ticket'[d] = ticket[d]
    PROVE  Orderly'
<1>t. /\ state \in [Cid -> {"none", "active", "suspended", "ended"}]
      /\ PcT /\ QueueT /\ HistT /\ pushes \in Nat /\ pops \in Nat
      /\ \A u \in timers : u.co \in Cid
      /\ Capacity \in Nat \ {0}
  BY OrderlyTypes, ChannelConstants
<1>r. state[c] = "active" /\ running # Main /\ ~ PopWoken
  BY RunningFacts DEF PopWoken
<1>q. /\ data_queue \in Seq(Calls) /\ producer_queue \in Seq(Cid) /\ consumer_queue \in Seq(Cid)
      /\ Len(data_queue) \in Nat /\ Len(producer_queue) \in Nat /\ Len(consumer_queue) \in Nat
  BY <1>t DEF QueueT
<1> DEFINE h == Head(consumer_queue)
           woke == consumer_queue # << >>
<1>1. /\ data_queue' = Append(data_queue, v) /\ producer_queue' = producer_queue
      /\ timers' = timers /\ notice(consumer_queue, consumer_queue')
      /\ pc' = [pc EXCEPT ![c] = "user"]
      /\ result' = [result EXCEPT ![c] = [op |-> "push", ok |-> TRUE, item |-> v]]
  BY DEF Deposit, Finish, timerVars
<1>2. /\ fault' = fault /\ NoDuplicates(consumer_queue')
      /\ \A d \in Cid : WaitingIn(consumer_queue', d)
                           <=> WaitingIn(consumer_queue, d) /\ (~ woke \/ d # h)
      /\ ~ woke => consumer_queue' = << >> /\ UNCHANGED <<state, running>>
      /\ woke => /\ consumer_queue' = Tail(consumer_queue) /\ h \in Cid /\ h # c
                 /\ WaitingIn(consumer_queue, h) /\ running' = h
                 /\ state' = [state EXCEPT ![h] = "active"]
  <2>1. /\ NoDuplicates(consumer_queue)
        /\ \A d \in Cid : WaitingIn(consumer_queue, d) => state[d] = "suspended"
    BY DEF Orderly, QueuesExact
  <2> QED
    BY <1>1, <1>q, <2>1, HandOver
<1>3. woke => Popping(h) /\ state[h] = "suspended" /\ ~ Pushing(h)
  BY <1>2 DEF Orderly, QueuesExact, Popping, Pushing
<1> HIDE DEF h, woke
<1>4. /\ pc'[c] = "user" /\ \A d \in Cid : d # c => pc'[d] = pc[d]
      /\ \A d \in Cid : state'[d] = IF woke /\ d = h THEN "active" ELSE state[d]
  BY <1>1, <1>2, <1>t DEF PcT
<1>5. ~ PushWoken' /\ (PopWoken' <=> woke)
  BY <1>2, <1>3, <1>4, <1>r, MainIsNoCid DEF PushWoken, PopWoken, Pushing, Popping
<1>6. SleepersOnly'
  BY <1>1, <1>3, <1>4, <1>r, <1>t DEF Orderly, SleepersOnly, Sleeper, Popping
<1>7. QueuesExact'
  <2>1. \A d \in Cid : (state[d] = "suspended" /\ Pushing(d))'
                          <=> state[d] = "suspended" /\ Pushing(d)
    BY <1>3, <1>4, <1>r DEF Pushing
  <2>2. \A d \in Cid : (state[d] = "suspended" /\ Popping(d))'
                          <=> state[d] = "suspended" /\ Popping(d) /\ (~ woke \/ d # h)
    BY <1>4, <1>r DEF Popping
  <2> QED
    BY <1>1, <1>2, <2>1, <2>2 DEF Orderly, QueuesExact
<1>8. /\ Len(data_queue') = Len(data_queue) + 1
      /\ \A i \in 1 .. Len(data_queue) : data_queue'[i] = data_queue[i]
      /\ data_queue'[Len(data_queue) + 1] = v
  BY <1>1, <1>q, AppendPlaces
<1>9. /\ producer_queue # << >> => Len(data_queue) = Capacity - 1
      /\ woke => Len(data_queue) = 0
  BY <1>r DEF Orderly, WakeupsExact, woke
<1>10. WakeupsExact'
  BY <1>1, <1>2, <1>5, <1>8, <1>9, <1>q, <1>t DEF WakeupsExact
<1>11. InOrder'
  <2>1. /\ woke => Len(consumer_queue') = Len(consumer_queue) - 1
        /\ ~ woke => Len(consumer_queue) = 0 /\ Len(consumer_queue') = 0
        /\ woke => h = consumer_queue[1] /\ Len(consumer_queue) \in Nat \ {0}
        /\ woke => \A i \in 1 .. Len(consumer_queue) - 1 :
                      consumer_queue'[i] = consumer_queue[i + 1]
    <3>1. CASE woke
      <4>1. consumer_queue' = Tail(consumer_queue) /\ consumer_queue # << >>
        BY <1>2, <3>1 DEF woke
      <4> QED
        BY <3>1, <4>1, <1>q, TailPlaces DEF h
    <3>2. CASE ~ woke
      <4>1. consumer_queue' = << >> /\ consumer_queue = << >>
        BY <1>2, <3>2 DEF woke
      <4> QED
        BY <3>2, <4>1
    <3> QED
      BY <3>1, <3>2
  <2>2. Deposited' = v /\ Withdrawn' = Withdrawn /\ Withdrawn \in Int
    <3>1. Deposited' = v
      BY <1>1, <1>5, <1>q DEF Deposited
    <3>2. Withdrawn = pops - Len(consumer_queue) /\ Withdrawn \in Int
      BY <1>r, <1>q, <1>t DEF Withdrawn
    <3>3. CASE woke
      <4>1. Withdrawn' = pops - (Len(consumer_queue) - 1) - 1
        BY <3>3, <1>5, <2>1 DEF Withdrawn
      <4> QED
        BY <3>1, <3>2, <4>1, <1>q, <1>t
    <3>4. CASE ~ woke
      BY <3>1, <3>2, <3>4, <1>5, <1>q, <1>t, <2>1 DEF Withdrawn
    <3> QED
      BY <3>3, <3>4
  <2>3. Len(data_queue) = v - 1 - Withdrawn
    <3>1. Deposited \in Int
      BY <1>q, <1>t DEF Deposited
    <3>2. Len(data_queue) = Deposited - Withdrawn
      BY DEF Orderly, InOrder
    <3> QED
      BY <3>1, <3>2, <2>2
  <2>4. Len(data_queue') = Deposited' - Withdrawn'
    <3>1. Len(data_queue') = (v - 1 - Withdrawn) + 1
      BY <2>3, <1>8
    <3> QED
      BY <3>1, <2>2
  <2>5. ASSUME NEW i \in 1 .. Len(data_queue') PROVE data_queue'[i] = Withdrawn' + i
    <3>1. CASE i \in 1 .. Len(data_queue)
      BY <3>1, <1>8, <2>2 DEF Orderly, InOrder
    <3>2. CASE i = Len(data_queue) + 1
      <4>1. data_queue'[i] = v /\ i = (v - 1 - Withdrawn) + 1
        BY <3>2, <1>8, <2>3
      <4>2. Withdrawn + ((v - 1 - Withdrawn) + 1) = v
        BY <2>2
      <4> QED
        BY <4>1, <4>2, <2>2
    <3> QED
      BY <3>1, <3>2, <1>8, <1>q
  <2>6. ASSUME NEW i \in 1 .. Len(producer_queue')
        PROVE  ticket'[producer_queue'[i]] = pushes' - Len(producer_queue') + i
    <3>1. pushes' = pushes /\ i \in 1 .. Len(producer_queue)
      BY <1>1
    <3>2. producer_queue[i] \in Cid /\ producer_queue[i] # c
      BY <3>1, <1>q, <1>r DEF Orderly, QueuesExact, WaitingIn
    <3> QED
      BY <3>1, <3>2, <1>1 DEF Orderly, InOrder
  <2>7. \A i \in 1 .. Len(consumer_queue) :
           /\ consumer_queue[i] \in Cid
           /\ ticket'[consumer_queue[i]] = pops - Len(consumer_queue) + i
    <3>1. \A i \in 1 .. Len(consumer_queue) : consumer_queue[i] \in Cid /\ consumer_queue[i] # c
      BY <1>q, <1>r DEF Orderly, QueuesExact, WaitingIn
    <3> QED
      BY <3>1 DEF Orderly, InOrder
  <2>8. ASSUME NEW i \in 1 .. Len(consumer_queue')
        PROVE  ticket'[consumer_queue'[i]] = pops' - Len(consumer_queue') + i
    <3>1. woke /\ i + 1 \in 1 .. Len(consumer_queue) /\ i \in 1 .. Len(consumer_queue) - 1
      BY <2>1, <1>q
    <3>2. ticket'[consumer_queue'[i]] = pops - Len(consumer_queue) + (i + 1)
      BY <3>1, <2>1, <2>7
    <3>3. Len(consumer_queue') = Len(consumer_queue) - 1 /\ i \in Nat
      BY <3>1, <2>1
    <3> QED
      BY <3>2, <3>3, <1>q, <1>t
  <2>9. PopWoken' => ticket'[running'] = Withdrawn' + 1
    <3> SUFFICES ASSUME woke PROVE ticket'[h] = Withdrawn + 1
      BY <1>2, <1>5, <2>2
    <3>1. ticket'[h] = pops - Len(consumer_queue) + 1
      BY <2>1, <2>7
    <3> QED
      BY <3>1, <1>r, <1>q, <1>t DEF Withdrawn
  <2> QED
    BY <2>4, <2>5, <2>6, <2>8, <2>9, <1>5 DEF InOrder
<1>12. Paired'
  <2>1. /\ result'[c] = [op |-> "push", ok |-> TRUE, item |-> v]
        /\ \A d \in Cid : d # c => result'[d] = result[d]
    BY <1>1, <1>t DEF HistT
  <2> QED
    BY <2>1 DEF Orderly, Paired
<1> QED
  BY <1>2, <1>6, <1>7, <1>10, <1>11, <1>12 DEF Orderly

\* A pop that completes takes the item of its number, and a producer that
\* waits is resumed and finds just this slot.
LEMMA OrderlyWithdraw ==
    ASSUME ChanInv, Orderly, NEW c \in Cid, running = c, ~ Pushing(c), NEW k \in Nat,
           Withdraw(c), data_queue # << >>, k = Withdrawn + 1, pushes' = pushes,
           pops' \in Nat, pops' - Len(consumer_queue) = k,
           consumer_queue = << >> \/ pops' = pops,
           ticket'[c] = k, \A d \in Cid : d # c => ticket'[d] = ticket[d]
    PROVE  Orderly'
<1>t. /\ state \in [Cid -> {"none", "active", "suspended", "ended"}]
      /\ PcT /\ QueueT /\ HistT /\ pushes \in Nat /\ pops \in Nat
      /\ \A u \in timers : u.co \in Cid
      /\ Capacity \in Nat \ {0}
  BY OrderlyTypes, ChannelConstants
<1>r. state[c] = "active" /\ running # Main /\ ~ PushWoken
  BY RunningFacts DEF PushWoken
<1>q. /\ data_queue \in Seq(Calls) /\ producer_queue \in Seq(Cid) /\ consumer_queue \in Seq(Cid)
      /\ Len(data_queue) \in Nat /\ Len(producer_queue) \in Nat /\ Len(consumer_queue) \in Nat
  BY <1>t DEF QueueT
<1> DEFINE h == Head(producer_queue)
           woke == producer_queue # << >>
<1>1. /\ data_queue' = Tail(data_queue) /\ consumer_queue' = consumer_queue
      /\ timers' = timers /\ notice(producer_queue, producer_queue')
      /\ pc' = [pc EXCEPT ![c] = "user"]
      /\ result' = [result EXCEPT ![c] = [op |-> "pop", ok |-> TRUE, item |-> Head(data_queue)]]
  BY DEF Withdraw, Finish, timerVars
<1>2. /\ fault' = fault /\ NoDuplicates(producer_queue')
      /\ \A d \in Cid : WaitingIn(producer_queue', d)
                           <=> WaitingIn(producer_queue, d) /\ (~ woke \/ d # h)
      /\ ~ woke => producer_queue' = << >> /\ UNCHANGED <<state, running>>
      /\ woke => /\ producer_queue' = Tail(producer_queue) /\ h \in Cid /\ h # c
                 /\ WaitingIn(producer_queue, h) /\ running' = h
                 /\ state' = [state EXCEPT ![h] = "active"]
  <2>1. /\ NoDuplicates(producer_queue)
        /\ \A d \in Cid : WaitingIn(producer_queue, d) => state[d] = "suspended"
    BY DEF Orderly, QueuesExact
  <2> QED
    BY <1>1, <1>q, <2>1, HandOver
<1>3. woke => Pushing(h) /\ state[h] = "suspended" /\ ~ Popping(h)
  BY <1>2 DEF Orderly, QueuesExact, Popping, Pushing
<1> HIDE DEF h, woke
<1>4. /\ pc'[c] = "user" /\ \A d \in Cid : d # c => pc'[d] = pc[d]
      /\ \A d \in Cid : state'[d] = IF woke /\ d = h THEN "active" ELSE state[d]
  BY <1>1, <1>2, <1>t DEF PcT
<1>5. ~ PopWoken' /\ (PushWoken' <=> woke)
  BY <1>2, <1>3, <1>4, <1>r, MainIsNoCid DEF PushWoken, PopWoken, Pushing, Popping
<1>6. SleepersOnly'
  BY <1>1, <1>3, <1>4, <1>r, <1>t DEF Orderly, SleepersOnly, Sleeper, Pushing
<1>7. QueuesExact'
  <2>1. \A d \in Cid : (state[d] = "suspended" /\ Popping(d))'
                          <=> state[d] = "suspended" /\ Popping(d)
    BY <1>3, <1>4, <1>r DEF Popping
  <2>2. \A d \in Cid : (state[d] = "suspended" /\ Pushing(d))'
                          <=> state[d] = "suspended" /\ Pushing(d) /\ (~ woke \/ d # h)
    BY <1>4, <1>r DEF Pushing
  <2> QED
    BY <1>1, <1>2, <2>1, <2>2 DEF Orderly, QueuesExact
<1>8. /\ Len(data_queue) \in Nat \ {0} /\ Len(data_queue') = Len(data_queue) - 1
      /\ Head(data_queue) = data_queue[1]
      /\ \A i \in 1 .. Len(data_queue) - 1 : data_queue'[i] = data_queue[i + 1]
  BY <1>1, <1>q, TailPlaces
<1>9. /\ consumer_queue # << >> => Len(data_queue) = 1
      /\ woke => Len(data_queue) = Capacity
  BY <1>r, <1>8 DEF Orderly, WakeupsExact, woke
<1>10. WakeupsExact'
  BY <1>1, <1>2, <1>5, <1>8, <1>9, <1>q, <1>t DEF WakeupsExact
<1>11. Head(data_queue) = k
  BY <1>8 DEF Orderly, InOrder
<1>12. InOrder'
  <2>1. /\ woke => Len(producer_queue') = Len(producer_queue) - 1
        /\ ~ woke => Len(producer_queue) = 0 /\ Len(producer_queue') = 0
        /\ woke => h = producer_queue[1] /\ Len(producer_queue) \in Nat \ {0}
        /\ woke => \A i \in 1 .. Len(producer_queue) - 1 :
                      producer_queue'[i] = producer_queue[i + 1]
    <3>1. CASE woke
      <4>1. producer_queue' = Tail(producer_queue) /\ producer_queue # << >>
        BY <1>2, <3>1 DEF woke
      <4> QED
        BY <3>1, <4>1, <1>q, TailPlaces DEF h
    <3>2. CASE ~ woke
      <4>1. producer_queue' = << >> /\ producer_queue = << >>
        BY <1>2, <3>2 DEF woke
      <4> QED
        BY <3>2, <4>1
    <3> QED
      BY <3>1, <3>2
  <2>2. Withdrawn' = k /\ Deposited' = Deposited /\ Deposited \in Int
    <3>1. Withdrawn' = k
      BY <1>1, <1>5, <1>q DEF Withdrawn
    <3>2. Deposited = pushes - Len(producer_queue) /\ Deposited \in Int
      BY <1>r, <1>q, <1>t DEF Deposited
    <3>3. CASE woke
      <4>1. Deposited' = pushes - (Len(producer_queue) - 1) - 1
        BY <3>3, <1>5, <2>1 DEF Deposited
      <4> QED
        BY <3>1, <3>2, <4>1, <1>q, <1>t
    <3>4. CASE ~ woke
      BY <3>1, <3>2, <3>4, <1>5, <1>q, <1>t, <2>1 DEF Deposited
    <3> QED
      BY <3>3, <3>4
  <2>w. Withdrawn \in Int
    BY <1>q, <1>t DEF Withdrawn
  <2>3. Len(data_queue') = Deposited' - Withdrawn'
    <3>1. Len(data_queue') = Deposited - Withdrawn - 1
      BY <1>8 DEF Orderly, InOrder
    <3> QED
      BY <3>1, <2>2, <2>w
  <2>4. ASSUME NEW i \in 1 .. Len(data_queue') PROVE data_queue'[i] = Withdrawn' + i
    <3>1. i + 1 \in 1 .. Len(data_queue) /\ data_queue'[i] = data_queue[i + 1]
      BY <1>8
    <3>2. data_queue'[i] = Withdrawn + (i + 1)
      BY <3>1 DEF Orderly, InOrder
    <3>3. i \in Int
      OBVIOUS
    <3> QED
      BY <3>2, <3>3, <2>2, <2>w
  <2>5. ASSUME NEW i \in 1 .. Len(consumer_queue')
        PROVE  ticket'[consumer_queue'[i]] = pops' - Len(consumer_queue') + i
    <3>1. pops' = pops /\ i \in 1 .. Len(consumer_queue)
      BY <1>1
    <3>2. consumer_queue[i] \in Cid /\ consumer_queue[i] # c
      BY <3>1, <1>q, <1>r DEF Orderly, QueuesExact, WaitingIn
    <3> QED
      BY <3>1, <3>2, <1>1 DEF Orderly, InOrder
  <2>6. \A i \in 1 .. Len(producer_queue) :
           /\ producer_queue[i] \in Cid
           /\ ticket'[producer_queue[i]] = pushes - Len(producer_queue) + i
    <3>1. \A i \in 1 .. Len(producer_queue) : producer_queue[i] \in Cid /\ producer_queue[i] # c
      BY <1>q, <1>r DEF Orderly, QueuesExact, WaitingIn
    <3> QED
      BY <3>1 DEF Orderly, InOrder
  <2>7. ASSUME NEW i \in 1 .. Len(producer_queue')
        PROVE  ticket'[producer_queue'[i]] = pushes' - Len(producer_queue') + i
    <3>1. woke /\ i + 1 \in 1 .. Len(producer_queue) /\ i \in 1 .. Len(producer_queue) - 1
      BY <2>1, <1>q
    <3>2. ticket'[producer_queue'[i]] = pushes - Len(producer_queue) + (i + 1)
      BY <3>1, <2>1, <2>6
    <3>3. Len(producer_queue') = Len(producer_queue) - 1 /\ i \in Nat
      BY <3>1, <2>1
    <3> QED
      BY <3>2, <3>3, <1>q, <1>t
  <2>8. PushWoken' => ticket'[running'] = Deposited' + 1
    <3> SUFFICES ASSUME woke PROVE ticket'[h] = Deposited + 1
      BY <1>2, <1>5, <2>2
    <3>1. ticket'[h] = pushes - Len(producer_queue) + 1
      BY <2>1, <2>6
    <3> QED
      BY <3>1, <1>r, <1>q, <1>t DEF Deposited
  <2> QED
    BY <2>3, <2>4, <2>5, <2>7, <2>8, <1>5 DEF InOrder
<1>13. Paired'
  <2>1. /\ result'[c] = [op |-> "pop", ok |-> TRUE, item |-> k]
        /\ \A d \in Cid : d # c => result'[d] = result[d]
    BY <1>1, <1>11, <1>t DEF HistT
  <2> QED
    BY <2>1 DEF Orderly, Paired
<1> QED
  BY <1>2, <1>6, <1>7, <1>10, <1>12, <1>13 DEF Orderly

\* A push that runs in its own code finds no producer waiting, one that was
\* resumed finds the slot it was resumed for.
LEMMA OrderlyPush ==
    ASSUME ChanInv, Orderly, NEW c \in Cid, push_at_once(c) \/ push_woken(c)
    PROVE  Orderly'
<1>t. /\ PcT /\ QueueT /\ HistT /\ pushes \in Nat /\ pops \in Nat
      /\ Capacity \in Nat \ {0}
  BY OrderlyTypes, ChannelConstants
<1>q. Len(producer_queue) \in Nat /\ Len(data_queue) \in Nat
  BY <1>t DEF QueueT
<1>r. running = c /\ running # Main
  BY RunningFacts DEF push_at_once, PushCalled, InUserCode, push_woken
<1>m. Calls \subseteq Nat
  BY EventConstants, CoroutineConstants DEF Calls
<1>1. CASE push_at_once(c)
  <2>1. /\ InUserCode(c) /\ Counted(c) /\ Deposit(c, pushes + 1)
        /\ Len(data_queue) # Capacity
        /\ pushes' = pushes + 1 /\ pops' = pops
        /\ ticket' = [ticket EXCEPT ![c] = pushes + 1]
    BY <1>1 DEF push_at_once, PushCalled
  <2>2. ~ PushWoken /\ ~ Popping(c) /\ producer_queue = << >>
    BY <2>1, NobodyWoken DEF Orderly, WakeupsExact, InUserCode, Popping
  <2>3. pushes + 1 \in Calls
    BY <2>1, CallInBounds
  <2>4. Deposited = pushes /\ pushes' - Len(producer_queue) = pushes + 1
    BY <2>1, <2>2, <1>t DEF Deposited
  <2>5. ticket'[c] = pushes + 1 /\ \A d \in Cid : d # c => ticket'[d] = ticket[d]
    BY <2>1, <1>t DEF HistT
  <2> QED
    BY <2>1, <2>2, <2>3, <2>4, <2>5, <1>r, <1>t, OrderlyDeposit
<1>2. CASE push_woken(c)
  <2>1. PushWoken /\ ~ Popping(c)
    BY <1>2, <1>r DEF push_woken, PushWoken, Pushing, Popping
  <2>2. Len(data_queue) # Capacity
    BY <2>1, <1>t DEF Orderly, WakeupsExact
  <2>3. Deposit(c, ticket[c]) /\ UNCHANGED <<ticket, pushes, pops>>
    BY <1>2, <2>2 DEF push_woken
  <2>4. ticket[c] = Deposited + 1 /\ ticket[c] \in Calls
    BY <2>1, <1>r, <1>t DEF Orderly, InOrder, HistT
  <2>5. pushes' - Len(producer_queue) = ticket[c]
    BY <2>1, <2>3, <2>4, <1>q, <1>t DEF Deposited
  <2> QED
    BY <2>1, <2>2, <2>3, <2>4, <2>5, <1>r, <1>m, <1>t, OrderlyDeposit
<1> QED
  BY <1>1, <1>2

LEMMA OrderlyPop ==
    ASSUME ChanInv, Orderly, NEW c \in Cid, pop_at_once(c) \/ pop_woken(c)
    PROVE  Orderly'
<1>t. /\ PcT /\ QueueT /\ HistT /\ pushes \in Nat /\ pops \in Nat
  BY OrderlyTypes
<1>q. Len(consumer_queue) \in Nat /\ Len(data_queue) \in Nat /\ data_queue \in Seq(Calls)
  BY <1>t DEF QueueT
<1>r. running = c /\ running # Main
  BY RunningFacts DEF pop_at_once, PopCalled, InUserCode, pop_woken
<1>m. Calls \subseteq Nat
  BY EventConstants, CoroutineConstants DEF Calls
<1>1. CASE pop_at_once(c)
  <2>1. /\ InUserCode(c) /\ Withdraw(c) /\ data_queue # << >>
        /\ pops' = pops + 1 /\ pushes' = pushes
        /\ ticket' = [ticket EXCEPT ![c] = pops + 1]
    BY <1>1 DEF pop_at_once, PopCalled
  <2>2. Len(data_queue) # 0
    BY <2>1, <1>q
  <2>3. ~ PopWoken /\ ~ Pushing(c) /\ consumer_queue = << >>
    BY <2>1, <2>2, NobodyWoken DEF Orderly, WakeupsExact, InUserCode, Pushing
  <2>4. Withdrawn = pops /\ pops' - Len(consumer_queue) = pops + 1
    BY <2>1, <2>3, <1>t DEF Withdrawn
  <2>5. ticket'[c] = pops + 1 /\ \A d \in Cid : d # c => ticket'[d] = ticket[d]
    BY <2>1, <1>t DEF HistT
  <2> QED
    BY <2>1, <2>3, <2>4, <2>5, <1>r, <1>t, OrderlyWithdraw
<1>2. CASE pop_woken(c)
  <2>1. PopWoken /\ ~ Pushing(c)
    BY <1>2, <1>r DEF pop_woken, PopWoken, Pushing, Popping
  <2>2. data_queue # << >>
    BY <2>1 DEF Orderly, WakeupsExact
  <2>3. Withdraw(c) /\ UNCHANGED <<ticket, pushes, pops>>
    BY <1>2, <2>2 DEF pop_woken
  <2>4. ticket[c] = Withdrawn + 1 /\ ticket[c] \in Calls
    BY <2>1, <1>r, <1>t DEF Orderly, InOrder, HistT
  <2>5. pops' - Len(consumer_queue) = ticket[c]
    BY <2>1, <2>3, <2>4, <1>q, <1>t DEF Withdrawn
  <2> QED
    BY <2>1, <2>2, <2>3, <2>4, <2>5, <1>r, <1>m, <1>t, OrderlyWithdraw
<1> QED
  BY <1>1, <1>2

-----------------------------------------------------------------------------
(* The invariant of the specification *)

LEMMA OrderlyStep ==
    ASSUME ChanInv, [ChanNext]_chanVars, ~ timed'
    PROVE  Orderly'
<1>1. Orderly
  <2>1. timed => timed'
    BY DEF ChanNext, ChanThread, ChanStep, chan_create, chan_end, chan_sleep, push_at_once,
           pop_at_once, push_blocks, pop_blocks, Block, push_woken, pop_woken, chanVars, histVars
  <2> QED
    BY <2>1 DEF ChanInv
<1>2. CASE LoopStep({}) /\ UNCHANGED <<queueVars, histVars>>
  <2>1. CASE run
    BY <2>1, <1>1, <1>2, OrderlyCreate DEF run, OnMain
  <2>2. CASE wait_returns \/ epoll_wait \/ epoll_none({}) \/ run_timers_done
             \/ epoll_events({}) \/ handle_timer
    <3>1. UNCHANGED <<state, running, pc, fault, timers>>
      BY <2>2 DEF wait_returns, epoll_wait, epoll_none, run_timers_done, Goto,
                  epoll_events, handle_timer, coVars, switchVars, callVars, timerVars
    <3> QED
      BY <3>1, <1>1, <1>2, QuietStep
  <2>3. CASE handle_io
    BY <2>3, EventConstants DEF handle_io, ChanInv, ChanTypeOK, EventTypeOK, CallInv
  <2>4. CASE run_timers
    BY <2>4, <1>1, <1>2, OrderlyTimer
  <2> QED
    BY <1>2, <2>1, <2>2, <2>3, <2>4 DEF LoopStep
<1>3. ASSUME NEW c \in Cid, ChanStep(c) PROVE Orderly'
  <2>1. CASE chan_create(c)
    BY <2>1, <1>1, OrderlyCreate DEF chan_create
  <2>2. CASE chan_end(c)
    BY <2>2, <1>1, OrderlyEnd
  <2>3. CASE \E t \in Delays : chan_sleep(c, t)
    BY <2>3, <1>1, OrderlySleep
  <2>4. CASE \E t \in TimeoutArg : push_blocks(c, t) \/ pop_blocks(c, t)
    BY <2>4, <1>1, OrderlyPushBlocks, OrderlyPopBlocks
  <2>5. CASE push_at_once(c) \/ push_woken(c)
    BY <2>5, <1>1, OrderlyPush
  <2>6. CASE pop_at_once(c) \/ pop_woken(c)
    BY <2>6, <1>1, OrderlyPop
  <2> QED
    BY <1>3, <2>1, <2>2, <2>3, <2>4, <2>5, <2>6 DEF ChanStep
<1>4. CASE Tick /\ UNCHANGED <<queueVars, histVars>>
  BY <1>1, <1>4, QuietStep DEF Tick, coVars, switchVars, callVars
<1>5. CASE UNCHANGED chanVars
  BY <1>1, <1>5, QuietStep DEF chanVars, eventVars, coVars, switchVars, callVars, timerVars
<1> QED
  BY <1>2, <1>3, <1>4, <1>5 DEF ChanNext, ChanThread

LEMMA ChanInvStep == ASSUME ChanInv, [ChanNext]_chanVars PROVE ChanInv'
<1>1. SwitchInv'
  BY ChanCoStep, SwitchStep DEF ChanInv, ChanTypeOK, EventTypeOK
<1> QED
  BY <1>1, ChanTypeStep, CallInvStep, OrderlyStep DEF ChanInv

LEMMA ChanInvInit == ChanInit => ChanInv
<1> SUFFICES ASSUME ChanInit PROVE ChanInv
  OBVIOUS
<1> USE DEF ChanInit, EventInit
<1>m. MaxCid * MaxCalls \in Nat /\ 0 \in Calls
  BY EventConstants, CoroutineConstants DEF Calls
<1>1. ChanTypeOK
  <2>1. CoTypeOK
    BY CoroutineConstants DEF CoInit, CoTypeOK, SwitchTypeOK, DeferTypeOK, Stack, Main, Faults
  <2>2. NoReg \in [ev : {"IN", "OUT", "NULL"}, data : U64]
    BY IntBoundIsPositive DEF NoReg, U64, UInt32
  <2>3. 0 \in Time /\ 1 \in 1 .. Ncap + 1 /\ events \in Seq(U64) /\ Len(events) <= Ncap
    BY EventConstants DEF Time
  <2>4. EventTypeOK /\ PcT
    BY <2>1, <2>2, <2>3, EventConstants DEF EventTypeOK, Loop, PcT
  <2>5. QueueT
    BY ChannelConstants DEF QueueT
  <2>6. HistT
    BY <1>m DEF HistT, NoResult
  <2> QED
    BY <2>4, <2>5, <2>6 DEF ChanTypeOK, PcT, QueueT, HistT
<1>2. SwitchInv
  BY SwitchInit
<1>3. /\ running = Main /\ fault = "none"
      /\ \A c \in Cid : state[c] = "none" /\ pc[c] = "user"
  BY DEF CoInit
<1>4. CallInv
  <2>1. IsFiniteSet(Cid) /\ IsFiniteSet(1 .. MaxCalls)
    BY FS_Interval, EventConstants, CoroutineConstants DEF Cid
  <2>2. Cardinality(Made) \in Nat
    <3>1. IsFiniteSet(Cid \X (1 .. MaxCalls))
      BY <2>1, FS_Product
    <3>2. Made \subseteq Cid \X (1 .. MaxCalls)
      BY DEF Made
    <3> QED
      BY <3>1, <3>2, FS_Subset, FS_CardinalityType
  <2> QED
    BY <1>3, <2>2 DEF CallInv, Pushing, Popping
<1>5. ~ PushWoken /\ ~ PopWoken
  BY <1>3 DEF PushWoken, PopWoken
<1>6. SleepersOnly /\ QueuesExact /\ WakeupsExact /\ InOrder /\ Paired
  BY <1>3, <1>5 DEF SleepersOnly, QueuesExact, WaitingIn, NoDuplicates, WakeupsExact, InOrder,
                    Deposited, Withdrawn, Paired, NoResult
<1> QED
  BY <1>1, <1>2, <1>3, <1>4, <1>6 DEF ChanInv, Orderly

\* Whatever the program calls, with whatever timeouts: the types, the switches
\* of the library and, as long as no timer of a timeout was started, the order
\* of the calls.
THEOREM ChanCorrect == ChanSpec => []ChanInv
BY ChanInvInit, ChanInvStep, PTL DEF ChanSpec

-----------------------------------------------------------------------------
(* The properties *)

\* As long as no call starts a timer, push and pop never resume a coroutine
\* that is not suspended, however deeply producers and consumers nest.
THEOREM ChanNeverFaults == ChanSpec => []ChanNoFault
<1>1. ChanInv => ChanNoFault
  BY DEF ChanInv, Orderly, ChanNoFault
<1> QED
  BY <1>1, ChanCorrect, PTL

\* Until a timeout leaves an entry behind, the waiting queues hold exactly the
\* blocked coroutines, each once.
THEOREM WaitersCorrect == ChanSpec => []WaitersExact
<1>1. ChanInv => WaitersExact
  BY DEF ChanInv, Orderly, QueuesExact, WaitingIn, NoDuplicates, WaitersExact
<1> QED
  BY <1>1, ChanCorrect, PTL

\* Without timeouts no wake-up is lost: nobody waits while there is a slot or
\* an item that no resumed coroutine is about to use.
THEOREM WakeupsCorrect == ChanSpec => []NoLostWakeup
<1>1. ChanInv => NoLostWakeup
  BY DEF ChanInv, Orderly, WakeupsExact, PushWoken, PopWoken, NoLostWakeup
<1> QED
  BY <1>1, ChanCorrect, PTL

\* Without timeouts no call gives up and the k-th pop gets the item of the
\* k-th push.
THEOREM CallsCorrect == ChanSpec => []CallsPairInOrder
<1>1. ChanInv => CallsPairInOrder
  BY DEF ChanInv, Orderly, Paired, CallsPairInOrder
<1> QED
  BY <1>1, ChanCorrect, PTL

-----------------------------------------------------------------------------
(* The channel implements a bounded queue *)

\* What the callers of the abstract queue are blocked in.
Blocked == [c \in Cid |-> IF Pushing(c) THEN "push" ELSE IF Popping(c) THEN "pop" ELSE "no"]

\* A step that leaves the queue, the calls and the results alone, and every
\* coroutine in the call it is in.
LEMMA StutterStep ==
    ASSUME UNCHANGED <<data_queue, ticket, result>>,
           \A c \in Cid : (Pushing(c)' <=> Pushing(c)) /\ (Popping(c)' <=> Popping(c))
    PROVE  UNCHANGED Abstract!qVars
<1>1. Blocked' = Blocked
  BY DEF Blocked
<1> QED
  BY <1>1 DEF Abstract!qVars, Blocked

\* What the places of the coroutines in their calls become.
LEMMA BlockedStep ==
    ASSUME PcT, NEW c \in Cid, NEW w, pc' = [pc EXCEPT ![c] = w]
    PROVE  /\ w = "user" => Blocked' = [Blocked EXCEPT ![c] = "no"]
           /\ w \in {"push", "push_timed"} => Blocked' = [Blocked EXCEPT ![c] = "push"]
           /\ w \in {"pop", "pop_timed"} => Blocked' = [Blocked EXCEPT ![c] = "pop"]
<1>1. pc'[c] = w /\ \A d \in Cid : d # c => pc'[d] = pc[d]
  BY DEF PcT
<1> QED
  BY <1>1 DEF Blocked, Pushing, Popping

\* Every step of the channel is a step of the bounded queue or changes nothing
\* of it.
LEMMA QueueStep ==
    ASSUME ChanInv, [ChanNext]_chanVars
    PROVE  [Abstract!QNext]_(Abstract!qVars)
<1>t. /\ PcT /\ QueueT /\ HistT /\ Len(data_queue) \in Nat /\ Capacity \in Nat
  BY OrderlyTypes, ChannelConstants DEF QueueT
<1>b. \A c \in Cid : /\ Pushing(c) <=> Blocked[c] = "push"
                     /\ Popping(c) <=> Blocked[c] = "pop"
                     /\ pc[c] \in {"user", "sleep"} <=> Blocked[c] = "no"
  BY <1>t DEF PcT, Blocked, Pushing, Popping
<1>s. ASSUME UNCHANGED <<queueVars, histVars>>, UNCHANGED pc
      PROVE  [Abstract!QNext]_(Abstract!qVars)
  BY <1>s, StutterStep DEF queueVars, histVars, Pushing, Popping
<1>1. CASE LoopStep({}) /\ UNCHANGED <<queueVars, histVars>>
  <2>1. UNCHANGED callVars
    BY <1>1 DEF LoopStep, run, wait_returns, epoll_wait, epoll_events,
                epoll_none, handle_io, handle_timer, run_timers, run_timers_done, Goto
  <2> QED
    BY <1>1, <1>s, <2>1 DEF callVars
<1>2. ASSUME NEW c \in Cid, ChanStep(c) PROVE [Abstract!QNext]_(Abstract!qVars)
  <2>1. CASE chan_create(c) \/ chan_end(c)
    BY <2>1, <1>s DEF chan_create, chan_end, callVars
  <2>2. ASSUME NEW t \in Delays, chan_sleep(c, t) PROVE [Abstract!QNext]_(Abstract!qVars)
    <3>1. pc[c] \in {"user", "sleep"} /\ pc' = [pc EXCEPT ![c] = "sleep"]
      BY <2>2 DEF chan_sleep, sleep, Park, InUserCode
    <3>2. \A d \in Cid : (Pushing(d)' <=> Pushing(d)) /\ (Popping(d)' <=> Popping(d))
      BY <3>1, <1>t DEF PcT, Pushing, Popping
    <3> QED
      BY <2>2, <3>2, StutterStep DEF chan_sleep, queueVars, histVars
  <2>3. CASE push_at_once(c)
    <3>1. /\ pc[c] \in {"user", "sleep"} /\ pc' = [pc EXCEPT ![c] = "user"]
          /\ Counted(c) /\ Len(data_queue) # Capacity
          /\ data_queue' = Append(data_queue, pushes + 1)
          /\ ticket' = [ticket EXCEPT ![c] = pushes + 1]
          /\ result' = [result EXCEPT ![c] = [op |-> "push", ok |-> TRUE, item |-> pushes + 1]]
      BY <2>3 DEF push_at_once, PushCalled, InUserCode, Deposit, Finish
    <3>2. pushes + 1 \in Calls
      BY <3>1, CallInBounds
    <3>3. Blocked[c] = "no" /\ Blocked' = [Blocked EXCEPT ![c] = "no"]
      BY <3>1, <1>b, <1>t, BlockedStep
    <3>4. Len(data_queue) < Capacity
      BY <3>1, <1>t DEF QueueT
    <3>5. Abstract!Push(c, pushes + 1)
      BY <3>1, <3>3, <3>4 DEF Abstract!Push, Abstract!Complete, Abstract!Pushed, Blocked
    <3> QED
      BY <3>2, <3>5 DEF Abstract!QNext
  <2>4. CASE pop_at_once(c)
    <3>1. /\ pc[c] \in {"user", "sleep"} /\ pc' = [pc EXCEPT ![c] = "user"]
          /\ Counted(c) /\ data_queue # << >>
          /\ data_queue' = Tail(data_queue)
          /\ ticket' = [ticket EXCEPT ![c] = pops + 1]
          /\ result' = [result EXCEPT ![c] = [op |-> "pop", ok |-> TRUE,
                                              item |-> Head(data_queue)]]
      BY <2>4 DEF pop_at_once, PopCalled, InUserCode, Withdraw, Finish
    <3>2. pops + 1 \in Calls
      BY <3>1, CallInBounds
    <3>3. Blocked[c] = "no" /\ Blocked' = [Blocked EXCEPT ![c] = "no"]
      BY <3>1, <1>b, <1>t, BlockedStep
    <3>4. Abstract!Pop(c, pops + 1)
      BY <3>1, <3>3 DEF Abstract!Pop, Abstract!Complete, Abstract!Popped, Blocked
    <3> QED
      BY <3>2, <3>4 DEF Abstract!QNext
  <2>5. ASSUME NEW t \in TimeoutArg, push_blocks(c, t)
        PROVE  [Abstract!QNext]_(Abstract!qVars)
    <3>1. /\ pc[c] \in {"user", "sleep"} /\ pc' = [pc EXCEPT ![c] = In("push", t)]
          /\ Counted(c) /\ Len(data_queue) = Capacity /\ data_queue' = data_queue
          /\ ticket' = [ticket EXCEPT ![c] = pushes + 1]
          /\ result' = [result EXCEPT ![c] = NoResult]
      BY <2>5 DEF push_blocks, PushCalled, InUserCode, Block, Park
    <3>2. pushes + 1 \in Calls
      BY <3>1, CallInBounds
    <3>3. In("push", t) \in {"push", "push_timed"}
      BY DEF In
    <3>4. Blocked[c] = "no" /\ Blocked' = [Blocked EXCEPT ![c] = "push"]
      BY <3>1, <3>3, <1>b, <1>t, BlockedStep
    <3>5. Abstract!Block(c, "push", pushes + 1)
      BY <3>1, <3>4 DEF Abstract!Block, Abstract!NoResult, NoResult, Blocked
    <3> QED
      BY <3>2, <3>5 DEF Abstract!QNext
  <2>6. ASSUME NEW t \in TimeoutArg, pop_blocks(c, t)
        PROVE  [Abstract!QNext]_(Abstract!qVars)
    <3>1. /\ pc[c] \in {"user", "sleep"} /\ pc' = [pc EXCEPT ![c] = In("pop", t)]
          /\ Counted(c) /\ data_queue = << >> /\ data_queue' = data_queue
          /\ ticket' = [ticket EXCEPT ![c] = pops + 1]
          /\ result' = [result EXCEPT ![c] = NoResult]
      BY <2>6 DEF pop_blocks, PopCalled, InUserCode, Block, Park
    <3>2. pops + 1 \in Calls
      BY <3>1, CallInBounds
    <3>3. In("pop", t) \in {"pop", "pop_timed"}
      BY DEF In
    <3>4. Blocked[c] = "no" /\ Blocked' = [Blocked EXCEPT ![c] = "pop"]
      BY <3>1, <3>3, <1>b, <1>t, BlockedStep
    <3>5. Abstract!Block(c, "pop", pops + 1)
      BY <3>1, <3>4 DEF Abstract!Block, Abstract!NoResult, NoResult, Blocked
    <3> QED
      BY <3>2, <3>5 DEF Abstract!QNext
  <2>7. CASE push_woken(c)
    <3>1. /\ Blocked[c] = "push" /\ Blocked' = [Blocked EXCEPT ![c] = "no"]
          /\ UNCHANGED ticket /\ running = c
      BY <2>7, <1>b, <1>t, BlockedStep DEF push_woken, Deposit, Finish
    <3>2. CASE Len(data_queue) = Capacity
      <4>1. /\ data_queue' = data_queue
            /\ result' = [result EXCEPT ![c] = [op |-> "push", ok |-> FALSE, item |-> 0]]
        BY <2>7, <3>2 DEF push_woken, Finish, queueVars
      \* Only a timer resumes a push while the channel is full.
      <4>2. timed
        <5>1. PushWoken
          BY <2>7, RunningFacts DEF push_woken, PushWoken
        <5> QED
          BY <3>2, <5>1, ChannelConstants DEF ChanInv, Orderly, WakeupsExact
      <4>3. Abstract!GiveUp(c)
        BY <3>1, <3>2, <4>1, <4>2
           DEF Abstract!GiveUp, Abstract!Complete, Abstract!GaveUp, Blocked, ChanInv, CallInv
      <4> QED
        BY <4>3 DEF Abstract!QNext
    <3>3. CASE Len(data_queue) # Capacity
      <4>1. /\ data_queue' = Append(data_queue, ticket[c]) /\ Len(data_queue) < Capacity
            /\ result' = [result EXCEPT ![c] = [op |-> "push", ok |-> TRUE, item |-> ticket[c]]]
        BY <2>7, <3>3, <1>t DEF push_woken, Deposit, Finish, QueueT
      <4>2. Abstract!FinishPush(c)
        BY <3>1, <4>1 DEF Abstract!FinishPush, Abstract!Complete, Abstract!Pushed, Blocked
      <4> QED
        BY <4>2 DEF Abstract!QNext
    <3> QED
      BY <3>2, <3>3
  <2>8. CASE pop_woken(c)
    <3>1. /\ Blocked[c] = "pop" /\ Blocked' = [Blocked EXCEPT ![c] = "no"]
          /\ UNCHANGED ticket /\ running = c
      BY <2>8, <1>b, <1>t, BlockedStep DEF pop_woken, Withdraw, Finish
    <3>2. CASE data_queue = << >>
      <4>1. /\ data_queue' = data_queue
            /\ result' = [result EXCEPT ![c] = [op |-> "pop", ok |-> FALSE, item |-> 0]]
        BY <2>8, <3>2 DEF pop_woken, Finish, queueVars
      <4>2. timed
        <5>1. PopWoken
          BY <2>8, RunningFacts DEF pop_woken, PopWoken
        <5> QED
          BY <3>2, <5>1 DEF ChanInv, Orderly, WakeupsExact
      <4>3. Abstract!GiveUp(c)
        BY <3>1, <3>2, <4>1, <4>2
           DEF Abstract!GiveUp, Abstract!Complete, Abstract!GaveUp, Blocked, ChanInv, CallInv
      <4> QED
        BY <4>3 DEF Abstract!QNext
    <3>3. CASE data_queue # << >>
      <4>1. /\ data_queue' = Tail(data_queue)
            /\ result' = [result EXCEPT ![c] = [op |-> "pop", ok |-> TRUE,
                                                item |-> Head(data_queue)]]
        BY <2>8, <3>3 DEF pop_woken, Withdraw, Finish
      <4>2. Abstract!FinishPop(c)
        BY <3>1, <3>3, <4>1 DEF Abstract!FinishPop, Abstract!Complete, Abstract!Popped, Blocked
      <4> QED
        BY <4>2 DEF Abstract!QNext
    <3> QED
      BY <3>2, <3>3
  <2> QED
    BY <1>2, <2>1, <2>2, <2>3, <2>4, <2>5, <2>6, <2>7, <2>8 DEF ChanStep
<1>3. CASE Tick /\ UNCHANGED <<queueVars, histVars>>
  BY <1>3, <1>s DEF Tick, callVars
<1>4. CASE UNCHANGED chanVars
  BY <1>4, <1>s DEF chanVars, eventVars, callVars
<1> QED
  BY <1>1, <1>2, <1>3, <1>4 DEF ChanNext, ChanThread

\* The channel implements a bounded first-in first-out queue whose callers
\* block, also with timeouts: no item is lost, duplicated, reordered or
\* invented, the capacity is kept, and only a timed call gives up, on a full
\* or an empty queue.
THEOREM ChannelRefinesBoundedQueue == ChanSpec => ImplementsBoundedQueue
<1>1. ASSUME ChanInit PROVE Abstract!QInit
  <2>1. \A c \in Cid : ~ Pushing(c) /\ ~ Popping(c)
    BY <1>1 DEF ChanInit, EventInit, Pushing, Popping
  <2> QED
    BY <1>1, <2>1 DEF ChanInit, Abstract!QInit, Abstract!NoResult, NoResult
<1>2. ChanInv /\ [ChanNext]_chanVars => [Abstract!QNext]_(Abstract!qVars)
  BY QueueStep
<1> QED
  BY <1>1, <1>2, ChanCorrect, PTL DEF ChanSpec, ImplementsBoundedQueue, Abstract!QSpec
=============================================================================
