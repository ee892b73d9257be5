------------------------------ MODULE Channel ------------------------------
(***************************************************************************)
(* coroutine::Channel (src/coroutine/channel.cc): coroutines that push to  *)
(* and pop from one channel, with and without a timeout, on the event loop *)
(* of module Event.                                                        *)
(*                                                                         *)
(* push and pop resume the coroutine at the head of the other side's queue *)
(* inside the call, before they return: the two sides run nested in each   *)
(* other.  A timeout is a timer that resumes the coroutine through the     *)
(* same pointer; neither path takes the coroutine off the other one.       *)
(*                                                                         *)
(* The k-th push called carries item k.                                    *)
(***************************************************************************)
EXTENDS Event

CONSTANTS Capacity,   \* Channel::capacity
          Timeouts,   \* positive timeouts, in ticks (0: under a millisecond)
          Untimed,    \* whether calls without a timeout are made
          Delays      \* arguments of sleep, in ticks

ASSUME ChannelConstants ==
    /\ Capacity \in Nat \ {0} /\ Timeouts \subseteq Nat /\ Untimed \in BOOLEAN
    /\ Delays \subseteq Nat

VARIABLES
    data_queue,       \* Channel::data_queue
    producer_queue,   \* Channel::producer_queue, of Coroutine*
    consumer_queue,   \* Channel::consumer_queue
    ticket,           \* history: the number of each coroutine's last call
    pushes, pops,     \* history: calls of push and of pop so far
    timed,            \* history: some call has started the timer of a timeout
    result            \* the value returned by each coroutine's last call

queueVars == <<data_queue, producer_queue, consumer_queue>>
histVars  == <<ticket, pushes, pops, timed, result>>
chanVars  == <<eventVars, queueVars, histVars>>

Calls == 0 .. MaxCid * MaxCalls

NoTimeout == -1
TimeoutArg == Timeouts \cup (IF Untimed THEN {NoTimeout} ELSE {})

\* pc of a coroutine inside push or pop; the argument timeout > 0 is kept.
In(op, timeout) ==
    CASE timeout = NoTimeout -> op
      [] timeout # NoTimeout /\ op = "push" -> "push_timed"
      [] timeout # NoTimeout /\ op = "pop" -> "pop_timed"
Pushing(c) == pc[c] \in {"push", "push_timed"}
Popping(c) == pc[c] \in {"pop", "pop_timed"}

ChanTypeOK ==
    /\ EventTypeOK
    /\ pc \in [Cid -> {"user", "sleep", "push", "pop", "push_timed", "pop_timed"}]
    /\ data_queue \in Seq(Calls) /\ Len(data_queue) <= Capacity
    /\ producer_queue \in Seq(Cid)
    /\ consumer_queue \in Seq(Cid)
    /\ ticket \in [Cid -> Calls]
    /\ pushes \in Calls /\ pops \in Calls /\ timed \in BOOLEAN
    /\ result \in [Cid -> [op : {"none", "push", "pop"}, ok : BOOLEAN,
                           item : Calls]]

NoResult == [op |-> "none", ok |-> FALSE, item |-> 0]

ChanInit ==
    /\ EventInit
    /\ data_queue = << >>
    /\ producer_queue = << >> /\ consumer_queue = << >>
    /\ ticket = [c \in Cid |-> 0] /\ pushes = 0 /\ pops = 0
    /\ timed = FALSE
    /\ result = [c \in Cid |-> NoResult]

-----------------------------------------------------------------------------
(* Pieces of push and pop *)

InUserCode(c) == fault = "none" /\ running = c /\ pc[c] \in {"user", "sleep"}

Finish(c, op, ok, v) ==
    /\ pc' = [pc EXCEPT ![c] = "user"]
    /\ result' = [result EXCEPT ![c] = [op |-> op, ok |-> ok, item |-> v]]

\* Mutant: the notification is forgotten.
notice_forgotten(q, q2) == q2 = q /\ UNCHANGED coVars

\* Mutant: the coroutine is resumed and left in the queue.
notice_keeps_entry(q, q2) ==
    q2 = q /\ IF q = << >> THEN UNCHANGED coVars ELSE resume(Head(q), FALSE)

\* Mutant: the coroutine that waited last is resumed.
notice_newest(q, q2) ==
    IF q = << >>
    THEN q2 = q /\ UNCHANGED coVars
    ELSE q2 = SubSeq(q, 1, Len(q) - 1) /\ resume(q[Len(q)], FALSE)

\* notice consumer / notice producer: take the head of the waiting queue q,
\* leaving q2, and resume it through its pointer.  Then the call returns.
notice(q, q2) ==
    IF q = << >>
    THEN q2 = q /\ UNCHANGED coVars
    ELSE q2 = Tail(q) /\ resume(Head(q), FALSE)

\* The call blocks: the timer if there is a timeout, then yield.
Block(c, op, timeout) ==
    /\ Park(c, In(op, timeout))
    /\ IF timeout = NoTimeout THEN UNCHANGED <<timers, timed>>
       ELSE add_timer(c, timeout) /\ timed' = TRUE
    /\ yield
    /\ result' = [result EXCEPT ![c] = NoResult]
    /\ UNCHANGED <<wfd, now, loopVars, pollVars, data_queue>>

-----------------------------------------------------------------------------
(* push *)

PushCalled(c) ==
    /\ InUserCode(c)
    /\ pushes' = pushes + 1 /\ ticket' = [ticket EXCEPT ![c] = pushes + 1]
    /\ UNCHANGED pops

\* Mutant: a blocked producer waits among the consumers.
push_blocks_wrong_queue(c, timeout) ==
    /\ PushCalled(c)
    /\ Len(data_queue) = Capacity
    /\ Block(c, "push", timeout)
    /\ consumer_queue' = Append(consumer_queue, c)
    /\ UNCHANGED producer_queue

\* The channel is full: wait in producer_queue.
push_blocks(c, timeout) ==
    /\ PushCalled(c)
    /\ Len(data_queue) = Capacity
    /\ Block(c, "push", timeout)
    /\ producer_queue' = Append(producer_queue, c)
    /\ UNCHANGED consumer_queue

\* The end of push: the item is queued and a consumer resumed.
Deposit(c, v) ==
    /\ data_queue' = Append(data_queue, v)
    /\ Finish(c, "push", TRUE, v)
    /\ notice(consumer_queue, consumer_queue')
    /\ UNCHANGED <<producer_queue, wfd, timerVars, loopVars, pollVars>>

push_at_once(c) ==
    /\ PushCalled(c)
    /\ Len(data_queue) # Capacity
    /\ Counted(c)
    /\ Deposit(c, pushes + 1)
    /\ UNCHANGED timed

\* Mutant: the channel is not looked at again after the yield.
push_woken_unchecked(c) ==
    /\ fault = "none" /\ running = c /\ Pushing(c)
    /\ Deposit(c, ticket[c])
    /\ UNCHANGED <<calls, ticket, pushes, pops, timed>>

\* push after its yield: the channel may still be full.
push_woken(c) ==
    /\ fault = "none" /\ running = c /\ Pushing(c)
    /\ IF Len(data_queue) = Capacity
       THEN /\ Finish(c, "push", FALSE, 0)
            /\ UNCHANGED <<coVars, wfd, timerVars, loopVars, pollVars, queueVars>>
       ELSE Deposit(c, ticket[c])
    /\ UNCHANGED <<calls, ticket, pushes, pops, timed>>

-----------------------------------------------------------------------------
(* pop *)

PopCalled(c) ==
    /\ InUserCode(c)
    /\ pops' = pops + 1 /\ ticket' = [ticket EXCEPT ![c] = pops + 1]
    /\ UNCHANGED pushes

\* The channel is empty: wait in consumer_queue.
pop_blocks(c, timeout) ==
    /\ PopCalled(c)
    /\ data_queue = << >>
    /\ Block(c, "pop", timeout)
    /\ consumer_queue' = Append(consumer_queue, c)
    /\ UNCHANGED producer_queue

\* The end of pop: the oldest item is taken and a producer resumed.
Withdraw(c) ==
    /\ data_queue' = Tail(data_queue)
    /\ Finish(c, "pop", TRUE, Head(data_queue))
    /\ notice(producer_queue, producer_queue')
    /\ UNCHANGED <<consumer_queue, wfd, timerVars, loopVars, pollVars>>

pop_at_once(c) ==
    /\ PopCalled(c)
    /\ data_queue # << >>
    /\ Counted(c)
    /\ Withdraw(c)
    /\ UNCHANGED timed

\* pop after its yield: the channel may still be empty.
pop_woken(c) ==
    /\ fault = "none" /\ running = c /\ Popping(c)
    /\ IF data_queue = << >>
       THEN /\ Finish(c, "pop", FALSE, 0)
            /\ UNCHANGED <<coVars, wfd, timerVars, loopVars, pollVars, queueVars>>
       ELSE Withdraw(c)
    /\ UNCHANGED <<calls, ticket, pushes, pops, timed>>

-----------------------------------------------------------------------------
(* The program *)

chan_create(c) ==
    /\ InUserCode(c) /\ create
    /\ UNCHANGED <<callVars, timerVars, loopVars, pollVars, queueVars, histVars>>

chan_end(c) ==
    /\ InUserCode(c)
    /\ context_end
    /\ UNCHANGED <<callVars, timerVars, loopVars, pollVars, queueVars, histVars>>

\* Between its calls a coroutine may sleep, so that others overtake it.
chan_sleep(c, timeout) ==
    /\ InUserCode(c) /\ sleep(c, timeout)
    /\ UNCHANGED <<queueVars, histVars>>

ChanStep(c) ==
    \/ chan_create(c)
    \/ chan_end(c)
    \/ \E t \in Delays : chan_sleep(c, t)
    \/ push_at_once(c)
    \/ pop_at_once(c)
    \/ \E t \in TimeoutArg : push_blocks(c, t) \/ pop_blocks(c, t)
    \/ push_woken(c)
    \/ pop_woken(c)

ChanThread ==
    \/ LoopStep({}) /\ UNCHANGED <<queueVars, histVars>>
    \/ \E c \in Cid : ChanStep(c)

ChanNext ==
    \/ ChanThread
    \/ Tick /\ UNCHANGED <<queueVars, histVars>>

ChanSpec == ChanInit /\ [][ChanNext]_chanVars

-----------------------------------------------------------------------------
(* Properties *)

\* The channel implements a bounded first-in first-out queue whose callers
\* block: what push and pop return, and what is in the queue, at every step,
\* also with the timers and the queue entries that timeouts leave behind, up
\* to the moment the program fails.
Abstract == INSTANCE BoundedQueue WITH
    Client <- Cid, Call <- Calls,
    CanGiveUp <- Timeouts # {},
    queue <- data_queue,
    blocked <- [c \in Cid |-> IF Pushing(c) THEN "push"
                              ELSE IF Popping(c) THEN "pop" ELSE "no"],
    call <- ticket
ImplementsBoundedQueue == Abstract!QSpec

\* As long as no call starts a timer, none resumes a coroutine that is not
\* suspended: the nesting of producers and consumers never re-enters one (the
\* assertion current != this of _resume, and the dangling pointers it cannot
\* see).
ChanNoFault == ~ timed => fault = "none"

\* Until a timeout leaves an entry behind, the waiting queues hold exactly the
\* blocked coroutines, each once.
WaitersExact ==
    ~ timed =>
      /\ \A c \in Cid :
            (state[c] = "suspended" /\ Pushing(c)) <=>
               \E i \in 1 .. Len(producer_queue) : producer_queue[i] = c
      /\ \A c \in Cid :
            (state[c] = "suspended" /\ Popping(c)) <=>
               \E i \in 1 .. Len(consumer_queue) : consumer_queue[i] = c
      /\ \A i, j \in 1 .. Len(producer_queue) :
            producer_queue[i] = producer_queue[j] => i = j
      /\ \A i, j \in 1 .. Len(consumer_queue) :
            consumer_queue[i] = consumer_queue[j] => i = j

\* Without timeouts a wake-up is never lost: a producer waits only while the
\* channel is full and a consumer only while it is empty, except for the
\* moment in which the coroutine that was just resumed has yet to use the slot
\* or the item.
NoLostWakeup ==
    ~ timed =>
      /\ producer_queue # << >> =>
            \/ Len(data_queue) = Capacity
            \/ /\ running # Main /\ Pushing(running)
               /\ Len(data_queue) = Capacity - 1
      /\ consumer_queue # << >> =>
            \/ Len(data_queue) = 0
            \/ /\ running # Main /\ Popping(running)
               /\ Len(data_queue) = 1

\* Without timeouts no call gives up, and the k-th pop that was called gets
\* the item of the k-th push that was called, however the calls blocked and
\* were resumed: nobody overtakes.
CallsPairInOrder ==
    ~ timed =>
      \A c \in Cid : result[c].op # "none" => result[c].ok /\ result[c].item = ticket[c]

\* The assertion of _resume (coroutine.cc:81), assert(current != this): no
\* coroutine is made to resume itself.
ResumeAssertion == fault # "assert"
=============================================================================
