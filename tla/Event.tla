-------------------------------- MODULE Event --------------------------------
(***************************************************************************)
(* The event loop and the two library calls that park a coroutine in it:   *)
(* Event::wait (src/core/event.cc), TimerManager (src/timer.cc),           *)
(* Coroutine::sleep (src/coroutine/coroutine.cc) and Socket::wait_event    *)
(* (src/coroutine/socket.cc).                                              *)
(*                                                                         *)
(* The loop runs on the main stack, inside coroutine::run.  The module     *)
(* defines the loop's steps and the calls; the modules that extend it add  *)
(* the programs that make the calls and say which descriptors are ready.   *)
(***************************************************************************)
EXTENDS Coroutine, Help

CONSTANTS Fd,        \* descriptors, a finite set of non-negative ints
          Ncap,      \* Poll::ncap, FSW_EPOLL_CAP: size of poll->events
          MaxTime,   \* bound: the clock, in ticks
          MaxCalls   \* bound: blocking library calls made by one coroutine

ASSUME EventConstants ==
    /\ Fd \subseteq 0 .. IntBound - 1 /\ IsFiniteSet(Fd)
    /\ Ncap \in Nat \ {0} /\ MaxTime \in Nat /\ MaxCalls \in Nat
    /\ MaxCid < IntBound

VARIABLES
    pc,         \* the last blocking call of each coroutine
    wfd,        \* the descriptor of that call, if it is wait_event
    calls,      \* history: blocking calls made by each coroutine
    now,        \* Timer::get_current_ms()
    timers,     \* TimerManager::timers: [exec, co, call] records
    loop,       \* where coroutine::run and Event::wait are
    deadline,   \* when the epoll_wait in progress times out; Forever if never
    tnow,       \* the local `now' of run_timers, 0 outside it
    epoll,      \* the kernel's interest list, per descriptor
    events,     \* the first num words of poll->events
    idx,        \* the next index default_handle_io reads, from 1
    event_num   \* Poll::event_num

callVars  == <<pc, wfd, calls>>
timerVars == <<now, timers>>
loopVars  == <<loop, deadline, tnow, idx>>
pollVars  == <<epoll, events, event_num>>
eventVars == <<coVars, callVars, timerVars, loopVars, pollVars>>

Forever == -1
NoReg   == [ev |-> "NULL", data |-> [hi |-> 0, lo |-> 0]]
U64     == [hi : UInt32, lo : UInt32]
Time    == 0 .. MaxTime
Loop    == {"start", "check", "poll", "io", "timers", "returned"}
InterestList == {f \in Fd : epoll[f] # NoReg}

EventTypeOK ==
    /\ CoTypeOK
    /\ wfd \in [Cid -> Fd \cup {-1}]
    /\ calls \in [Cid -> 0 .. MaxCalls]
    /\ now \in Time /\ tnow \in Time
    /\ timers \subseteq [exec : Time, co : Cid, call : 1 .. MaxCalls]
    /\ loop \in Loop
    /\ deadline \in Time \cup {Forever}
    /\ epoll \in [Fd -> [ev : {"IN", "OUT", "NULL"}, data : U64]]
    /\ events \in Seq(U64) /\ Len(events) <= Ncap
    /\ idx \in 1 .. Ncap + 1
    /\ event_num \in Nat

EventInit ==
    /\ CoInit
    /\ pc = [c \in Cid |-> "user"]
    /\ wfd = [c \in Cid |-> -1]
    /\ calls = [c \in Cid |-> 0]
    /\ now = 0 /\ timers = {} /\ tnow = 0
    /\ loop = "start" /\ deadline = Forever
    /\ epoll = [f \in Fd |-> NoReg]
    /\ events = << >> /\ idx = 1
    /\ event_num = 0

-----------------------------------------------------------------------------
(* Timers *)

\* Timer::Timer and TimerManager::add_timer.  One call adds at most one timer.
add_timer(c, timeout) ==
    /\ now + timeout \in Time
    /\ timers' = timers \cup
          {[exec |-> now + timeout, co |-> c, call |-> calls[c] + 1]}

\* What top() may be: CompareTimerPointer leaves equal times in any order.
Tops == {t \in timers : \A u \in timers : t.exec <= u.exec}

\* Mutant: an overdue timer is reported like no timer.
get_next_timeout_unclamped ==
    IF timers = {} THEN -1 ELSE (CHOOSE t \in Tops : TRUE).exec - now

\* get_next_timeout, -1 with no timer.
get_next_timeout ==
    IF timers = {} THEN -1
    ELSE LET diff == (CHOOSE t \in Tops : TRUE).exec - now
         IN  IF diff < 0 THEN 0 ELSE diff

-----------------------------------------------------------------------------
(* Calls that park the running coroutine *)

Counted(c) == /\ calls[c] < MaxCalls
              /\ calls' = [calls EXCEPT ![c] = @ + 1]

Park(c, where) == Counted(c) /\ pc' = [pc EXCEPT ![c] = where]

\* Coroutine::sleep: add_timer, then yield.  After the yield it only returns.
sleep(c, timeout) ==
    /\ Park(c, "sleep")
    /\ add_timer(c, timeout)
    /\ yield
    /\ UNCHANGED <<wfd, now, loopVars, pollVars>>

\* Mutant: the argument is built in the last entry of the batch.
Scratch_last(data) ==
    events' = IF events = << >> THEN << >>
              ELSE [events EXCEPT ![Len(events)] = data]

\* wait_event uses the first entry of poll->events as the argument of
\* epoll_ctl, whatever is in it.
Scratch(data) ==
    events' = IF events = << >> THEN << >> ELSE [events EXCEPT ![1] = data]

\* The word registered for the running coroutine: its long cid becomes an int.
Word(c, fd) == touint64(fd, ToInt(c))

\* wait_event up to its yield, EPOLL_CTL_ADD having succeeded.
add_event(c, fd, ev) ==
    /\ epoll[fd] = NoReg
    /\ Scratch(Word(c, fd))
    /\ epoll' = [epoll EXCEPT ![fd] = [ev |-> ev, data |-> Word(c, fd)]]
    /\ pc' = [pc EXCEPT ![c] = "wait_event"]
    /\ wfd' = [wfd EXCEPT ![c] = fd]
    /\ yield
    /\ UNCHANGED <<timerVars, loopVars>>

\* wait_event up to its yield: EPOLL_CTL_ADD, event_num++, yield.
wait_event(c, fd, ev) == add_event(c, fd, ev) /\ event_num' = event_num + 1

\* wait_event when EPOLL_CTL_ADD fails with EEXIST: another coroutine waits
\* for the same descriptor.  It returns false at once.
wait_event_exists(c, fd) ==
    /\ epoll[fd] # NoReg
    /\ Scratch(Word(c, fd))
    /\ UNCHANGED <<epoll, event_num>>

\* wait_event after its yield.  EPOLL_CTL_DEL of a descriptor that is not in
\* the interest list fails: event_num stays and the result is false.
DelFails(c) == epoll[wfd[c]] = NoReg

\* Mutant: event_num is taken back whether EPOLL_CTL_DEL fails or not.
wait_event_woken_always(c) ==
    /\ epoll' = [epoll EXCEPT ![wfd[c]] = NoReg]
    /\ event_num' = event_num - 1
    /\ wfd' = [wfd EXCEPT ![c] = -1]
    /\ UNCHANGED <<coVars, timerVars, loopVars, events>>

wait_event_woken(c) ==
    /\ IF DelFails(c)
       THEN UNCHANGED <<epoll, event_num>>
       ELSE /\ epoll' = [epoll EXCEPT ![wfd[c]] = NoReg]
            /\ event_num' = event_num - 1
    /\ wfd' = [wfd EXCEPT ![c] = -1]
    /\ UNCHANGED <<coVars, timerVars, loopVars, events>>

\* close(fd) on a descriptor somebody waits for: the kernel drops it from the
\* interest list, and event_num is not told.
close_registered(fd) ==
    /\ epoll[fd] # NoReg
    /\ epoll' = [epoll EXCEPT ![fd] = NoReg]
    /\ UNCHANGED <<coVars, callVars, timerVars, loopVars, events, event_num>>

-----------------------------------------------------------------------------
(* coroutine::run and Event::wait, on the main stack *)

OnMain(where) == fault = "none" /\ running = Main /\ loop = where

Goto(where) == /\ loop' = where
               /\ UNCHANGED <<coVars, callVars, timerVars, pollVars>>

\* coroutine::run: new Event, create the first coroutine, then wait().
run ==
    /\ OnMain("start")
    /\ create
    /\ loop' = "check"
    /\ UNCHANGED <<callVars, timerVars, deadline, tnow, idx, pollVars>>

\* Mutant: the loop ends when no timer is left.
wait_returns_no_timer ==
    /\ OnMain("check")
    /\ get_next_timeout < 0
    /\ Goto("returned")
    /\ UNCHANGED <<deadline, tnow, idx>>

\* wait: nothing to wait for; running = 0, and run deletes the Event.
wait_returns ==
    /\ OnMain("check")
    /\ get_next_timeout < 0 /\ event_num = 0
    /\ Goto("returned")
    /\ UNCHANGED <<deadline, tnow, idx>>

\* wait: epoll_wait is called.  Its timeout parameter is an int; a negative
\* one blocks for ever.
epoll_wait ==
    /\ OnMain("check")
    /\ ~ (get_next_timeout < 0 /\ event_num = 0)
    /\ LET timeout == ToInt(get_next_timeout)
       IN  deadline' = IF timeout < 0 THEN Forever ELSE now + timeout
    /\ Goto("poll")
    /\ UNCHANGED <<tnow, idx>>

\* epoll_wait returns a batch of registered and ready descriptors, in any
\* order and at most ncap of them.
Batches(ready) ==
    LET n == IF Cardinality(ready) < Ncap THEN Cardinality(ready) ELSE Ncap
    IN  {b \in [1 .. n -> ready] : \A i, j \in 1 .. n : b[i] = b[j] => i = j}

epoll_events(ready) ==
    /\ OnMain("poll")
    /\ ready # {}
    /\ \E b \in Batches(ready) :
          events' = [i \in DOMAIN b |-> epoll[b[i]].data]
    /\ loop' = "io" /\ idx' = 1 /\ deadline' = Forever
    /\ UNCHANGED <<coVars, callVars, timerVars, tnow, epoll, event_num>>

\* epoll_wait times out, or a signal interrupts it before (num is 0 or -1:
\* either way default_handle_io has no turn).
epoll_none(ready) ==
    /\ OnMain("poll")
    /\ ready = {}
    /\ Goto("io") /\ idx' = 1 /\ deadline' = Forever
    /\ UNCHANGED tnow

Due == deadline # Forever /\ now >= deadline

\* Mutant: the batch is handled from its last entry down.
handle_io_backwards ==
    /\ OnMain("io")
    /\ idx <= Len(events)
    /\ idx' = idx + 1
    /\ LET c == fromuint64(events[Len(events) + 1 - idx]).id
       IN  IF c \in Cid THEN resume(c, TRUE) ELSE Die("null")
    /\ UNCHANGED <<callVars, timerVars, loop, deadline, tnow, pollVars>>

\* default_handle_io, one turn: the word is read, then the coroutine resumed.
handle_io ==
    /\ OnMain("io")
    /\ idx <= Len(events)
    /\ idx' = idx + 1
    /\ LET c == fromuint64(events[idx]).id
       IN  IF c \in Cid THEN resume(c, TRUE) ELSE Die("null")
    /\ UNCHANGED <<callVars, timerVars, loop, deadline, tnow, pollVars>>

\* default_handle_io returns; run_timers reads the clock once.
handle_timer ==
    /\ OnMain("io")
    /\ idx > Len(events)
    /\ loop' = "timers" /\ tnow' = now
    /\ events' = << >> /\ idx' = 1
    /\ UNCHANGED <<coVars, callVars, timerVars, deadline, epoll, event_num>>

\* Mutant: a timer is run one tick before its time.
run_timers_early ==
    /\ OnMain("timers")
    /\ \E t \in Tops :
          /\ tnow + 1 >= t.exec
          /\ timers' = timers \ {t}
          /\ resume(t.co, FALSE)
    /\ UNCHANGED <<callVars, now, loopVars, pollVars>>

\* Mutant: the timer is not popped.
run_timers_keeps ==
    /\ OnMain("timers")
    /\ \E t \in Tops : tnow >= t.exec /\ resume(t.co, FALSE)
    /\ UNCHANGED <<callVars, timerVars, loopVars, pollVars>>

\* run_timers, one turn: pop the top if it is due, call sleep_timeout, which
\* resumes the coroutine through the pointer the timer kept.
run_timers ==
    /\ OnMain("timers")
    /\ \E t \in Tops :
          /\ tnow >= t.exec
          /\ timers' = timers \ {t}
          /\ resume(t.co, FALSE)
    /\ UNCHANGED <<callVars, now, loopVars, pollVars>>

\* run_timers breaks off or finds no timer; back to the top of wait().
run_timers_done ==
    /\ OnMain("timers")
    /\ \A t \in Tops : tnow < t.exec
    /\ Goto("check") /\ tnow' = 0
    /\ UNCHANGED <<deadline, idx>>

\* The clock.
Tick ==
    /\ fault = "none" /\ loop # "returned"
    /\ now < MaxTime
    /\ now' = now + 1
    /\ UNCHANGED <<coVars, callVars, timers, loopVars, pollVars>>

\* The steps of the loop, given the descriptors that are ready.
LoopStep(ready) ==
    \/ run
    \/ wait_returns
    \/ epoll_wait
    \/ epoll_events(ready)
    \/ Due /\ epoll_none(ready)
    \/ handle_io
    \/ handle_timer
    \/ run_timers
    \/ run_timers_done

Interrupted(ready) == ~ Due /\ epoll_none(ready)
=============================================================================
