------------------------------ MODULE EventLoop ------------------------------
(***************************************************************************)
(* Programs on the event loop: coroutines that create coroutines, yield to *)
(* be resumed by another, sleep, and wait for descriptors, in any order    *)
(* and nesting, while the clock runs, descriptors become ready and signals *)
(* interrupt epoll_wait.                                                   *)
(***************************************************************************)
EXTENDS Event

CONSTANTS Delays,      \* arguments of sleep, in ticks
          MaxCloses    \* bound: descriptors closed under a waiting coroutine

ASSUME EventLoopConstants == Delays \subseteq Nat /\ MaxCloses \in Nat

VARIABLES ready,       \* descriptors with something to read, by the network
          closed       \* history: descriptors closed while waited for

loopAll == <<eventVars, ready, closed>>
envVars == <<ready, closed>>

TypeOK ==
    /\ EventTypeOK
    /\ pc \in [Cid -> {"user", "yield", "sleep", "wait_event"}]
    /\ ready \subseteq Fd
    /\ closed \subseteq Fd

Init ==
    /\ EventInit
    /\ ready = {} /\ closed = {}

-----------------------------------------------------------------------------
(* User code.  A coroutine executes its own code when it runs and is not   *)
(* inside wait_event, which has work left after its yield.                 *)

InUserCode(c) == fault = "none" /\ running = c /\ pc[c] # "wait_event"

Waiting(c) == state[c] = "suspended" /\ pc[c] = "wait_event"
Sleeping(c) == state[c] = "suspended" /\ pc[c] = "sleep"

user_create(c) ==
    /\ InUserCode(c) /\ create
    /\ UNCHANGED <<callVars, timerVars, loopVars, pollVars, envVars>>

\* Coroutine::yield by the program itself, to be resumed by another coroutine.
user_yield(c) ==
    /\ InUserCode(c)
    /\ Park(c, "yield") /\ yield
    /\ UNCHANGED <<wfd, timerVars, loopVars, pollVars, envVars>>

\* Coroutine::resume of a coroutine that has yielded itself.
user_resume(c, d) ==
    /\ InUserCode(c)
    /\ state[d] = "suspended" /\ pc[d] = "yield"
    /\ resume(d, TRUE)
    /\ UNCHANGED <<callVars, timerVars, loopVars, pollVars, envVars>>

user_sleep(c, timeout) ==
    /\ InUserCode(c) /\ sleep(c, timeout)
    /\ UNCHANGED envVars

user_wait(c, fd) ==
    /\ InUserCode(c) /\ fd \notin closed
    /\ Counted(c)
    /\ \/ wait_event(c, fd, "IN")
       \/ /\ wait_event_exists(c, fd)
          /\ UNCHANGED <<coVars, pc, wfd, timerVars, loopVars>>
    /\ UNCHANGED envVars

\* wait_event returns and the program reads, all there is or a part of it.
user_woken(c) ==
    /\ fault = "none" /\ running = c /\ pc[c] = "wait_event"
    /\ wait_event_woken(c)
    /\ pc' = [pc EXCEPT ![c] = "user"]
    /\ ready' \in {ready, ready \ {wfd[c]}}
    /\ UNCHANGED <<calls, closed>>

\* Closing a descriptor another coroutine waits for.
user_close(c, fd) ==
    /\ InUserCode(c) /\ Cardinality(closed) < MaxCloses
    /\ close_registered(fd)
    /\ closed' = closed \cup {fd} /\ ready' = ready \ {fd}

user_end(c) ==
    /\ InUserCode(c)
    /\ context_end
    /\ UNCHANGED <<callVars, timerVars, loopVars, pollVars, envVars>>

UserStep(c) ==
    \/ user_create(c)
    \/ user_yield(c)
    \/ \E d \in Cid : user_resume(c, d)
    \/ \E t \in Delays : user_sleep(c, t)
    \/ \E fd \in Fd : user_wait(c, fd) \/ user_close(c, fd)
    \/ user_woken(c)
    \/ user_end(c)

-----------------------------------------------------------------------------
(* The environment *)

ReadyNow == ready \cap InterestList

BecomeReady(fd) ==
    /\ fault = "none" /\ loop # "returned" /\ fd \notin ready
    /\ fd \in InterestList
    /\ ready' = ready \cup {fd}
    /\ UNCHANGED <<eventVars, closed>>

Thread ==
    \/ LoopStep(ReadyNow) /\ UNCHANGED envVars
    \/ \E c \in Cid : UserStep(c)

Environment ==
    \/ Tick /\ UNCHANGED envVars
    \/ Interrupted(ReadyNow) /\ UNCHANGED envVars
    \/ \E fd \in Fd : BecomeReady(fd)

Next == Thread \/ Environment

Spec == Init /\ [][Next]_loopAll

\* The operating system runs the only thread, and time passes.
FairSpec == Spec /\ WF_loopAll(Thread) /\ WF_loopAll(Tick /\ UNCHANGED envVars)

-----------------------------------------------------------------------------
(* Properties *)

Unhandled == idx .. Len(events)
EventCid(i) == fromuint64(events[i]).id
EventFd(i)  == fromuint64(events[i]).fd

\* The loop, the timers and the program together never fail an assertion,
\* resume nullptr or a deleted coroutine, or re-enter an active one.
NoFault == fault = "none"

\* Wake-ups and blocked coroutines match one to one.  Each sleeping coroutine
\* has its one timer and there are no other timers: no timer outlives its
\* sleep, none is missing.
TimersExact ==
    /\ \A t \in timers : Sleeping(t.co)
    /\ \A c \in Cid : Sleeping(c) => \E t \in timers : t.co = c
    /\ \A t, u \in timers : t.co = u.co => t = u

\* An entry of the interest list carries the word of the one coroutine that
\* waits for that descriptor, and every waiting coroutine has its entry.
RegistrationsExact ==
    /\ \A fd \in InterestList :
          LET w == fromuint64(epoll[fd].data)
          IN  w.fd = fd /\ w.id \in Cid /\ wfd[w.id] = fd
              /\ pc[w.id] = "wait_event" /\ w.id \in coroutines
    /\ \A c \in Cid : Waiting(c) =>
          wfd[c] \in closed \/ (wfd[c] \in InterestList
                                /\ fromuint64(epoll[wfd[c]].data).id = c)

\* The entries of a batch that are still to be handled are intact although
\* wait_event writes its argument into poll->events[0]: each names a
\* coroutine still blocked on the descriptor of the entry, no one twice.
BatchIntact ==
    loop = "io" =>
      /\ \A i \in Unhandled : EventCid(i) \in Cid /\ Waiting(EventCid(i))
                              /\ wfd[EventCid(i)] = EventFd(i)
      /\ \A i, j \in Unhandled : EventCid(i) = EventCid(j) => i = j

\* Poll::event_num counts the interest list and the waits whose descriptor
\* was closed under them, before or after their coroutine went on.
EventNumExact ==
    event_num = Cardinality(InterestList) + Cardinality(closed)

\* When coroutine::run returns, no coroutine is left in sleep or wait_event:
\* what is left can only be waiting for another coroutine.
ReturnedMeansQuiescent ==
    loop = "returned" =>
      /\ running = Main /\ timers = {}
      /\ \A c \in coroutines : state[c] = "suspended" /\ pc[c] = "yield"

\* A sleeper goes on by its own timer, never before its time, and never
\* before a sleeper with an earlier deadline.
WokenOnTime ==
    [][\A c \in Cid : Sleeping(c) /\ ~ Sleeping(c)' =>
          \E t \in timers \ timers' :
             /\ t.co = c /\ t.exec <= now
             /\ \A u \in timers : t.exec <= u.exec]_loopAll

\* Every sleep ends.
SleepersWake == \A c \in Cid : Sleeping(c) ~> ~ Sleeping(c)

\* A coroutine that waits for a descriptor goes on once it is ready, however
\* many descriptors are ready and however small poll->events is.
WaitersWake ==
    \A c \in Cid : (Waiting(c) /\ wfd[c] \in ready) ~> ~ Waiting(c)
=============================================================================
