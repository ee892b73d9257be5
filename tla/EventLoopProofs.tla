--------------------------- MODULE EventLoopProofs ---------------------------
(***************************************************************************)
(* Programs on the event loop, proved for every number of coroutines,      *)
(* descriptors and timers, every size of poll->events and every width of   *)
(* int.                                                                    *)
(*                                                                         *)
(* The inductive invariant LoopInv relates four records of who is blocked: *)
(* the states of the coroutines, the timers, the interest list of the      *)
(* kernel and the batch being handled.  Every step of a program, of the    *)
(* loop and of its environment keeps it.                                   *)
(***************************************************************************)
EXTENDS EventLoop, EventProofs

-----------------------------------------------------------------------------
(* The inductive invariant *)

\* A coroutine inside wait_event is alive and waits for a descriptor; only
\* the one that runs can have been resumed there, since it has work to do
\* before it can give control away; and nobody is suspended in its own code.
ParkedInv ==
    /\ \A c \in Cid : pc[c] = "wait_event" => c \in coroutines /\ wfd[c] \in Fd
    /\ \A c \in Active : pc[c] = "wait_event" => c = running
    /\ \A c \in Suspended : pc[c] # "user"

\* RegistrationsExact, also for the coroutine that was resumed and has not
\* taken its descriptor off the interest list yet.
WaitersInv ==
    /\ \A fd \in InterestList : \E c \in Cid :
          epoll[fd].data = touint64(fd, c) /\ pc[c] = "wait_event" /\ wfd[c] = fd
    /\ \A c \in Cid : pc[c] = "wait_event" =>
          \/ wfd[c] \in closed
          \/ wfd[c] \in InterestList /\ epoll[wfd[c]].data = touint64(wfd[c], c)
    /\ closed \cap InterestList = {}

\* BatchIntact, and why: poll->events[0] is only written when the batch is
\* empty or its first entry has been handled.
BatchInv ==
    /\ loop # "io" => events = << >>
    /\ loop = "io" /\ running # Main => idx > 1
    /\ \A i \in Unhandled : \E c \in Cid : events[i] = touint64(wfd[c], c) /\ Waiting(c)
    /\ \A i, j \in Unhandled : events[i] = events[j] => i = j

\* run_timers works with a clock value that is never ahead of the clock.
ClockInv == tnow <= now

LoopInv ==
    /\ TypeOK /\ SwitchInv /\ NoFault
    /\ ParkedInv /\ TimersExact /\ WaitersInv /\ BatchInv /\ EventNumExact
    /\ ClockInv /\ ReturnedMeansQuiescent

-----------------------------------------------------------------------------
(* Every step is a step of the coroutine library, and keeps the types *)

\* A batch entry to be handled is the word of a coroutine that waits.
LEMMA UnhandledWaits ==
    ASSUME LoopInv, OnMain("io"), idx <= Len(events)
    PROVE  \E c \in Cid : /\ events[idx] = touint64(wfd[c], c) /\ Waiting(c)
                          /\ wfd[c] \in Fd
                          /\ fromuint64(events[idx]).id = c
<1>1. idx \in Unhandled
  BY DEF LoopInv, TypeOK, EventTypeOK, Unhandled
<1>2. PICK c \in Cid : events[idx] = touint64(wfd[c], c) /\ Waiting(c)
  BY <1>1 DEF LoopInv, BatchInv
<1>3. wfd[c] \in Fd
  BY <1>2 DEF LoopInv, ParkedInv, Waiting
<1>4. fromuint64(events[idx]).id = c
  BY <1>2, <1>3, WordNamesItsWaiter
<1> QED
  BY <1>2, <1>3, <1>4

\* What the thread and its environment do to the coroutines is an operation
\* of module Coroutine, one that does not fail, or nothing.
LEMMA CoStep ==
    ASSUME LoopInv, [Next]_loopAll
    PROVE  [CoNext]_coVars /\ fault' = "none"
<1> USE MainIsNoCid DEF LoopInv
<1>c. CoInv /\ fault = "none"
  BY DEF CoInv, TypeOK, EventTypeOK, NoFault
<1>1. ASSUME NEW c \in Cid, running = c, yield
      PROVE  [CoNext]_coVars /\ fault' = "none"
  BY <1>1, <1>c, YieldEffect DEF CoNext
<1>2. ASSUME create PROVE [CoNext]_coVars /\ fault' = "none"
  BY <1>2, <1>c, CreateEffect DEF CoNext
<1>3. ASSUME NEW d \in Cid, NEW byCid \in BOOLEAN, state[d] = "suspended",
             resume(d, byCid)
      PROVE  [CoNext]_coVars /\ fault' = "none"
  BY <1>3, <1>c, ResumeEffect DEF CoNext
<1>4. ASSUME NEW c \in Cid, running = c, context_end
      PROVE  [CoNext]_coVars /\ fault' = "none"
  BY <1>4, <1>c, EndEffect DEF CoNext
<1>5. ASSUME UNCHANGED coVars PROVE [CoNext]_coVars /\ fault' = "none"
  BY <1>5, <1>c DEF coVars
<1>6. CASE LoopStep(ReadyNow)
  <2>1. CASE run
    BY <2>1, <1>2 DEF run
  <2>2. CASE wait_returns \/ epoll_wait \/ epoll_none(ReadyNow)
             \/ run_timers_done
    BY <2>2, <1>5 DEF wait_returns, epoll_wait, epoll_none, run_timers_done, Goto
  <2>3. CASE epoll_events(ReadyNow) \/ handle_timer
    BY <2>3, <1>5 DEF epoll_events, handle_timer
  <2>4. CASE handle_io
    <3>1. PICK c \in Cid : Waiting(c) /\ fromuint64(events[idx]).id = c
      BY <2>4, UnhandledWaits DEF handle_io
    <3> QED
      BY <2>4, <3>1, <1>3 DEF handle_io, Waiting
  <2>5. CASE run_timers
    <3>1. PICK t \in Tops : resume(t.co, FALSE)
      BY <2>5 DEF run_timers
    <3>2. t \in timers /\ t.co \in Cid
      BY DEF Tops, TypeOK, EventTypeOK
    <3> QED
      BY <3>1, <3>2, <1>3 DEF TimersExact, Sleeping
  <2> QED
    BY <1>6, <2>1, <2>2, <2>3, <2>4, <2>5 DEF LoopStep
<1>7. ASSUME NEW c \in Cid, UserStep(c) PROVE [CoNext]_coVars /\ fault' = "none"
  <2>1. CASE user_create(c)
    BY <2>1, <1>2 DEF user_create
  <2>2. CASE user_yield(c)
    BY <2>2, <1>1 DEF user_yield, InUserCode
  <2>3. ASSUME NEW d \in Cid, user_resume(c, d)
        PROVE  [CoNext]_coVars /\ fault' = "none"
    BY <2>3, <1>3 DEF user_resume
  <2>4. ASSUME NEW t \in Delays, user_sleep(c, t)
        PROVE  [CoNext]_coVars /\ fault' = "none"
    BY <2>4, <1>1 DEF user_sleep, sleep, InUserCode
  <2>5. ASSUME NEW fd \in Fd, user_wait(c, fd)
        PROVE  [CoNext]_coVars /\ fault' = "none"
    BY <2>5, <1>1, <1>5 DEF user_wait, wait_event, add_event, InUserCode
  <2>6. ASSUME NEW fd \in Fd, user_close(c, fd)
        PROVE  [CoNext]_coVars /\ fault' = "none"
    BY <2>6, <1>5 DEF user_close, close_registered
  <2>7. CASE user_woken(c)
    BY <2>7, <1>5 DEF user_woken, wait_event_woken
  <2>8. CASE user_end(c)
    BY <2>8, <1>4 DEF user_end, InUserCode
  <2> QED
    BY <1>7, <2>1, <2>2, <2>3, <2>4, <2>5, <2>6, <2>7, <2>8 DEF UserStep
<1>8. CASE Environment
  <2>1. CASE Tick
    BY <2>1, <1>5 DEF Tick
  <2>2. CASE Interrupted(ReadyNow)
    BY <2>2, <1>5 DEF Interrupted, epoll_none, Goto
  <2>3. ASSUME NEW fd \in Fd, BecomeReady(fd)
        PROVE  [CoNext]_coVars /\ fault' = "none"
    BY <2>3, <1>5 DEF BecomeReady, eventVars
  <2> QED
    BY <1>8, <2>1, <2>2, <2>3 DEF Environment
<1>9. CASE UNCHANGED loopAll
  BY <1>9, <1>5 DEF loopAll, eventVars
<1> QED
  BY <1>6, <1>7, <1>8, <1>9 DEF Next, Thread

\* The interest list and the closed descriptors are finite.
LEMMA FiniteLists ==
    ASSUME TypeOK
    PROVE  /\ InterestList \subseteq Fd /\ closed \subseteq Fd
           /\ IsFiniteSet(InterestList) /\ IsFiniteSet(closed)
           /\ Cardinality(InterestList) \in Nat /\ Cardinality(closed) \in Nat
<1>1. InterestList \subseteq Fd /\ closed \subseteq Fd
  BY DEF InterestList, TypeOK
<1>2. IsFiniteSet(InterestList) /\ IsFiniteSet(closed)
  BY <1>1, EventConstants, FS_Subset
<1> QED
  BY <1>1, <1>2, FS_CardinalityType

\* Every step keeps the types.
LEMMA LoopTypeStep == ASSUME LoopInv, [Next]_loopAll PROVE TypeOK'
<1> USE MainIsNoCid, EventConstants DEF PartsOK
<1>t. TypeOK /\ EventTypeOK
  BY DEF LoopInv, TypeOK
<1>c. CoTypeOK'
  BY CoStep, TypeStep, <1>t DEF EventTypeOK
<1> DEFINE PcT  == pc \in [Cid -> {"user", "yield", "sleep", "wait_event"}]
           EnvT == ready \subseteq Fd /\ closed \subseteq Fd
<1>s. SUFFICES PartsOK' /\ PcT' /\ EnvT'
  BY <1>c, TypeParts DEF TypeOK
<1>a. PartsOK /\ PcT /\ EnvT
  BY <1>t, TypeParts DEF TypeOK
<1>en. UNCHANGED envVars => EnvT'
  BY <1>a DEF envVars
<1>pc. /\ UNCHANGED pc \/ UNCHANGED callVars => PcT'
       /\ \A c \in Cid, w \in {"user", "yield", "sleep", "wait_event"} :
             pc' = [pc EXCEPT ![c] = w] => PcT'
  BY <1>a DEF callVars
<1> HIDE DEF PcT, EnvT
<1>sc. ASSUME NEW c \in Cid, NEW fd \in Fd, Scratch(Word(c, fd)) PROVE EventsTypeOK'
  BY <1>sc, <1>a, WordOfWaiter, ScratchType DEF EventsTypeOK
<1>1. ASSUME LoopStep(ReadyNow) \/ Interrupted(ReadyNow), UNCHANGED envVars
      PROVE  PartsOK' /\ PcT' /\ EnvT'
  <2>1. PartsOK'
    BY <1>1, <1>t, LoopStepTypes DEF ReadyNow
  <2>2. UNCHANGED callVars
    BY <1>1 DEF LoopStep, Interrupted, run, wait_returns, epoll_wait, epoll_events,
                epoll_none, handle_io, handle_timer, run_timers, run_timers_done, Goto
  <2> QED
    BY <1>1, <2>1, <2>2, <1>en, <1>pc
<1>2. ASSUME NEW c \in Cid, UserStep(c) PROVE PartsOK' /\ PcT' /\ EnvT'
  <2>1. CASE user_create(c) \/ user_end(c) \/ \E d \in Cid : user_resume(c, d)
    BY <2>1, <1>a, TypeFrames, <1>en, <1>pc
       DEF user_create, user_end, user_resume, timerVars, pollVars
  <2>2. CASE user_yield(c)
    BY <2>2, <1>a, TypeFrames, CountedType, <1>en, <1>pc
       DEF user_yield, Park, timerVars, pollVars
  <2>3. ASSUME NEW t \in Delays, user_sleep(c, t) PROVE PartsOK' /\ PcT' /\ EnvT'
    BY <2>3, <1>a, TypeFrames, CountedType, <1>en, <1>pc
       DEF user_sleep, sleep, Park, pollVars
  <2>4. ASSUME NEW fd \in Fd, user_wait(c, fd) PROVE PartsOK' /\ PcT' /\ EnvT'
    <3>1. CASE wait_event(c, fd, "IN")
      <4>1. CallsTypeOK'
        BY <2>4, <3>1, <1>a, CountedType DEF user_wait, wait_event, add_event, CallsTypeOK
      <4>2. PollTypeOK'
        BY <3>1, <1>a, WordOfWaiter DEF wait_event, add_event, PollTypeOK
      <4> QED
        BY <2>4, <3>1, <4>1, <4>2, <1>a, <1>sc, <1>en, <1>pc, TypeFrames
           DEF user_wait, wait_event, add_event, timerVars
    <3>2. CASE wait_event_exists(c, fd) /\ UNCHANGED <<coVars, pc, wfd, timerVars, loopVars>>
      BY <2>4, <3>2, <1>a, <1>sc, <1>en, <1>pc, TypeFrames, CountedType
         DEF user_wait, wait_event_exists, timerVars
    <3> QED
      BY <2>4, <3>1, <3>2 DEF user_wait
  <2>5. ASSUME NEW fd \in Fd, user_close(c, fd) PROVE PartsOK' /\ PcT' /\ EnvT'
    <3>1. PollTypeOK'
      BY <2>5, <1>a, IntBoundIsPositive
         DEF user_close, close_registered, PollTypeOK, NoReg, U64, UInt32
    <3>2. EnvT'
      BY <2>5, <1>a DEF user_close, EnvT
    <3> QED
      BY <2>5, <3>1, <3>2, <1>a, <1>pc, TypeFrames DEF user_close, close_registered, timerVars
  <2>6. CASE user_woken(c)
    <3>1. CallsTypeOK'
      BY <2>6, <1>a DEF user_woken, wait_event_woken, CallsTypeOK
    <3>2. EnvT'
      BY <2>6, <1>a DEF user_woken, EnvT
    <3>3. PollTypeOK'
      <4>1. CASE DelFails(c)
        BY <2>6, <4>1, <1>a, TypeFrames DEF user_woken, wait_event_woken
      <4>2. CASE ~ DelFails(c)
        <5>1. wfd[c] \in Fd /\ wfd[c] \in InterestList
          BY <2>6, <4>2 DEF user_woken, LoopInv, ParkedInv, DelFails, InterestList
        <5>2. event_num - 1 \in Nat
          <6>1. Cardinality(InterestList) \in Nat \ {0} /\ Cardinality(closed) \in Nat
            BY <5>1, <1>t, FiniteLists, FS_EmptySet
          <6> QED
            BY <6>1 DEF LoopInv, EventNumExact
        <5> QED
          BY <2>6, <4>2, <5>1, <5>2, <1>a, IntBoundIsPositive
             DEF user_woken, wait_event_woken, PollTypeOK, NoReg, U64, UInt32
      <4> QED
        BY <4>1, <4>2
    <3> QED
      BY <2>6, <3>1, <3>2, <3>3, <1>a, <1>pc, TypeFrames
         DEF user_woken, wait_event_woken, timerVars
  <2> QED
    BY <1>2, <2>1, <2>2, <2>3, <2>4, <2>5, <2>6 DEF UserStep
<1>3. CASE Tick /\ UNCHANGED envVars
  <2>1. LoopTypeOK'
    BY <1>3, <1>a DEF Tick, LoopTypeOK, loopVars, Time
  <2> QED
    BY <1>3, <2>1, <1>a, <1>en, <1>pc, TypeFrames DEF Tick, pollVars
<1>4. ASSUME NEW fd \in Fd, BecomeReady(fd) PROVE PartsOK' /\ PcT' /\ EnvT'
  <2>1. EnvT'
    BY <1>4, <1>a DEF BecomeReady, EnvT
  <2> QED
    BY <1>4, <2>1, <1>a, <1>pc, TypeFrames DEF BecomeReady, eventVars, timerVars, pollVars
<1>5. CASE UNCHANGED loopAll
  BY <1>5, <1>a, <1>en, <1>pc, TypeFrames DEF loopAll, eventVars, timerVars, pollVars, envVars
<1> QED
  BY <1>1, <1>2, <1>3, <1>4, <1>5 DEF Next, Thread, Environment

-----------------------------------------------------------------------------
(* Every step keeps the four records of the blocked coroutines together *)

\* What is left of LoopInv besides the types and the switches.
BlockedInv ==
    /\ ParkedInv /\ TimersExact /\ WaitersInv /\ BatchInv /\ EventNumExact
    /\ ClockInv /\ ReturnedMeansQuiescent

\* A step that leaves a record's variables alone keeps it.
LEMMA Frames ==
    ASSUME BlockedInv
    PROVE  /\ UNCHANGED <<state, pc, wfd, running>> => ParkedInv'
           /\ UNCHANGED <<state, pc, timers>> => TimersExact'
           /\ UNCHANGED <<pc, wfd, epoll, closed>> => WaitersInv'
           /\ UNCHANGED <<state, pc, wfd, running, loop, events, idx>> => BatchInv'
           /\ UNCHANGED <<epoll, event_num, closed>> => EventNumExact'
           /\ UNCHANGED <<now, tnow>> => ClockInv'
<1>1. UNCHANGED <<state, pc, wfd, running>> => ParkedInv'
  BY DEF BlockedInv, ParkedInv, coroutines, Active, Suspended
<1>2. UNCHANGED <<state, pc, timers>> => TimersExact'
  BY DEF BlockedInv, TimersExact, Sleeping
<1>3. UNCHANGED <<pc, wfd, epoll, closed>> => WaitersInv'
  BY DEF BlockedInv, WaitersInv, InterestList
<1>4. UNCHANGED <<state, pc, wfd, running, loop, events, idx>> => BatchInv'
  BY DEF BlockedInv, BatchInv, Waiting, Unhandled
<1>5. UNCHANGED <<epoll, event_num, closed>> => EventNumExact'
  BY DEF BlockedInv, EventNumExact, InterestList
<1>6. UNCHANGED <<now, tnow>> => ClockInv'
  BY DEF BlockedInv, ClockInv
<1> QED
  BY <1>1, <1>2, <1>3, <1>4, <1>5, <1>6

\* The program runs only inside coroutine::run.
LEMMA UserCodeInsideRun ==
    ASSUME BlockedInv, UNCHANGED loop, running # Main
    PROVE  loop # "returned" /\ ReturnedMeansQuiescent'
BY DEF BlockedInv, ReturnedMeansQuiescent

\* Create, and the resume of a coroutine that was not parked in the loop.
LEMMA EnterStep ==
    ASSUME LoopInv, NEW d \in Cid, state[d] # "active",
           pc[d] \notin {"sleep", "wait_event"} \/ state[d] = "none",
           state' = [state EXCEPT ![d] = "active"], running' = d,
           \A c \in Active : pc[c] # "wait_event",
           loop = "io" => running # Main,
           UNCHANGED <<callVars, timerVars, tnow, idx, pollVars, envVars>>,
           UNCHANGED loop \/ (loop = "start" /\ loop' = "check")
    PROVE  ParkedInv' /\ TimersExact' /\ WaitersInv' /\ BatchInv'
<1> USE MainIsNoCid
<1>u. UNCHANGED <<pc, wfd, timers, epoll, closed, events, idx>> /\ state \in [Cid -> {"none", "active", "suspended", "ended"}]
  BY DEF callVars, timerVars, pollVars, envVars, LoopInv, TypeOK, EventTypeOK, CoTypeOK, SwitchTypeOK
<1>b. BlockedInv
  BY DEF LoopInv, BlockedInv
<1>1. /\ state'[d] = "active" /\ \A c \in Cid : c # d => state'[c] = state[c]
  BY <1>u
<1>2. pc[d] # "wait_event" /\ (state[d] = "suspended" => pc[d] # "sleep")
  BY DEF LoopInv, ParkedInv, coroutines
<1>3. ParkedInv'
  BY <1>u, <1>1, <1>2 DEF LoopInv, ParkedInv, coroutines, Active, Suspended
<1>4. \A c \in Cid : /\ Sleeping(c)' <=> Sleeping(c)
                     /\ Waiting(c)' <=> Waiting(c)
  BY <1>u, <1>1, <1>2 DEF Sleeping, Waiting
<1>5. TimersExact'
  <2>1. \A t \in timers : t.co \in Cid
    BY DEF LoopInv, TypeOK, EventTypeOK
  <2> QED
    BY <1>u, <1>4, <2>1 DEF LoopInv, TimersExact
<1>6. WaitersInv'
  BY <1>b, <1>u, Frames
<1>7. BatchInv'
  BY <1>u, <1>4 DEF LoopInv, BatchInv, Unhandled
<1> QED
  BY <1>3, <1>5, <1>6, <1>7

\* Facts of the state in which a coroutine executes its own code.
LEMMA InOwnCode ==
    ASSUME LoopInv, NEW c \in Cid, InUserCode(c)
    PROVE  /\ BlockedInv /\ CoInv /\ running = c /\ running # Main
           /\ state[c] = "active" /\ pc[c] # "wait_event"
           /\ \A d \in Active : pc[d] # "wait_event"
           /\ state \in [Cid -> {"none", "active", "suspended", "ended"}]
           /\ pc \in [Cid -> {"user", "yield", "sleep", "wait_event"}]
           /\ wfd \in [Cid -> Fd \cup {-1}]
           /\ \A t \in timers : t.co \in Cid
<1>1. CoInv /\ BlockedInv
  BY DEF LoopInv, CoInv, BlockedInv, TypeOK, EventTypeOK
<1>2. running = c /\ c # Main /\ state[c] = "active" /\ pc[c] # "wait_event"
  BY MainIsNoCid DEF InUserCode, LoopInv, SwitchInv, CurrentIsRunning
<1>3. \A d \in Active : pc[d] # "wait_event"
  BY <1>2 DEF LoopInv, ParkedInv
<1> QED
  BY <1>1, <1>2, <1>3 DEF LoopInv, TypeOK, EventTypeOK, CoTypeOK, SwitchTypeOK

LEMMA CreateStep ==
    ASSUME LoopInv, NEW c \in Cid, user_create(c) PROVE BlockedInv'
<1>1. InUserCode(c) /\ create /\
      UNCHANGED <<callVars, timerVars, loopVars, pollVars, envVars>>
  BY DEF user_create
<1>2. ParkedInv' /\ TimersExact' /\ WaitersInv' /\ BatchInv'
  BY <1>1, InOwnCode, CreateEffect, EnterStep DEF loopVars
<1>3. EventNumExact' /\ ClockInv' /\ ReturnedMeansQuiescent'
  BY <1>1, InOwnCode, Frames, UserCodeInsideRun DEF timerVars, loopVars, pollVars, envVars
<1> QED
  BY <1>2, <1>3 DEF BlockedInv

LEMMA ResumeStep ==
    ASSUME LoopInv, NEW c \in Cid, NEW d \in Cid, user_resume(c, d) PROVE BlockedInv'
<1>1. /\ InUserCode(c) /\ state[d] = "suspended" /\ pc[d] = "yield" /\ resume(d, TRUE)
      /\ UNCHANGED <<callVars, timerVars, loopVars, pollVars, envVars>>
  BY DEF user_resume
<1>2. ParkedInv' /\ TimersExact' /\ WaitersInv' /\ BatchInv'
  BY <1>1, InOwnCode, ResumeEffect, EnterStep DEF loopVars
<1>3. EventNumExact' /\ ClockInv' /\ ReturnedMeansQuiescent'
  BY <1>1, InOwnCode, Frames, UserCodeInsideRun DEF timerVars, loopVars, pollVars, envVars
<1> QED
  BY <1>2, <1>3 DEF BlockedInv

\* The running coroutine stops, suspended elsewhere than in the loop or ended.
LEMMA StopStep ==
    ASSUME LoopInv, NEW c \in Cid, InUserCode(c), NEW s \in {"suspended", "ended"},
           NEW w \in {"user", "yield", "sleep"},
           state' = [state EXCEPT ![c] = s], pc' = [pc EXCEPT ![c] = w],
           s = "suspended" => w = "yield",
           UNCHANGED <<wfd, timerVars, loopVars, pollVars, envVars>>
    PROVE  BlockedInv'
<1>o. /\ BlockedInv /\ running = c /\ running # Main
      /\ state[c] = "active" /\ pc[c] # "wait_event"
      /\ \A d \in Active : pc[d] # "wait_event"
      /\ state \in [Cid -> {"none", "active", "suspended", "ended"}]
      /\ pc \in [Cid -> {"user", "yield", "sleep", "wait_event"}]
      /\ \A t \in timers : t.co \in Cid
  BY InOwnCode
<1>u. UNCHANGED <<wfd, now, timers, loop, tnow, idx, epoll, events, event_num, closed>>
  BY DEF timerVars, loopVars, pollVars, envVars
<1>1. /\ state'[c] = s /\ pc'[c] = w
      /\ \A d \in Cid : d # c => state'[d] = state[d] /\ pc'[d] = pc[d]
  BY <1>o
<1>2. ParkedInv'
  BY <1>o, <1>u, <1>1 DEF BlockedInv, ParkedInv, coroutines, Active, Suspended
<1>3. \A d \in Cid : (Sleeping(d)' <=> Sleeping(d)) /\ (Waiting(d)' <=> Waiting(d))
  BY <1>o, <1>1 DEF Sleeping, Waiting
<1>4. TimersExact'
  BY <1>o, <1>u, <1>3 DEF BlockedInv, TimersExact
<1>5. \A d \in Cid : pc'[d] = "wait_event" <=> pc[d] = "wait_event"
  BY <1>o, <1>1
<1>6. WaitersInv'
  BY <1>o, <1>u, <1>5 DEF BlockedInv, WaitersInv, InterestList
<1>7. BatchInv'
  BY <1>o, <1>u, <1>3 DEF BlockedInv, BatchInv, Unhandled
<1>8. EventNumExact' /\ ClockInv' /\ ReturnedMeansQuiescent'
  BY <1>o, <1>u, Frames, UserCodeInsideRun
<1> QED
  BY <1>2, <1>4, <1>6, <1>7, <1>8 DEF BlockedInv

LEMMA YieldStep ==
    ASSUME LoopInv, NEW c \in Cid, user_yield(c) PROVE BlockedInv'
BY InOwnCode, YieldEffect, StopStep DEF user_yield, Park

LEMMA EndStep ==
    ASSUME LoopInv, NEW c \in Cid, user_end(c) PROVE BlockedInv'
<1>1. InUserCode(c) /\ pc[c] \in {"user", "yield", "sleep"} /\ pc = [pc EXCEPT ![c] = pc[c]]
  BY InOwnCode DEF user_end
<1>2. state' = [state EXCEPT ![c] = "ended"] /\ pc' = pc
      /\ UNCHANGED <<wfd, timerVars, loopVars, pollVars, envVars>>
  BY <1>1, InOwnCode, EndEffect DEF user_end, callVars
<1> QED
  BY <1>1, <1>2, StopStep

\* sleep: one timer more, for the one coroutine that sleeps now.
LEMMA SleepStep ==
    ASSUME LoopInv, NEW c \in Cid, NEW timeout \in Delays, user_sleep(c, timeout)
    PROVE  BlockedInv'
<1>o. /\ BlockedInv /\ CoInv /\ running = c /\ running # Main
      /\ state[c] = "active" /\ pc[c] # "wait_event"
      /\ \A d \in Active : pc[d] # "wait_event"
      /\ state \in [Cid -> {"none", "active", "suspended", "ended"}]
      /\ pc \in [Cid -> {"user", "yield", "sleep", "wait_event"}]
      /\ \A t \in timers : t.co \in Cid
  BY InOwnCode DEF user_sleep
<1> DEFINE new == [exec |-> now + timeout, co |-> c, call |-> calls[c] + 1]
<1>u. /\ UNCHANGED <<wfd, now, loop, tnow, idx, epoll, events, event_num, closed>>
      /\ timers' = timers \cup {new}
  BY DEF user_sleep, sleep, add_timer, loopVars, pollVars, envVars
<1>n. new.co = c
  OBVIOUS
<1> HIDE DEF new
<1>1. /\ state'[c] = "suspended" /\ pc'[c] = "sleep"
      /\ \A d \in Cid : d # c => state'[d] = state[d] /\ pc'[d] = pc[d]
  BY <1>o, YieldEffect DEF user_sleep, sleep, Park
<1>2. ParkedInv'
  BY <1>o, <1>u, <1>1 DEF BlockedInv, ParkedInv, coroutines, Active, Suspended
<1>3. /\ Sleeping(c)' /\ ~ Sleeping(c) /\ \A d \in Cid : d # c => (Sleeping(d)' <=> Sleeping(d))
      /\ \A d \in Cid : Waiting(d)' <=> Waiting(d)
  BY <1>o, <1>1 DEF Sleeping, Waiting
<1>4. TimersExact'
  <2>1. \A t \in timers : t.co # c
    BY <1>3 DEF LoopInv, TimersExact
  <2> QED
    BY <1>o, <1>u, <1>n, <1>3, <2>1 DEF BlockedInv, TimersExact
<1>5. \A d \in Cid : pc'[d] = "wait_event" <=> pc[d] = "wait_event"
  BY <1>o, <1>1
<1>6. WaitersInv'
  BY <1>o, <1>u, <1>5 DEF BlockedInv, WaitersInv, InterestList
<1>7. BatchInv'
  BY <1>o, <1>u, <1>3 DEF BlockedInv, BatchInv, Unhandled
<1>8. EventNumExact' /\ ClockInv' /\ ReturnedMeansQuiescent'
  BY <1>o, <1>u, Frames, UserCodeInsideRun
<1> QED
  BY <1>2, <1>4, <1>6, <1>7, <1>8 DEF BlockedInv

\* Building the argument of epoll_ctl in poll->events[0] does not touch the
\* entries that are still to be handled.
LEMMA ScratchKeepsBatch ==
    ASSUME LoopInv, running # Main, NEW w \in U64, Scratch(w), UNCHANGED <<loop, idx>>
    PROVE  /\ Unhandled' = Unhandled
           /\ \A i \in Unhandled : events'[i] = events[i]
           /\ loop # "io" => events' = << >>
<1>t. events \in Seq(U64) /\ idx \in Nat \ {0} /\ Len(events) \in Nat
  BY EventConstants DEF LoopInv, TypeOK, EventTypeOK
<1>1. Len(events') = Len(events)
  BY <1>t, ScratchType
<1>2. Unhandled' = Unhandled
  BY <1>1 DEF Unhandled
<1>3. CASE events = << >>
  BY <1>2, <1>3 DEF Scratch, Unhandled
<1>4. CASE events # << >>
  <2>1. loop = "io" /\ idx > 1
    BY <1>4 DEF LoopInv, BatchInv
  <2>2. events' = [events EXCEPT ![1] = w]
    BY <1>4 DEF Scratch
  <2>3. \A i \in Unhandled : i # 1 /\ i \in 1 .. Len(events)
    BY <2>1, <1>t DEF Unhandled
  <2> QED
    BY <1>t, <1>2, <2>1, <2>2, <2>3
<1> QED
  BY <1>3, <1>4

\* wait_event: one registration more, for the one coroutine that waits now.
LEMMA WaitStep ==
    ASSUME LoopInv, NEW c \in Cid, NEW fd \in Fd, user_wait(c, fd),
           wait_event(c, fd, "IN")
    PROVE  BlockedInv'
<1>o. /\ BlockedInv /\ CoInv /\ running = c /\ running # Main
      /\ state[c] = "active" /\ pc[c] # "wait_event"
      /\ \A d \in Active : pc[d] # "wait_event"
      /\ state \in [Cid -> {"none", "active", "suspended", "ended"}]
      /\ pc \in [Cid -> {"user", "yield", "sleep", "wait_event"}]
      /\ wfd \in [Cid -> Fd \cup {-1}]
      /\ \A t \in timers : t.co \in Cid
  BY InOwnCode DEF user_wait
<1>t. epoll \in [Fd -> [ev : {"IN", "OUT", "NULL"}, data : U64]]
  BY DEF LoopInv, TypeOK, EventTypeOK
<1>u. /\ UNCHANGED <<now, timers, loop, tnow, idx, closed>>
      /\ fd \notin closed /\ epoll[fd] = NoReg
  BY DEF user_wait, wait_event, add_event, timerVars, loopVars, envVars
<1>1. /\ state'[c] = "suspended" /\ pc'[c] = "wait_event" /\ wfd'[c] = fd
      /\ \A d \in Cid : d # c => /\ state'[d] = state[d] /\ pc'[d] = pc[d]
                                 /\ wfd'[d] = wfd[d]
  BY <1>o, YieldEffect DEF wait_event, add_event
<1>2. ParkedInv'
  BY <1>o, <1>u, <1>1 DEF BlockedInv, ParkedInv, coroutines, Active, Suspended
<1>3. /\ ~ Waiting(c) /\ \A d \in Cid : d # c => (Waiting(d)' <=> Waiting(d))
      /\ \A d \in Cid : Sleeping(d)' <=> Sleeping(d)
  BY <1>o, <1>1 DEF Sleeping, Waiting
<1>4. TimersExact'
  BY <1>o, <1>u, <1>3 DEF BlockedInv, TimersExact
<1>5. /\ epoll'[fd].data = touint64(fd, c) /\ epoll'[fd] # NoReg
      /\ \A f \in Fd : f # fd => epoll'[f] = epoll[f]
  BY <1>t, WordOfWaiter DEF wait_event, add_event, NoReg
<1>6. InterestList' = InterestList \cup {fd} /\ fd \notin InterestList
  BY <1>u, <1>5 DEF InterestList
<1>7. WaitersInv'
  <2>1. ASSUME NEW f \in InterestList'
        PROVE  \E d \in Cid : /\ epoll'[f].data = touint64(f, d)
                              /\ pc'[d] = "wait_event" /\ wfd'[d] = f
    <3>1. CASE f = fd
      BY <3>1, <1>1, <1>5
    <3>2. CASE f # fd
      <4>1. f \in InterestList /\ f \in Fd
        BY <3>2, <1>6 DEF InterestList
      <4>2. PICK d \in Cid : /\ epoll[f].data = touint64(f, d)
                             /\ pc[d] = "wait_event" /\ wfd[d] = f
        BY <4>1 DEF LoopInv, WaitersInv
      <4> QED
        BY <3>2, <4>1, <4>2, <1>o, <1>1, <1>5
    <3> QED
      BY <3>1, <3>2
  <2>2. ASSUME NEW d \in Cid, pc'[d] = "wait_event"
        PROVE  \/ wfd'[d] \in closed'
               \/ /\ wfd'[d] \in InterestList'
                  /\ epoll'[wfd'[d]].data = touint64(wfd'[d], d)
    <3>1. CASE d = c
      BY <3>1, <1>1, <1>5, <1>6
    <3>2. CASE d # c
      <4>1. \/ wfd[d] \in closed
            \/ wfd[d] \in InterestList /\ epoll[wfd[d]].data = touint64(wfd[d], d)
        BY <2>2, <3>2, <1>1 DEF LoopInv, WaitersInv
      <4> QED
        BY <3>2, <4>1, <1>1, <1>5, <1>6, <1>u DEF InterestList
    <3> QED
      BY <3>1, <3>2
  <2>3. closed' \cap InterestList' = {}
    BY <1>u, <1>6 DEF LoopInv, WaitersInv
  <2> QED
    BY <2>1, <2>2, <2>3 DEF WaitersInv
<1>8. BatchInv'
  <2>1. /\ Unhandled' = Unhandled /\ \A i \in Unhandled : events'[i] = events[i]
        /\ loop # "io" => events' = << >>
    BY <1>o, <1>u, ScratchKeepsBatch, WordOfWaiter DEF wait_event, add_event
  <2>2. \A i \in Unhandled : \E d \in Cid : events'[i] = touint64(wfd'[d], d) /\ Waiting(d)'
    BY <2>1, <1>1, <1>3 DEF LoopInv, BatchInv
  <2> QED
    BY <2>1, <2>2, <1>o, <1>u DEF BlockedInv, BatchInv
<1>9. EventNumExact'
  <2>1. /\ Cardinality(InterestList') = Cardinality(InterestList) + 1
        /\ Cardinality(InterestList) \in Nat /\ Cardinality(closed) \in Nat
    BY <1>6, FiniteLists, FS_AddElement DEF LoopInv
  <2> QED
    BY <2>1, <1>u DEF LoopInv, EventNumExact, wait_event
<1>10. ClockInv' /\ ReturnedMeansQuiescent'
  BY <1>o, <1>u, Frames, UserCodeInsideRun
<1> QED
  BY <1>2, <1>4, <1>7, <1>8, <1>9, <1>10 DEF BlockedInv

\* wait_event refused with EEXIST: only poll->events[0] is written.
LEMMA ExistsStep ==
    ASSUME LoopInv, NEW c \in Cid, NEW fd \in Fd, user_wait(c, fd),
           wait_event_exists(c, fd), UNCHANGED <<coVars, pc, wfd, timerVars, loopVars>>
    PROVE  BlockedInv'
<1>u. UNCHANGED <<state, running, pc, wfd, now, timers, loop, tnow, idx, epoll, event_num, closed>>
  BY DEF user_wait, wait_event_exists, coVars, switchVars, timerVars, loopVars, envVars
<1>o. BlockedInv /\ running # Main
  BY InOwnCode DEF user_wait
<1>1. BatchInv'
  <2>1. /\ Unhandled' = Unhandled /\ \A i \in Unhandled : events'[i] = events[i]
        /\ loop # "io" => events' = << >>
    BY <1>o, <1>u, ScratchKeepsBatch, WordOfWaiter DEF wait_event_exists
  <2> QED
    BY <2>1, <1>o, <1>u DEF BlockedInv, BatchInv, Waiting
<1>2. ParkedInv' /\ TimersExact' /\ WaitersInv' /\ EventNumExact' /\ ClockInv'
      /\ ReturnedMeansQuiescent'
  BY <1>o, <1>u, Frames, UserCodeInsideRun
<1> QED
  BY <1>1, <1>2 DEF BlockedInv

\* wait_event goes on: its own registration leaves the interest list, unless
\* the kernel has dropped it already.
LEMMA WokenStep ==
    ASSUME LoopInv, NEW c \in Cid, user_woken(c) PROVE BlockedInv'
<1>o. /\ BlockedInv /\ running = c /\ running # Main /\ state[c] = "active"
      /\ pc[c] = "wait_event" /\ wfd[c] \in Fd
  BY MainIsNoCid DEF user_woken, LoopInv, BlockedInv, SwitchInv, CurrentIsRunning, ParkedInv
<1>t. /\ epoll \in [Fd -> [ev : {"IN", "OUT", "NULL"}, data : U64]]
      /\ pc \in [Cid -> {"user", "yield", "sleep", "wait_event"}]
      /\ wfd \in [Cid -> Fd \cup {-1}] /\ event_num \in Nat
      /\ \A t \in timers : t.co \in Cid
  BY DEF LoopInv, TypeOK, EventTypeOK
<1>u. UNCHANGED <<state, running, now, timers, loop, tnow, idx, events, closed>>
  BY DEF user_woken, wait_event_woken, coVars, switchVars, timerVars, loopVars
<1>1. /\ pc'[c] = "user" /\ \A d \in Cid : d # c => pc'[d] = pc[d] /\ wfd'[d] = wfd[d]
  BY <1>t DEF user_woken, wait_event_woken
<1>2. ParkedInv'
  BY <1>o, <1>u, <1>1 DEF BlockedInv, ParkedInv, coroutines, Active, Suspended
<1>3. \A d \in Cid : (Sleeping(d)' <=> Sleeping(d)) /\ (Waiting(d)' <=> Waiting(d) /\ d # c)
                     /\ ~ Waiting(c)
  BY <1>o, <1>u, <1>1 DEF Sleeping, Waiting
<1>4. TimersExact'
  BY <1>t, <1>u, <1>3 DEF LoopInv, TimersExact
<1>5. BatchInv'
  BY <1>u, <1>1, <1>3 DEF LoopInv, BatchInv, Unhandled
<1>6. ClockInv' /\ ReturnedMeansQuiescent'
  BY <1>o, <1>u, Frames, UserCodeInsideRun
<1>7. \A fd \in InterestList, d \in Cid :
          epoll[fd].data = touint64(fd, d) /\ wfd[d] = fd /\ d # c => fd # wfd[c]
  <2> SUFFICES ASSUME NEW d \in Cid, wfd[c] \in InterestList, wfd[d] = wfd[c],
                      epoll[wfd[c]].data = touint64(wfd[c], d)
               PROVE  d = c
    OBVIOUS
  <2>1. epoll[wfd[c]].data = touint64(wfd[c], c)
    BY <1>o DEF LoopInv, WaitersInv
  <2>2. touint64(wfd[c], c) = touint64(wfd[c], d) /\ wfd[c] \in Fd
    BY <2>1, <1>o
  <2> QED
    BY <2>2, WordsDiffer, Zenon
<1>8. CASE DelFails(c)
  <2>1. UNCHANGED <<epoll, event_num>> /\ wfd[c] \notin InterestList
    BY <1>8 DEF user_woken, wait_event_woken, DelFails, InterestList
  <2>2. InterestList' = InterestList
    BY <2>1 DEF InterestList
  <2>3. WaitersInv'
    BY <1>o, <1>u, <1>1, <2>1, <2>2 DEF BlockedInv, WaitersInv
  <2>4. EventNumExact'
    BY <1>o, <1>u, <2>1, Frames
  <2> QED
    BY <1>2, <1>4, <1>5, <1>6, <2>3, <2>4 DEF BlockedInv
<1>9. CASE ~ DelFails(c)
  <2>1. /\ epoll'[wfd[c]] = NoReg /\ event_num' = event_num - 1
        /\ \A f \in Fd : f # wfd[c] => epoll'[f] = epoll[f]
        /\ wfd[c] \in InterestList
    BY <1>o, <1>t, <1>9 DEF user_woken, wait_event_woken, DelFails, InterestList
  <2>2. InterestList' = InterestList \ {wfd[c]} /\ InterestList \subseteq Fd
    BY <2>1, <1>o DEF InterestList
  <2>3. WaitersInv'
    <3>1. \A f \in InterestList' : \E d \in Cid :
             epoll'[f].data = touint64(f, d) /\ pc'[d] = "wait_event" /\ wfd'[d] = f
      BY <2>1, <2>2, <1>1 DEF LoopInv, WaitersInv
    <3>2. ASSUME NEW d \in Cid, pc'[d] = "wait_event"
          PROVE  \/ wfd'[d] \in closed'
                 \/ /\ wfd'[d] \in InterestList'
                    /\ epoll'[wfd'[d]].data = touint64(wfd'[d], d)
      <4>1. d # c /\ pc[d] = "wait_event" /\ wfd'[d] = wfd[d]
        BY <3>2, <1>1
      <4>2. \/ wfd[d] \in closed
            \/ wfd[d] \in InterestList /\ epoll[wfd[d]].data = touint64(wfd[d], d)
        BY <4>1 DEF LoopInv, WaitersInv
      <4> QED
        BY <4>1, <4>2, <2>1, <2>2, <1>7, <1>u
    <3>3. closed' \cap InterestList' = {}
      BY <2>2, <1>u DEF LoopInv, WaitersInv
    <3> QED
      BY <3>1, <3>2, <3>3 DEF WaitersInv
  <2>4. EventNumExact'
    <3>1. /\ Cardinality(InterestList') = Cardinality(InterestList) - 1
          /\ Cardinality(InterestList) \in Nat /\ Cardinality(closed) \in Nat
      BY <2>1, <2>2, FiniteLists, FS_RemoveElement DEF LoopInv
    <3> QED
      BY <2>1, <3>1, <1>u, <1>t DEF LoopInv, EventNumExact
  <2> QED
    BY <1>2, <1>4, <1>5, <1>6, <2>3, <2>4 DEF BlockedInv
<1> QED
  BY <1>8, <1>9

\* close: the registration moves from the interest list to the closed ones,
\* and event_num counts it as before.
LEMMA CloseStep ==
    ASSUME LoopInv, NEW c \in Cid, NEW fd \in Fd, user_close(c, fd) PROVE BlockedInv'
<1>o. BlockedInv /\ running # Main
  BY InOwnCode DEF user_close
<1>t. epoll \in [Fd -> [ev : {"IN", "OUT", "NULL"}, data : U64]]
  BY DEF LoopInv, TypeOK, EventTypeOK
<1>u. /\ UNCHANGED <<state, running, pc, wfd, now, timers, loop, tnow, idx, events, event_num>>
      /\ closed' = closed \cup {fd}
  BY DEF user_close, close_registered, coVars, switchVars, callVars, timerVars, loopVars
<1>1. /\ epoll[fd] # NoReg /\ epoll'[fd] = NoReg
      /\ \A f \in Fd : f # fd => epoll'[f] = epoll[f]
  BY <1>t DEF user_close, close_registered
<1>2. InterestList' = InterestList \ {fd} /\ fd \in InterestList /\ InterestList \subseteq Fd
  BY <1>1 DEF InterestList
<1>3. fd \notin closed
  BY <1>2 DEF LoopInv, WaitersInv
<1>4. WaitersInv'
  BY <1>u, <1>1, <1>2 DEF LoopInv, WaitersInv
<1>5. EventNumExact'
  <2>1. /\ Cardinality(InterestList') = Cardinality(InterestList) - 1
        /\ Cardinality(closed') = Cardinality(closed) + 1
        /\ Cardinality(InterestList) \in Nat /\ Cardinality(closed) \in Nat
    BY <1>2, <1>3, <1>u, FiniteLists, FS_RemoveElement, FS_AddElement DEF LoopInv
  <2> QED
    BY <2>1, <1>u DEF LoopInv, EventNumExact
<1>6. ParkedInv' /\ TimersExact' /\ BatchInv' /\ ClockInv' /\ ReturnedMeansQuiescent'
  BY <1>o, <1>u, Frames, UserCodeInsideRun
<1> QED
  BY <1>4, <1>5, <1>6 DEF BlockedInv

-----------------------------------------------------------------------------
(* The steps of the loop and of the environment *)

\* Facts of the state in which the loop runs.
LEMMA OnMainFacts ==
    ASSUME LoopInv, running = Main
    PROVE  /\ BlockedInv /\ CoInv /\ Active = {}
           /\ \A c \in Cid : pc[c] = "wait_event" => Waiting(c)
           /\ state \in [Cid -> {"none", "active", "suspended", "ended"}]
           /\ \A t \in timers : t.co \in Cid
<1>1. CoInv /\ BlockedInv /\ Active = {}
  BY MainMeansNoneActive DEF LoopInv, CoInv, BlockedInv, TypeOK, EventTypeOK,
                             SwitchInv, CurrentIsRunning
<1>2. \A c \in Cid : pc[c] = "wait_event" => Waiting(c)
  BY <1>1 DEF LoopInv, ParkedInv, Active, coroutines, Waiting
<1> QED
  BY <1>1, <1>2 DEF LoopInv, TypeOK, EventTypeOK, CoTypeOK, SwitchTypeOK

LEMMA RunStep ==
    ASSUME LoopInv, run, UNCHANGED envVars PROVE BlockedInv'
<1>1. /\ running = Main /\ loop = "start" /\ loop' = "check" /\ create
      /\ UNCHANGED <<callVars, timerVars, tnow, idx, pollVars, envVars>>
  BY DEF run, OnMain
<1>2. ParkedInv' /\ TimersExact' /\ WaitersInv' /\ BatchInv'
  <2>1. \A c \in Active : pc[c] # "wait_event"
    BY <1>1, OnMainFacts
  <2> QED
    BY <1>1, <2>1, OnMainFacts, CreateEffect, EnterStep
<1>3. EventNumExact' /\ ClockInv'
  BY <1>1, OnMainFacts, Frames DEF timerVars, pollVars, envVars
<1>4. ReturnedMeansQuiescent'
  BY <1>1 DEF ReturnedMeansQuiescent
<1> QED
  BY <1>2, <1>3, <1>4 DEF BlockedInv

\* The loop returns only when nobody is left in it.
LEMMA ReturnStep ==
    ASSUME LoopInv, wait_returns, UNCHANGED envVars PROVE BlockedInv'
<1>u. /\ UNCHANGED <<state, running, pc, wfd, now, timers, tnow, idx, epoll, events, event_num, closed>>
      /\ running = Main /\ loop = "check" /\ loop' = "returned" /\ event_num = 0
  BY DEF wait_returns, OnMain, Goto, coVars, switchVars, callVars, timerVars, pollVars, envVars
<1>o. /\ BlockedInv /\ Active = {}
      /\ \A c \in Cid : pc[c] = "wait_event" => Waiting(c)
  BY <1>u, OnMainFacts
<1>1. timers = {}
  BY NextTimeout DEF wait_returns, LoopInv, TypeOK
<1>2. InterestList = {} /\ closed = {}
  <2>1. Cardinality(InterestList) = 0 /\ Cardinality(closed) = 0
    BY <1>u, FiniteLists DEF LoopInv, EventNumExact
  <2> QED
    BY <2>1, FiniteLists, FS_EmptySet DEF LoopInv
<1>3. ASSUME NEW c \in coroutines PROVE state[c] = "suspended" /\ pc[c] = "yield"
  <2>1. c \in Cid /\ state[c] = "suspended"
    BY <1>o DEF coroutines, Active
  <2>2. pc[c] # "sleep"
    BY <1>1, <2>1 DEF LoopInv, TimersExact, Sleeping
  <2>3. pc[c] # "wait_event"
    BY <1>2, <2>1 DEF LoopInv, WaitersInv
  <2>4. pc[c] # "user"
    BY <2>1 DEF LoopInv, ParkedInv, Suspended
  <2> QED
    BY <2>1, <2>2, <2>3, <2>4 DEF LoopInv, TypeOK
<1>4. ReturnedMeansQuiescent'
  BY <1>u, <1>1, <1>3 DEF ReturnedMeansQuiescent, coroutines
<1>5. BatchInv'
  BY <1>u, <1>o DEF BlockedInv, BatchInv, Unhandled, Waiting
<1>6. ParkedInv' /\ TimersExact' /\ WaitersInv' /\ EventNumExact' /\ ClockInv'
  BY <1>u, <1>o, Frames
<1> QED
  BY <1>4, <1>5, <1>6 DEF BlockedInv

\* The steps of the loop that only move it on.
LEMMA MoveStep ==
    ASSUME LoopInv, UNCHANGED envVars,
           epoll_wait \/ epoll_none(ReadyNow) \/ handle_timer \/ run_timers_done
    PROVE  BlockedInv'
<1>u. /\ UNCHANGED <<state, running, pc, wfd, now, timers, epoll, event_num, closed>>
      /\ running = Main /\ loop' # "returned"
  BY DEF epoll_wait, epoll_none, handle_timer, run_timers_done, OnMain, Goto,
         coVars, switchVars, callVars, timerVars, pollVars, envVars
<1>t. now \in Nat /\ tnow \in Nat
  BY EventConstants DEF LoopInv, TypeOK, EventTypeOK, Time
<1>1. ClockInv'
  BY <1>u, <1>t DEF LoopInv, ClockInv, epoll_wait, epoll_none, handle_timer, run_timers_done
<1>2. BatchInv'
  <2>1. events' = << >>
    BY DEF LoopInv, BatchInv, epoll_wait, epoll_none, handle_timer, run_timers_done,
           OnMain, Goto, pollVars
  <2>2. idx' \in 1 .. Ncap + 1 /\ Unhandled' = {}
    <3>1. idx' \in 1 .. Ncap + 1
      BY EventConstants DEF LoopInv, TypeOK, EventTypeOK, epoll_wait, epoll_none,
                            handle_timer, run_timers_done
    <3> QED
      BY <2>1, <3>1, EventConstants DEF Unhandled
  <2> QED
    BY <2>1, <2>2, <1>u DEF BatchInv
<1>3. ReturnedMeansQuiescent'
  BY <1>u DEF ReturnedMeansQuiescent
<1>4. ParkedInv' /\ TimersExact' /\ WaitersInv' /\ EventNumExact'
  BY <1>u, OnMainFacts, Frames
<1> QED
  BY <1>1, <1>2, <1>3, <1>4 DEF BlockedInv

\* epoll_wait fills the batch with words of coroutines that wait, one each.
LEMMA EventsStep ==
    ASSUME LoopInv, epoll_events(ReadyNow), UNCHANGED envVars PROVE BlockedInv'
<1>u. /\ UNCHANGED <<state, running, pc, wfd, now, timers, tnow, epoll, event_num, closed>>
      /\ running = Main /\ loop' = "io" /\ idx' = 1
  BY DEF epoll_events, OnMain, coVars, switchVars, callVars, timerVars, envVars
<1>1. PICK b \in Batches(ReadyNow) : events' = [i \in DOMAIN b |-> epoll[b[i]].data]
  BY DEF epoll_events
<1>2. /\ DOMAIN b = 1 .. Len(events')
      /\ \A i \in DOMAIN b : b[i] \in InterestList /\ events'[i] = epoll[b[i]].data
      /\ \A i, j \in DOMAIN b : b[i] = b[j] => i = j
  <2>1. ReadyNow \in SUBSET InterestList
    BY DEF ReadyNow
  <2> QED
    BY <1>1, <2>1, BatchType DEF LoopInv, TypeOK
<1>3. Unhandled' = DOMAIN b
  BY <1>2, <1>u DEF Unhandled
<1>4. ASSUME NEW i \in DOMAIN b
      PROVE  /\ b[i] \in Fd
             /\ \E c \in Cid : /\ events'[i] = touint64(wfd[c], c) /\ Waiting(c)
                               /\ wfd[c] = b[i]
  <2>1. b[i] \in InterestList /\ b[i] \in Fd
    BY <1>2 DEF InterestList
  <2>2. PICK c \in Cid : /\ epoll[b[i]].data = touint64(b[i], c)
                         /\ pc[c] = "wait_event" /\ wfd[c] = b[i]
    BY <2>1 DEF LoopInv, WaitersInv
  <2> QED
    BY <2>1, <2>2, <1>2, <1>u, OnMainFacts
<1>5. BatchInv'
  <2>1. ASSUME NEW i \in DOMAIN b, NEW j \in DOMAIN b, events'[i] = events'[j]
        PROVE  i = j
    <3>1. PICK c \in Cid : events'[i] = touint64(b[i], c)
      BY <1>4
    <3>2. PICK d \in Cid : events'[j] = touint64(b[j], d)
      BY <1>4
    <3>3. touint64(b[i], c) = touint64(b[j], d) /\ b[i] \in Fd /\ b[j] \in Fd
      BY <2>1, <3>1, <3>2, <1>4
    <3>4. b[i] = b[j]
      BY <3>3, WordsDiffer, ZenonT(30)
    <3> QED
      BY <3>4, <1>2
  <2>2. \A i \in DOMAIN b : \E c \in Cid : events'[i] = touint64(wfd'[c], c) /\ Waiting(c)'
    BY <1>4, <1>u DEF Waiting
  <2> QED
    BY <2>1, <2>2, <1>3, <1>u DEF BatchInv
<1>6. ReturnedMeansQuiescent'
  BY <1>u DEF ReturnedMeansQuiescent
<1>7. ParkedInv' /\ TimersExact' /\ WaitersInv' /\ EventNumExact' /\ ClockInv'
  BY <1>u, OnMainFacts, Frames
<1> QED
  BY <1>5, <1>6, <1>7 DEF BlockedInv

\* default_handle_io resumes the coroutine of the entry, and no other entry
\* names it.
LEMMA HandleStep ==
    ASSUME LoopInv, handle_io, UNCHANGED envVars PROVE BlockedInv'
<1>u. /\ UNCHANGED <<pc, wfd, now, timers, tnow, loop, epoll, events, event_num, closed>>
      /\ running = Main /\ loop = "io" /\ idx <= Len(events) /\ idx' = idx + 1
  BY DEF handle_io, OnMain, callVars, timerVars, pollVars, envVars
<1>o. /\ BlockedInv /\ Active = {}
      /\ state \in [Cid -> {"none", "active", "suspended", "ended"}]
      /\ \A t \in timers : t.co \in Cid
  BY <1>u, OnMainFacts
<1>1. PICK c \in Cid : /\ events[idx] = touint64(wfd[c], c) /\ Waiting(c)
                       /\ wfd[c] \in Fd /\ fromuint64(events[idx]).id = c
  BY UnhandledWaits DEF handle_io
<1>2. state' = [state EXCEPT ![c] = "active"] /\ running' = c
  BY <1>1, ResumeEffect DEF handle_io, Waiting
<1>3. state'[c] = "active" /\ \A d \in Cid : d # c => state'[d] = state[d]
  BY <1>2, <1>o
<1>4. /\ \A d \in Cid : (Sleeping(d)' <=> Sleeping(d))
      /\ \A d \in Cid : d # c => (Waiting(d)' <=> Waiting(d))
  BY <1>1, <1>3, <1>u DEF Sleeping, Waiting
<1>5. ParkedInv'
  BY <1>1, <1>2, <1>3, <1>o, <1>u DEF BlockedInv, ParkedInv, coroutines, Active, Suspended
<1>6. TimersExact'
  BY <1>4, <1>o, <1>u DEF BlockedInv, TimersExact
<1>7. BatchInv'
  <2>t. idx \in Nat \ {0} /\ Len(events) \in Nat
    BY EventConstants DEF LoopInv, TypeOK, EventTypeOK
  <2>1. Unhandled' = Unhandled \ {idx} /\ idx \in Unhandled
    BY <2>t, <1>u DEF Unhandled
  <2>2. ASSUME NEW i \in Unhandled'
        PROVE  \E d \in Cid : events'[i] = touint64(wfd'[d], d) /\ Waiting(d)'
    <3>1. i \in Unhandled /\ i # idx
      BY <2>1
    <3>2. PICK d \in Cid : events[i] = touint64(wfd[d], d) /\ Waiting(d)
      BY <3>1 DEF LoopInv, BatchInv
    <3>3. events[i] # events[idx]
      BY <3>1, <2>1 DEF LoopInv, BatchInv
    <3>4. d # c
      BY <3>2, <3>3, <1>1
    <3> QED
      BY <3>2, <3>4, <1>4, <1>u
  <2>3. idx' > 1
    BY <2>t, <1>u
  <2> QED
    BY <2>1, <2>2, <2>3, <1>u DEF LoopInv, BatchInv
<1>8. ReturnedMeansQuiescent'
  BY <1>u DEF ReturnedMeansQuiescent
<1>9. WaitersInv' /\ EventNumExact' /\ ClockInv'
  BY <1>u, <1>o, Frames
<1> QED
  BY <1>5, <1>6, <1>7, <1>8, <1>9 DEF BlockedInv

\* run_timers resumes the sleeper of the first timer, and no other timer is
\* its.
LEMMA TimerStep ==
    ASSUME LoopInv, run_timers, UNCHANGED envVars PROVE BlockedInv'
<1>u. /\ UNCHANGED <<pc, wfd, now, tnow, loop, idx, epoll, events, event_num, closed>>
      /\ running = Main /\ loop = "timers"
  BY DEF run_timers, OnMain, callVars, loopVars, pollVars, envVars
<1>o. /\ BlockedInv /\ Active = {}
      /\ state \in [Cid -> {"none", "active", "suspended", "ended"}]
      /\ \A t \in timers : t.co \in Cid
  BY <1>u, OnMainFacts
<1>1. PICK t \in Tops : timers' = timers \ {t} /\ resume(t.co, FALSE)
  BY DEF run_timers
<1>2. t \in timers /\ t.co \in Cid /\ Sleeping(t.co)
  BY <1>o DEF Tops, BlockedInv, TimersExact
<1> DEFINE c == t.co
<1>3. state' = [state EXCEPT ![c] = "active"] /\ running' = c
  BY <1>1, <1>2, ResumeEffect DEF Sleeping
<1> HIDE DEF c
<1>4. c \in Cid /\ state'[c] = "active" /\ \A d \in Cid : d # c => state'[d] = state[d]
  BY <1>2, <1>3, <1>o DEF c
<1>5. /\ \A d \in Cid : (Sleeping(d)' <=> Sleeping(d) /\ d # c)
      /\ \A d \in Cid : (Waiting(d)' <=> Waiting(d))
  BY <1>2, <1>4, <1>u DEF Sleeping, Waiting, c
<1>6. ParkedInv'
  BY <1>2, <1>3, <1>4, <1>o, <1>u
     DEF BlockedInv, ParkedInv, coroutines, Active, Suspended, Sleeping, c
<1>7. TimersExact'
  <2>1. \A u \in timers' : u \in timers /\ u.co # c
    BY <1>1, <1>2, <1>o DEF BlockedInv, TimersExact, c
  <2>2. \A d \in Cid : Sleeping(d)' => \E u \in timers' : u.co = d
    BY <1>1, <1>5, <1>o DEF BlockedInv, TimersExact, c
  <2>3. \A u, v \in timers' : u.co = v.co => u = v
    BY <2>1, <1>o DEF BlockedInv, TimersExact
  <2>4. \A u \in timers' : Sleeping(u.co)'
    BY <2>1, <1>5, <1>o DEF BlockedInv, TimersExact
  <2> QED
    BY <2>2, <2>3, <2>4 DEF TimersExact
<1>8. BatchInv'
  BY <1>5, <1>o, <1>u DEF BlockedInv, BatchInv, Unhandled
<1>9. ReturnedMeansQuiescent'
  BY <1>u DEF ReturnedMeansQuiescent
<1>10. WaitersInv' /\ EventNumExact' /\ ClockInv'
  BY <1>u, <1>o, Frames
<1> QED
  BY <1>6, <1>7, <1>8, <1>9, <1>10 DEF BlockedInv

\* The clock, new input and stuttering leave every record alone.
LEMMA OutsideStep ==
    ASSUME LoopInv,
           \/ Tick /\ UNCHANGED envVars
           \/ \E fd \in Fd : BecomeReady(fd)
           \/ UNCHANGED loopAll
    PROVE  BlockedInv'
<1>u. /\ UNCHANGED <<state, running, pc, wfd, timers, loop, tnow, idx, epoll, events, event_num, closed>>
      /\ now' = now \/ now' = now + 1
  BY DEF Tick, BecomeReady, loopAll, eventVars, coVars, switchVars, callVars, timerVars,
         loopVars, pollVars, envVars
<1>o. BlockedInv /\ now \in Nat /\ tnow \in Nat
  BY EventConstants DEF LoopInv, BlockedInv, TypeOK, EventTypeOK, Time
<1>1. ClockInv'
  BY <1>u, <1>o DEF BlockedInv, ClockInv
<1>2. ReturnedMeansQuiescent'
  BY <1>u, <1>o DEF BlockedInv, ReturnedMeansQuiescent, coroutines
<1> QED
  BY <1>u, <1>o, <1>1, <1>2, Frames DEF BlockedInv

-----------------------------------------------------------------------------
(* The theorems *)

\* The invariant is inductive.
LEMMA LoopInvStep == LoopInv /\ [Next]_loopAll => LoopInv'
<1> SUFFICES ASSUME LoopInv, [Next]_loopAll PROVE LoopInv'
  OBVIOUS
<1>1. TypeOK' /\ NoFault'
  BY LoopTypeStep, CoStep DEF NoFault
<1>2. SwitchInv'
  BY CoStep, SwitchStep DEF LoopInv, TypeOK, EventTypeOK
<1>3. BlockedInv'
  <2>1. ASSUME LoopStep(ReadyNow), UNCHANGED envVars PROVE BlockedInv'
    BY <2>1, RunStep, ReturnStep, MoveStep, EventsStep, HandleStep, TimerStep DEF LoopStep
  <2>2. ASSUME NEW c \in Cid, UserStep(c) PROVE BlockedInv'
    <3>1. ASSUME NEW fd \in Fd, user_wait(c, fd) PROVE BlockedInv'
      BY <3>1, WaitStep, ExistsStep DEF user_wait
    <3> QED
      BY <2>2, <3>1, CreateStep, YieldStep, ResumeStep, SleepStep, CloseStep,
         WokenStep, EndStep DEF UserStep
  <2>3. ASSUME Interrupted(ReadyNow), UNCHANGED envVars PROVE BlockedInv'
    BY <2>3, MoveStep DEF Interrupted
  <2> QED
    BY <2>1, <2>2, <2>3, OutsideStep DEF Next, Thread, Environment
<1> QED
  BY <1>1, <1>2, <1>3 DEF LoopInv, BlockedInv

\* It holds at the start.
LEMMA LoopInvInit == Init => LoopInv
<1> SUFFICES ASSUME Init PROVE LoopInv
  OBVIOUS
<1> USE DEF Init, EventInit
<1>1. TypeOK
  <2>1. CoTypeOK
    BY CoroutineConstants DEF CoInit, CoTypeOK, SwitchTypeOK, DeferTypeOK, Stack, Main, Faults
  <2>2. NoReg \in [ev : {"IN", "OUT", "NULL"}, data : U64]
    BY IntBoundIsPositive DEF NoReg, U64, UInt32
  <2>3. 0 \in Time /\ 1 \in 1 .. Ncap + 1 /\ events \in Seq(U64) /\ Len(events) <= Ncap
    BY EventConstants DEF Time
  <2> QED
    BY <2>1, <2>2, <2>3, EventConstants DEF TypeOK, EventTypeOK, Loop
<1>2. SwitchInv
  BY SwitchInit
<1>3. coroutines = {} /\ Active = {} /\ Suspended = {} /\ InterestList = {}
  BY DEF CoInit, coroutines, Active, Suspended, InterestList
<1>4. ParkedInv /\ WaitersInv
  BY <1>3 DEF ParkedInv, WaitersInv
<1>5. NoFault /\ ClockInv /\ ReturnedMeansQuiescent
  BY DEF CoInit, NoFault, ClockInv, ReturnedMeansQuiescent
<1>6. TimersExact
  BY DEF CoInit, TimersExact, Sleeping
<1>7. BatchInv
  BY DEF BatchInv, Unhandled
<1>8. EventNumExact
  BY <1>3, FS_EmptySet DEF EventNumExact
<1> QED
  BY <1>1, <1>2, <1>4, <1>5, <1>6, <1>7, <1>8 DEF LoopInv

\* Whatever the program, the states of the coroutines, the timers, the
\* interest list and the batch agree at every step.
THEOREM LoopCorrect == Spec => []LoopInv
BY LoopInvInit, LoopInvStep, PTL DEF Spec

\* The loop and the program never fail an assertion of the library, nor
\* resume nullptr, a deleted coroutine or one that is active.
THEOREM LoopNeverFaults == Spec => []NoFault
<1>1. LoopInv => NoFault
  BY DEF LoopInv
<1> QED
  BY <1>1, LoopCorrect, PTL

\* Every sleeper has its one timer, and every timer its sleeper.
THEOREM TimersCorrect == Spec => []TimersExact
<1>1. LoopInv => TimersExact
  BY DEF LoopInv
<1> QED
  BY <1>1, LoopCorrect, PTL

\* Every entry of epoll's interest list belongs to the one coroutine that
\* waits for the descriptor, and every waiting coroutine has its entry.
THEOREM RegistrationsCorrect == Spec => []RegistrationsExact
<1>1. ASSUME LoopInv PROVE RegistrationsExact
  <2>1. ASSUME NEW fd \in InterestList
        PROVE  LET w == fromuint64(epoll[fd].data)
               IN  w.fd = fd /\ w.id \in Cid /\ wfd[w.id] = fd
                   /\ pc[w.id] = "wait_event" /\ w.id \in coroutines
    <3>1. fd \in Fd
      BY DEF InterestList
    <3>2. PICK c \in Cid : /\ epoll[fd].data = touint64(fd, c)
                           /\ pc[c] = "wait_event" /\ wfd[c] = fd
      BY <1>1 DEF LoopInv, WaitersInv
    <3>3. fromuint64(epoll[fd].data) = [fd |-> fd, id |-> c]
      BY <3>1, <3>2, WordNamesItsWaiter
    <3> QED
      BY <1>1, <3>2, <3>3 DEF LoopInv, ParkedInv
  <2>2. ASSUME NEW c \in Cid, Waiting(c)
        PROVE  wfd[c] \in closed \/ (wfd[c] \in InterestList
                                     /\ fromuint64(epoll[wfd[c]].data).id = c)
    <3>1. \/ wfd[c] \in closed
          \/ /\ wfd[c] \in InterestList /\ wfd[c] \in Fd
             /\ epoll[wfd[c]].data = touint64(wfd[c], c)
      BY <1>1, <2>2 DEF LoopInv, WaitersInv, ParkedInv, Waiting
    <3>2. wfd[c] \in Fd => fromuint64(touint64(wfd[c], c)) = [fd |-> wfd[c], id |-> c]
      BY WordNamesItsWaiter
    <3> QED
      BY <3>1, <3>2
  <2> QED
    BY <2>1, <2>2 DEF RegistrationsExact
<1> QED
  BY <1>1, LoopCorrect, PTL

\* The rest of a batch is intact while the coroutines of its first entries
\* run: every entry names a coroutine still blocked on its descriptor.
THEOREM BatchCorrect == Spec => []BatchIntact
<1>1. ASSUME LoopInv PROVE BatchIntact
  <2>1. ASSUME NEW i \in Unhandled
        PROVE  \E c \in Cid : /\ events[i] = touint64(wfd[c], c) /\ Waiting(c)
                              /\ EventCid(i) = c /\ EventFd(i) = wfd[c]
    <3>1. PICK c \in Cid : events[i] = touint64(wfd[c], c) /\ Waiting(c)
      BY <1>1 DEF LoopInv, BatchInv
    <3>2. wfd[c] \in Fd
      BY <1>1, <3>1 DEF LoopInv, ParkedInv, Waiting
    <3>3. fromuint64(events[i]) = [fd |-> wfd[c], id |-> c]
      BY <3>1, <3>2, WordNamesItsWaiter
    <3> QED
      BY <3>1, <3>3 DEF EventCid, EventFd
  <2>2. ASSUME NEW i \in Unhandled, NEW j \in Unhandled, EventCid(i) = EventCid(j)
        PROVE  i = j
    <3>1. events[i] = events[j]
      BY <2>1, <2>2
    <3> QED
      BY <1>1, <3>1 DEF LoopInv, BatchInv
  <2> QED
    BY <2>1, <2>2 DEF BatchIntact
<1> QED
  BY <1>1, LoopCorrect, PTL

\* Poll::event_num is exact, also after descriptors were closed under their
\* waiters.
THEOREM EventNumCorrect == Spec => []EventNumExact
<1>1. LoopInv => EventNumExact
  BY DEF LoopInv
<1> QED
  BY <1>1, LoopCorrect, PTL

\* coroutine::run returns only when nobody sleeps or waits for a descriptor.
THEOREM ReturnCorrectly == Spec => []ReturnedMeansQuiescent
<1>1. LoopInv => ReturnedMeansQuiescent
  BY DEF LoopInv
<1> QED
  BY <1>1, LoopCorrect, PTL

\* Only run_timers ends a sleep.
LEMMA OnlyTimersWake ==
    ASSUME LoopInv, [Next]_loopAll, NEW c \in Cid, Sleeping(c), ~ run_timers
    PROVE  Sleeping(c)'
<1>t. /\ state \in [Cid -> {"none", "active", "suspended", "ended"}]
      /\ pc \in [Cid -> {"user", "yield", "sleep", "wait_event"}] /\ CoInv
  BY DEF LoopInv, CoInv, TypeOK, EventTypeOK, CoTypeOK, SwitchTypeOK
<1>u. ASSUME UNCHANGED <<state, pc>> PROVE Sleeping(c)'
  BY <1>u DEF Sleeping
<1>s. ASSUME NEW d \in Cid, d # c, NEW s, NEW w,
             state' = [state EXCEPT ![d] = s], pc' = [pc EXCEPT ![d] = w] \/ UNCHANGED pc
      PROVE  Sleeping(c)'
  BY <1>s, <1>t DEF Sleeping
<1>c. ASSUME create, UNCHANGED pc PROVE Sleeping(c)'
  <2>1. /\ last_cid + 1 \in Cid /\ last_cid + 1 # c
        /\ state' = [state EXCEPT ![last_cid + 1] = "active"]
    BY <1>c, <1>t, CreateEffect DEF Sleeping
  <2> QED
    BY <1>c, <2>1, <1>s
<1>1. CASE LoopStep(ReadyNow)
  <2>1. CASE run
    BY <2>1, <1>c DEF run, callVars
  <2>2. CASE wait_returns \/ epoll_wait \/ epoll_none(ReadyNow) \/ run_timers_done
             \/ epoll_events(ReadyNow) \/ handle_timer
    BY <2>2, <1>u DEF wait_returns, epoll_wait, epoll_none, run_timers_done, Goto,
                      epoll_events, handle_timer, coVars, switchVars, callVars
  <2>3. CASE handle_io
    <3>1. PICK d \in Cid : Waiting(d) /\ fromuint64(events[idx]).id = d
      BY <2>3, UnhandledWaits DEF handle_io
    <3>2. d # c /\ state' = [state EXCEPT ![d] = "active"] /\ UNCHANGED pc
      BY <2>3, <3>1, ResumeEffect DEF handle_io, Waiting, Sleeping, callVars
    <3> QED
      BY <3>2, <1>s
  <2> QED
    BY <1>1, <2>1, <2>2, <2>3 DEF LoopStep
<1>2. ASSUME NEW e \in Cid, UserStep(e) PROVE Sleeping(c)'
  <2>1. CASE user_woken(e)
    <3>1. e # c /\ UNCHANGED state /\ pc' = [pc EXCEPT ![e] = "user"]
      BY <2>1 DEF user_woken, wait_event_woken, coVars, switchVars, Sleeping
    <3>2. state' = [state EXCEPT ![e] = state[e]]
      BY <3>1, <1>t
    <3> QED
      BY <3>1, <3>2, <1>s
  <2>2. CASE InUserCode(e)
    <3>1. e # c /\ running = e
      BY <2>2, InOwnCode DEF Sleeping
    <3>2. CASE user_create(e)
      BY <3>2, <1>c DEF user_create, callVars
    <3>3. CASE user_yield(e) \/ \E t \in Delays : user_sleep(e, t)
      BY <3>1, <3>3, <1>t, <1>s, YieldEffect DEF user_yield, user_sleep, sleep, Park
    <3>4. ASSUME NEW d \in Cid, user_resume(e, d) PROVE Sleeping(c)'
      <4>1. d # c /\ state' = [state EXCEPT ![d] = "active"] /\ UNCHANGED pc
        BY <3>4, ResumeEffect DEF user_resume, Sleeping, callVars
      <4> QED
        BY <4>1, <1>s
    <3>5. ASSUME NEW fd \in Fd, user_wait(e, fd) PROVE Sleeping(c)'
      <4>1. CASE wait_event(e, fd, "IN")
        BY <3>1, <4>1, <1>t, <1>s, YieldEffect DEF wait_event, add_event
      <4>2. CASE UNCHANGED <<coVars, pc, wfd, timerVars, loopVars>>
        BY <4>2, <1>u DEF coVars, switchVars
      <4> QED
        BY <3>5, <4>1, <4>2 DEF user_wait
    <3>6. CASE \E fd \in Fd : user_close(e, fd)
      BY <3>6, <1>u DEF user_close, close_registered, coVars, switchVars, callVars
    <3>7. CASE user_end(e)
      BY <3>1, <3>7, <1>t, <1>s, EndEffect DEF user_end, callVars
    <3> QED
      BY <1>2, <2>2, <3>2, <3>3, <3>4, <3>5, <3>6, <3>7, <2>1 DEF UserStep
  <2> QED
    BY <1>2, <2>1, <2>2 DEF UserStep, user_create, user_yield, user_resume, user_sleep,
                            user_wait, user_close, user_end
<1>3. CASE Environment \/ UNCHANGED loopAll
  BY <1>3, <1>u DEF Environment, Tick, Interrupted, epoll_none, Goto, BecomeReady, loopAll,
                    eventVars, coVars, switchVars, callVars
<1> QED
  BY <1>1, <1>2, <1>3 DEF Next, Thread

\* A sleeper goes on by its own timer, when its time has come and no other
\* sleeper's deadline is earlier.
THEOREM SleepersWokenOnTime == Spec => WokenOnTime
<1> DEFINE Woken == \A c \in Cid : Sleeping(c) /\ ~ Sleeping(c)' =>
          \E t \in timers \ timers' :
             /\ t.co = c /\ t.exec <= now
             /\ \A u \in timers : t.exec <= u.exec
<1>1. LoopInv /\ [Next]_loopAll => [Woken]_loopAll
  <2> SUFFICES ASSUME LoopInv, [Next]_loopAll, NEW c \in Cid, Sleeping(c), ~ Sleeping(c)'
               PROVE  \E t \in timers \ timers' :
                         /\ t.co = c /\ t.exec <= now
                         /\ \A u \in timers : t.exec <= u.exec
    OBVIOUS
  <2>1. run_timers
    BY OnlyTimersWake
  <2>2. PICK t \in Tops : tnow >= t.exec /\ timers' = timers \ {t} /\ resume(t.co, FALSE)
    BY <2>1 DEF run_timers
  <2>3. /\ t \in timers /\ t.co \in Cid /\ Sleeping(t.co)
        /\ \A u \in timers : t.exec <= u.exec
    BY DEF Tops, LoopInv, TypeOK, EventTypeOK, TimersExact
  <2>4. t.exec <= now
    <3>1. t.exec \in Nat /\ tnow \in Nat /\ now \in Nat
      BY <2>3, EventConstants DEF LoopInv, TypeOK, EventTypeOK, Time
    <3> QED
      BY <2>2, <3>1 DEF LoopInv, ClockInv
  <2>5. t.co = c
    <3> SUFFICES ASSUME t.co # c PROVE FALSE
      OBVIOUS
    <3>1. state' = [state EXCEPT ![t.co] = "active"] /\ UNCHANGED pc
      BY <2>1, <2>2, <2>3, ResumeEffect DEF run_timers, Sleeping, callVars
    <3>2. state'[c] = state[c]
      BY <2>3, <3>1 DEF LoopInv, TypeOK, EventTypeOK, CoTypeOK, SwitchTypeOK
    <3> QED
      BY <3>1, <3>2 DEF Sleeping
  <2> QED
    BY <2>2, <2>3, <2>4, <2>5
<1> QED
  BY <1>1, LoopCorrect, PTL DEF Spec, WokenOnTime
=============================================================================
