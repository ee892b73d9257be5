----------------------------- MODULE EventProofs -----------------------------
(***************************************************************************)
(* Facts about module Event that do not depend on the program that runs on *)
(* the loop: the word that carries a descriptor and a cid through epoll,   *)
(* the timeout given to epoll_wait, and the types of the loop's steps.     *)
(***************************************************************************)
EXTENDS Event, CoroutineProofs, FiniteSetTheorems, WellFoundedInduction, TLAPS

\* The bits of an int give the int back.
LEMMA BitsInverse == \A n \in Int32 : Bits(n) \in UInt32 /\ Signed(Bits(n)) = n
BY IntBoundIsPositive DEF Int32, UInt32, Bits, Signed

\* A cid that fits an int and any descriptor come back from epoll as they
\* were given to it (touint64 in wait_event, fromuint64 in default_handle_io),
\* whatever the width of int.
THEOREM PackingRoundTrip ==
    ASSUME NEW fd \in Int32, NEW id \in 0 .. IntBound - 1
    PROVE  fromuint64(touint64(fd, id)) = [fd |-> fd, id |-> id]
<1>1. id \in Int32 /\ ~ (id < 0)
  BY IntBoundIsPositive DEF Int32
<1>2. touint64(fd, id) = [hi |-> Bits(fd), lo |-> Bits(id)]
  BY <1>1 DEF touint64
<1>3. Signed(Bits(fd)) = fd /\ Signed(Bits(id)) = id
  BY <1>1, BitsInverse
<1> QED
  BY <1>2, <1>3 DEF fromuint64

\* So the word of a descriptor and a coroutine of the model names them both:
\* every cid is below IntBound.
COROLLARY WordNamesItsWaiter ==
    ASSUME NEW fd \in Fd, NEW c \in Cid
    PROVE  fromuint64(touint64(fd, c)) = [fd |-> fd, id |-> c]
<1>1. fd \in Int32
  BY EventConstants, IntBoundIsPositive DEF Int32
<1>2. c \in 0 .. IntBound - 1
  BY EventConstants, CoroutineConstants, IntBoundIsPositive DEF Cid
<1> QED
  BY <1>1, <1>2, PackingRoundTrip

\* The word of a coroutine is a word, and names it.
LEMMA WordOfWaiter ==
    ASSUME NEW fd \in Fd, NEW c \in Cid
    PROVE  Word(c, fd) = touint64(fd, c) /\ Word(c, fd) \in U64
<1>1. fd \in Int32 /\ c \in 0 .. IntBound - 1 /\ c \in Int32
  BY EventConstants, CoroutineConstants, IntBoundIsPositive DEF Int32, Cid
<1>2. ToInt(c) = c
  BY <1>1 DEF ToInt
<1>3. touint64(fd, c) = [hi |-> Bits(fd), lo |-> Bits(c)]
  BY <1>1 DEF touint64
<1> QED
  BY <1>1, <1>2, <1>3, BitsInverse DEF Word, U64

\* Two words are the same only if they name the same descriptor and cid.
LEMMA WordsDiffer ==
    ASSUME NEW fd \in Fd, NEW c \in Cid, NEW f \in Fd, NEW d \in Cid,
           touint64(fd, c) = touint64(f, d)
    PROVE  fd = f /\ c = d
<1>1. [fd |-> fd, id |-> c] = [fd |-> f, id |-> d]
  BY WordNamesItsWaiter
<1>2. [fd |-> fd, id |-> c].fd = [fd |-> f, id |-> d].fd
  BY <1>1
<1>3. [fd |-> fd, id |-> c].id = [fd |-> f, id |-> d].id
  BY <1>1
<1> QED
  BY <1>2, <1>3

-----------------------------------------------------------------------------
(* Timers *)

\* There is a first timer if there is any.
LEMMA SomeTop == ASSUME EventTypeOK, timers # {} PROVE Tops # {}
<1> DEFINE E == {t.exec : t \in timers}
<1>1. E \subseteq Nat /\ E # {}
  BY EventConstants DEF EventTypeOK, Time
<1>2. PICK x \in E : \A y \in E : ~ (<<y, x>> \in OpToRel(<, Nat))
  BY <1>1, NatLessThanWellFounded, WFMin
<1>3. \A y \in E : ~ (y < x)
  BY <1>1, <1>2 DEF OpToRel
<1>4. PICK t \in timers : t.exec = x
  OBVIOUS
<1>5. \A u \in timers : t.exec <= u.exec
  <2> SUFFICES ASSUME NEW u \in timers PROVE t.exec <= u.exec
    OBVIOUS
  <2>1. u.exec \in E /\ u.exec \in Nat /\ x \in Nat
    BY <1>1
  <2> QED
    BY <2>1, <1>3, <1>4
<1> QED
  BY <1>4, <1>5 DEF Tops

\* get_next_timeout is negative exactly when there is no timer, and never
\* past the first one.
LEMMA NextTimeout ==
    ASSUME EventTypeOK
    PROVE  /\ timers = {} => get_next_timeout = -1
           /\ timers # {} => get_next_timeout \in Nat
           /\ timers # {} => now + get_next_timeout \in Time
<1>1. CASE timers = {}
  BY <1>1 DEF get_next_timeout
<1>2. CASE timers # {}
  <2> DEFINE t == CHOOSE t \in Tops : TRUE
  <2>1. t \in Tops
    BY <1>2, SomeTop
  <2>2. t.exec \in Time /\ now \in Time
    BY <2>1 DEF Tops, EventTypeOK
  <2>3. get_next_timeout = IF t.exec - now < 0 THEN 0 ELSE t.exec - now
    BY <1>2 DEF get_next_timeout
  <2> HIDE DEF t
  <2> QED
    BY <1>2, <2>2, <2>3, EventConstants DEF Time
<1> QED
  BY <1>1, <1>2

\* The conversion to int of a timeout never makes it longer.
LEMMA ToIntShortens ==
    ASSUME NEW n \in Int, n >= -1
    PROVE  /\ ToInt(n) \in Int32 /\ ToInt(n) <= n
           /\ n \in Int32 => ToInt(n) = n
<1> USE IntBoundIsPositive DEF Int32
<1>1. CASE n \in Int32
  BY <1>1 DEF ToInt
<1>2. CASE n \notin Int32
  <2>1. n >= IntBound
    BY <1>2
  <2>2. (n + IntBound) % (2 * IntBound) \in 0 .. 2 * IntBound - 1
    BY <2>1
  <2> QED
    BY <1>2, <2>1, <2>2 DEF ToInt
<1> QED
  BY <1>1, <1>2

-----------------------------------------------------------------------------
(* Types *)

\* Writing the argument of epoll_ctl into poll->events keeps it a sequence of
\* words of the same length.
LEMMA ScratchType ==
    ASSUME events \in Seq(U64), NEW w \in U64, Scratch(w)
    PROVE  events' \in Seq(U64) /\ Len(events') = Len(events)
<1>1. CASE events = << >>
  BY <1>1 DEF Scratch
<1>2. CASE events # << >>
  <2>1. events' = [events EXCEPT ![1] = w] /\ Len(events) \in Nat \ {0}
    BY <1>2 DEF Scratch
  <2> QED
    BY <2>1
<1> QED
  BY <1>1, <1>2

\* A batch is a sequence of words of registered descriptors that fits
\* poll->events.
LEMMA BatchType ==
    ASSUME EventTypeOK, NEW r \in SUBSET InterestList, NEW b \in Batches(r)
    PROVE  /\ DOMAIN b = 1 .. Len([i \in DOMAIN b |-> epoll[b[i]].data])
           /\ [i \in DOMAIN b |-> epoll[b[i]].data] \in Seq(U64)
           /\ Len([i \in DOMAIN b |-> epoll[b[i]].data]) <= Ncap
           /\ \A i \in DOMAIN b : b[i] \in InterestList
           /\ \A i, j \in DOMAIN b : b[i] = b[j] => i = j
<1> DEFINE k == Cardinality(r)
           n == IF k < Ncap THEN k ELSE Ncap
<1>1. r \subseteq InterestList /\ InterestList \subseteq Fd
  BY DEF InterestList
<1>2. k \in Nat
  BY <1>1, EventConstants, FS_Subset, FS_CardinalityType
<1>3. n \in Nat /\ n <= Ncap
  BY <1>2, EventConstants
<1>4. b \in [1 .. n -> r] /\ \A i, j \in 1 .. n : b[i] = b[j] => i = j
  BY DEF Batches
<1> HIDE DEF n
<1>5. \A i \in 1 .. n : b[i] \in InterestList /\ epoll[b[i]].data \in U64
  BY <1>1, <1>4 DEF EventTypeOK
<1> DEFINE e == [i \in DOMAIN b |-> epoll[b[i]].data]
<1>6. e \in [1 .. n -> U64]
  BY <1>4, <1>5
<1>7. e \in Seq(U64) /\ Len(e) = n
  BY <1>3, <1>6
<1> QED
  BY <1>3, <1>4, <1>5, <1>7

\* EventTypeOK in parts: the calls, the timers, the loop, the interest list
\* and the batch.
CallsTypeOK  == wfd \in [Cid -> Fd \cup {-1}] /\ calls \in [Cid -> 0 .. MaxCalls]
TimersTypeOK == timers \subseteq [exec : Time, co : Cid, call : 1 .. MaxCalls]
LoopTypeOK   == /\ now \in Time /\ tnow \in Time /\ loop \in Loop
                /\ deadline \in Time \cup {Forever}
                /\ idx \in 1 .. Ncap + 1
PollTypeOK   == /\ epoll \in [Fd -> [ev : {"IN", "OUT", "NULL"}, data : U64]]
                /\ event_num \in Nat
EventsTypeOK == events \in Seq(U64) /\ Len(events) <= Ncap

PartsOK == CallsTypeOK /\ TimersTypeOK /\ LoopTypeOK /\ PollTypeOK /\ EventsTypeOK

\* The parts make up EventTypeOK, in a state and in the next one.
LEMMA TypeParts ==
    /\ EventTypeOK <=> CoTypeOK /\ PartsOK
    /\ EventTypeOK' <=> CoTypeOK' /\ PartsOK'
BY DEF EventTypeOK, PartsOK, CallsTypeOK, TimersTypeOK, LoopTypeOK, PollTypeOK, EventsTypeOK

\* A step that leaves the variables of a part alone keeps it.
LEMMA TypeFrames ==
    ASSUME PartsOK
    PROVE  /\ UNCHANGED callVars => CallsTypeOK'
           /\ UNCHANGED <<wfd, calls>> => CallsTypeOK'
           /\ UNCHANGED timers => TimersTypeOK'
           /\ UNCHANGED <<loopVars, now>> => LoopTypeOK'
           /\ UNCHANGED <<epoll, event_num>> => PollTypeOK'
           /\ UNCHANGED events => EventsTypeOK'
BY DEF PartsOK, CallsTypeOK, TimersTypeOK, LoopTypeOK, PollTypeOK, EventsTypeOK,
       callVars, loopVars

\* Coroutine::sleep and the calls like it: the call counted is in bounds, and
\* so is the timer.
LEMMA CountedType ==
    ASSUME PartsOK, NEW c \in Cid, Counted(c)
    PROVE  /\ calls[c] + 1 \in 1 .. MaxCalls
           /\ calls' \in [Cid -> 0 .. MaxCalls]
           /\ UNCHANGED wfd => CallsTypeOK'
           /\ \A timeout : add_timer(c, timeout) => TimersTypeOK'
<1>1. calls[c] + 1 \in 1 .. MaxCalls /\ calls' \in [Cid -> 0 .. MaxCalls]
  BY EventConstants DEF PartsOK, CallsTypeOK, Counted
<1>2. UNCHANGED wfd => CallsTypeOK'
  BY <1>1 DEF PartsOK, CallsTypeOK
<1>3. ASSUME NEW timeout, add_timer(c, timeout) PROVE TimersTypeOK'
  BY <1>1, <1>3 DEF PartsOK, TimersTypeOK, add_timer
<1> QED
  BY <1>1, <1>2, <1>3

\* The steps of the loop keep the types, whatever descriptors are ready.
LEMMA LoopStepTypes ==
    ASSUME EventTypeOK, NEW r \in SUBSET InterestList, LoopStep(r) \/ Interrupted(r)
    PROVE  PartsOK'
<1> USE EventConstants DEF PartsOK
<1>t. EventTypeOK /\ PartsOK
  BY TypeParts
<1>1. CASE run
  <2>1. LoopTypeOK'
    BY <1>1, <1>t DEF run, LoopTypeOK, timerVars, Loop
  <2> QED
    BY <1>1, <2>1, TypeFrames, <1>t DEF run, timerVars, pollVars
<1>2. CASE wait_returns \/ run_timers_done
  <2>1. LoopTypeOK'
    BY <1>2, <1>t DEF wait_returns, run_timers_done, LoopTypeOK, Goto, timerVars, Loop, Time
  <2> QED
    BY <1>2, <2>1, TypeFrames, <1>t
       DEF wait_returns, run_timers_done, Goto, timerVars, pollVars
<1>3. CASE epoll_wait
  <2> DEFINE timeout == ToInt(get_next_timeout)
  <2>1. timers # {} => /\ get_next_timeout \in Nat /\ now + get_next_timeout \in Time
                       /\ timeout \in Int /\ timeout <= get_next_timeout
    BY <1>t, NextTimeout, ToIntShortens, IntBoundIsPositive DEF Int32
  <2>2. timers = {} => timeout = -1
    <3>1. -1 \in Int32
      BY IntBoundIsPositive DEF Int32
    <3> QED
      BY <1>t, <3>1, NextTimeout, ToIntShortens
  <2>3. timeout >= 0 => now + timeout \in Time
    BY <2>1, <2>2, <1>t DEF LoopTypeOK, Time
  <2>4. deadline' = IF timeout < 0 THEN Forever ELSE now + timeout
    BY <1>3 DEF epoll_wait
  <2>5. timeout \in Int
    BY <2>1, <2>2
  <2>6. deadline' \in Time \cup {Forever}
    BY <2>3, <2>4, <2>5
  <2>7. LoopTypeOK'
    BY <1>3, <2>6, <1>t DEF epoll_wait, LoopTypeOK, Goto, timerVars, Loop
  <2> QED
    BY <1>3, <2>7, TypeFrames, <1>t
       DEF epoll_wait, Goto, timerVars, pollVars
<1>4. CASE epoll_events(r)
  <2>1. LoopTypeOK'
    BY <1>4, <1>t DEF epoll_events, LoopTypeOK, timerVars, Loop
  <2>2. EventsTypeOK'
    BY <1>4, <1>t, BatchType DEF epoll_events, EventsTypeOK
  <2> QED
    BY <1>4, <2>1, <2>2, TypeFrames, <1>t DEF epoll_events, timerVars
<1>5. CASE epoll_none(r)
  <2>1. LoopTypeOK'
    BY <1>5, <1>t DEF epoll_none, LoopTypeOK, Goto, timerVars, Loop
  <2> QED
    BY <1>5, <2>1, TypeFrames, <1>t
       DEF epoll_none, Goto, timerVars, pollVars
<1>6. CASE handle_io
  <2>1. LoopTypeOK'
    <3>1. idx + 1 \in 1 .. Ncap + 1
      BY <1>6, <1>t DEF handle_io, LoopTypeOK, EventsTypeOK
    <3> QED
      BY <1>6, <3>1, <1>t DEF handle_io, LoopTypeOK, timerVars
  <2> QED
    BY <1>6, <2>1, TypeFrames, <1>t DEF handle_io, timerVars, pollVars
<1>7. CASE handle_timer
  <2>1. LoopTypeOK' /\ EventsTypeOK'
    BY <1>7, <1>t DEF handle_timer, LoopTypeOK, EventsTypeOK, timerVars, Loop
  <2> QED
    BY <1>7, <2>1, TypeFrames, <1>t DEF handle_timer, timerVars
<1>8. CASE run_timers
  <2>1. TimersTypeOK'
    BY <1>8, <1>t DEF run_timers, TimersTypeOK
  <2> QED
    BY <1>8, <2>1, TypeFrames, <1>t DEF run_timers, pollVars
<1> QED
  BY <1>1, <1>2, <1>3, <1>4, <1>5, <1>6, <1>7, <1>8 DEF LoopStep, Interrupted
=============================================================================
