-------------------------- MODULE CoroutineProofs --------------------------
(***************************************************************************)
(* What module Coroutine promises, proved for every number of coroutines   *)
(* and of deferred tasks and under the most general client.                *)
(*                                                                         *)
(* The bookkeeping invariant is inductive once it also says that the cids  *)
(* not handed out yet belong to no coroutine (FreshCids): create relies on *)
(* it, since it switches to a coroutine that must not be active.           *)
(***************************************************************************)
EXTENDS Coroutine, FiniteSetTheorems, TLAPS

FreshCids == \A c \in Cid : c > last_cid => state[c] = "none"

\* The inductive invariant of the switches.
SwitchInv ==
    /\ CurrentIsRunning
    /\ OriginsFormAChain
    /\ ControlCanReturn
    /\ FreshCids

CoInv == CoTypeOK /\ SwitchInv

-----------------------------------------------------------------------------

\* The main stack is no coroutine.
LEMMA MainIsNoCid == Main \notin Cid /\ \A c \in Cid : c \in Nat /\ c # Main
BY CoroutineConstants DEF Main, Cid

\* Popping the top of a stack of tasks leaves a stack of tasks, and the top
\* is a task.
LEMMA PopTask ==
    ASSUME NEW T, NEW s \in Seq(T), s # << >>
    PROVE  /\ s[Len(s)] \in T
           /\ SubSeq(s, 1, Len(s) - 1) \in Seq(T)
<1>1. Len(s) \in Nat \ {0}
  OBVIOUS
<1>2. s \in [1 .. Len(s) -> T]
  OBVIOUS
<1>3. s[Len(s)] \in T
  BY <1>1, <1>2
<1>4. SubSeq(s, 1, Len(s) - 1) \in Seq(T)
  BY <1>1, <1>2
<1> QED
  BY <1>3, <1>4

\* Every operation keeps the types.
LEMMA TypeStep == CoTypeOK /\ [CoNext]_coVars => CoTypeOK'
<1> SUFFICES ASSUME CoTypeOK, [CoNext]_coVars PROVE CoTypeOK'
  OBVIOUS
<1> USE MainIsNoCid, CoroutineConstants DEF CoTypeOK
<1>s. ASSUME UNCHANGED switchVars PROVE SwitchTypeOK'
  BY <1>s DEF switchVars, SwitchTypeOK
<1>d. ASSUME UNCHANGED deferVars PROVE DeferTypeOK'
  BY <1>d DEF deferVars, DeferTypeOK
<1>f. ASSUME NEW f \in Faults, Die(f) PROVE CoTypeOK'
  BY <1>f, <1>s, <1>d DEF Die
<1>i. ASSUME NEW d \in Cid, swap_in(d), last_cid' \in 0 .. MaxCid
      PROVE  SwitchTypeOK'
  BY <1>i DEF swap_in, SwitchTypeOK, Stack
<1>1. CASE create
  <2>1. last_cid + 1 \in Cid /\ last_cid + 1 \in 0 .. MaxCid
    BY <1>1 DEF create, SwitchTypeOK, Cid
  <2> QED
    BY <1>1, <2>1, <1>i, <1>d DEF create
<1>2. CASE yield
  <2>1. CASE current = Main
    BY <1>2, <2>1, <1>f DEF yield, Faults
  <2>2. CASE current # Main
    <3>1. SwitchTypeOK'
      BY <1>2, <2>2 DEF yield, SwitchTypeOK, Stack
    <3> QED
      BY <1>2, <2>2, <3>1, <1>d DEF yield
  <2> QED
    BY <2>1, <2>2
<1>3. ASSUME NEW d \in Cid, NEW byCid \in BOOLEAN, resume(d, byCid)
      PROVE  CoTypeOK'
  <2>1. CASE state[d] = "suspended"
    BY <1>3, <2>1, <1>i, <1>d DEF resume, SwitchTypeOK
  <2>2. CASE state[d] # "suspended"
    <3>1. ResumeFault(d, byCid) \in Faults
      BY DEF ResumeFault, Faults
    <3> QED
      BY <1>3, <2>2, <3>1, <1>f DEF resume
  <2> QED
    BY <2>1, <2>2
<1>4. CASE defer
  <2>1. CASE current = Main
    BY <1>4, <2>1, <1>f DEF defer, Faults
  <2>2. CASE current # Main
    <3>1. current \in Cid
      BY <2>2 DEF SwitchTypeOK, Stack
    <3>2. defer_tasks[current] \in Seq(1 .. MaxDefer) /\ Registered(current) \in Nat
      BY <3>1 DEF Registered, DeferTypeOK
    <3>3. Registered(current) + 1 \in 1 .. MaxDefer
      BY <1>4, <2>2, <3>2 DEF defer
    <3>4. Append(defer_tasks[current], Registered(current) + 1) \in Seq(1 .. MaxDefer)
      BY <3>2, <3>3
    <3>5. DeferTypeOK'
      BY <1>4, <2>2, <3>1, <3>4, Zenon DEF defer, DeferTypeOK
    <3> QED
      BY <1>4, <2>2, <3>5, <1>s DEF defer
  <2> QED
    BY <2>1, <2>2
<1>5. CASE return_fn
  <2>1. running \in Cid
    BY <1>5 DEF return_fn, SwitchTypeOK, Stack
  <2>2. DeferTypeOK'
    BY <1>5, <2>1 DEF return_fn, DeferTypeOK
  <2> QED
    BY <1>5, <2>2, <1>s DEF return_fn
<1>6. CASE execute_defer_tasks
  <2>1. running \in Cid
    BY <1>6 DEF execute_defer_tasks, SwitchTypeOK, Stack
  <2> DEFINE tasks == defer_tasks[running]
             top   == tasks[Len(tasks)]
             rest  == SubSeq(tasks, 1, Len(tasks) - 1)
             done  == Append(ran[running], top)
  <2>2. tasks \in Seq(1 .. MaxDefer) /\ tasks # << >>
    BY <1>6, <2>1 DEF execute_defer_tasks, DeferTypeOK
  <2>3. top \in 1 .. MaxDefer /\ rest \in Seq(1 .. MaxDefer)
    BY <2>2, PopTask
  <2>4. done \in Seq(1 .. MaxDefer)
    BY <2>1, <2>3 DEF DeferTypeOK
  <2>5. /\ ran' = [ran EXCEPT ![running] = done]
        /\ defer_tasks' = [defer_tasks EXCEPT ![running] = rest]
        /\ UNCHANGED <<switchVars, phase, fault>>
    BY <1>6 DEF execute_defer_tasks
  <2> HIDE DEF done, rest
  <2>6. DeferTypeOK'
    BY <2>1, <2>3, <2>4, <2>5 DEF DeferTypeOK
  <2> QED
    BY <2>5, <2>6, <1>s
<1>7. CASE context_end
  <2>1. SwitchTypeOK'
    BY <1>7 DEF context_end, SwitchTypeOK, Stack
  <2> QED
    BY <1>7, <2>1, <1>d DEF context_end
<1>8. CASE UNCHANGED coVars
  BY <1>8, <1>s, <1>d DEF coVars
<1> QED
  BY <1>1, <1>2, <1>3, <1>4, <1>5, <1>6, <1>7, <1>8 DEF CoNext

\* Type correctness of the coroutine library.
THEOREM TypeCorrect == CoSpec => []CoTypeOK
<1>1. CoInit => CoTypeOK
  BY CoroutineConstants DEF CoInit, CoTypeOK, SwitchTypeOK, DeferTypeOK, Stack, Main, Faults
<1> QED
  BY <1>1, TypeStep, PTL DEF CoSpec

-----------------------------------------------------------------------------
(* A switch to a coroutine that is not active, and a switch back. *)

\* Entering a coroutine that is not active puts it at the end of the chain.
LEMMA EnterKeepsChain ==
    ASSUME CoTypeOK, CurrentIsRunning, OriginsFormAChain, ControlCanReturn,
           NEW d \in Cid, state[d] # "active", swap_in(d)
    PROVE  CurrentIsRunning' /\ OriginsFormAChain' /\ ControlCanReturn'
<1> USE MainIsNoCid
<1>1. d \notin Active /\ d # current /\ Active \subseteq Cid
  BY DEF Active, CurrentIsRunning
<1>2. Active' = Active \cup {d}
  BY DEF swap_in, Active, CoTypeOK, SwitchTypeOK
<1>3. /\ origin'[d] = current /\ swap_ctx'[d] = running
      /\ \A c \in Active : origin'[c] = origin[c] /\ swap_ctx'[c] = swap_ctx[c]
  BY <1>1 DEF swap_in, CoTypeOK, SwitchTypeOK
<1>4. current' = d /\ running' = d
  BY DEF swap_in
<1>5. CurrentIsRunning'
  BY <1>4 DEF CurrentIsRunning, swap_in, CoTypeOK, SwitchTypeOK
<1>6. current \in Active \cup {Main} /\ current = running
  BY DEF CurrentIsRunning, Active, CoTypeOK, SwitchTypeOK, Stack
<1>7. \A c \in Active : origin[c] # d
  BY <1>1 DEF OriginsFormAChain
<1>8. OriginsFormAChain'
  <2>1. ASSUME NEW c \in Active'
        PROVE  /\ origin'[c] \in Active' \cup {Main}
               /\ origin'[c] = swap_ctx'[c]
               /\ origin'[c] # current'
    <3>1. CASE c = d
      BY <3>1, <1>1, <1>2, <1>3, <1>4, <1>6
    <3>2. CASE c # d
      BY <3>2, <1>2, <1>3, <1>4, <1>7 DEF OriginsFormAChain
    <3> QED
      BY <3>1, <3>2
  <2>2. ASSUME NEW c \in Active', NEW e \in Active', origin'[c] = origin'[e]
        PROVE  c = e
    BY <2>2, <1>2, <1>3 DEF OriginsFormAChain
  <2> QED
    BY <2>1, <2>2 DEF OriginsFormAChain
<1>9. ControlCanReturn'
  <2> SUFFICES ASSUME NEW S \in SUBSET Active', S # {}
               PROVE  \E c \in S : origin'[c] \notin S
    BY DEF ControlCanReturn
  <2>1. CASE S \ {d} = {}
    BY <2>1, <1>1, <1>3
  <2>2. CASE S \ {d} # {}
    <3>1. S \ {d} \in SUBSET Active
      BY <1>2
    <3>2. PICK c \in S \ {d} : origin[c] \notin S \ {d}
      BY <2>2, <3>1 DEF ControlCanReturn
    <3> QED
      BY <3>1, <3>2, <1>3, <1>7
  <2> QED
    BY <2>1, <2>2
<1> QED
  BY <1>5, <1>8, <1>9

\* Leaving the running coroutine, suspended or ended, gives control to the
\* coroutine before it in the chain.
LEMMA LeaveKeepsChain ==
    ASSUME CoTypeOK, CurrentIsRunning, OriginsFormAChain, ControlCanReturn,
           current # Main, NEW s \in {"suspended", "ended"},
           current' = origin[current], running' = swap_ctx[current],
           state' = [state EXCEPT ![current] = s],
           UNCHANGED <<origin, swap_ctx>>
    PROVE  CurrentIsRunning' /\ OriginsFormAChain' /\ ControlCanReturn'
<1> USE MainIsNoCid
<1>1. current \in Active /\ current \in Cid
  BY DEF CurrentIsRunning, Active, CoTypeOK, SwitchTypeOK, Stack
<1>2. Active' = Active \ {current}
  BY <1>1 DEF Active, CoTypeOK, SwitchTypeOK
<1>3. current' \in (Active \ {current}) \cup {Main} /\ current' = running'
  BY <1>1 DEF OriginsFormAChain
<1>4. CurrentIsRunning'
  BY <1>2, <1>3 DEF CurrentIsRunning, Active
<1>5. OriginsFormAChain'
  BY <1>1, <1>2 DEF OriginsFormAChain
<1>6. ControlCanReturn'
  BY <1>2 DEF ControlCanReturn
<1> QED
  BY <1>4, <1>5, <1>6

\* Every operation keeps the switches in order.
LEMMA SwitchStep == CoTypeOK /\ SwitchInv /\ [CoNext]_coVars => SwitchInv'
<1> SUFFICES ASSUME CoTypeOK, SwitchInv, [CoNext]_coVars PROVE SwitchInv'
  OBVIOUS
<1> USE MainIsNoCid, CoroutineConstants DEF SwitchInv
<1>u. ASSUME UNCHANGED switchVars PROVE SwitchInv'
  <2>1. Active' = Active
    BY <1>u DEF switchVars, Active
  <2> QED
    BY <1>u, <2>1 DEF switchVars, CurrentIsRunning, OriginsFormAChain,
                      ControlCanReturn, FreshCids
<1>1. CASE create
  <2>1. last_cid \in Nat /\ last_cid + 1 \in Cid
    BY <1>1 DEF create, CoTypeOK, SwitchTypeOK, Cid
  <2>2. state[last_cid + 1] = "none"
    BY <2>1 DEF FreshCids
  <2>3. CurrentIsRunning' /\ OriginsFormAChain' /\ ControlCanReturn'
    BY <1>1, <2>1, <2>2, EnterKeepsChain DEF create
  <2>4. FreshCids'
    BY <1>1, <2>1 DEF create, swap_in, FreshCids, CoTypeOK, SwitchTypeOK, Cid
  <2> QED
    BY <2>3, <2>4
<1>2. CASE yield
  <2>1. CASE current = Main
    BY <1>2, <2>1, <1>u DEF yield, Die
  <2>2. CASE current # Main
    <3>1. CurrentIsRunning' /\ OriginsFormAChain' /\ ControlCanReturn'
      BY <1>2, <2>2, LeaveKeepsChain DEF yield
    <3>2. current \in Cid /\ state[current] = "active"
      BY <2>2 DEF CurrentIsRunning, CoTypeOK, SwitchTypeOK, Stack
    <3>3. FreshCids'
      BY <1>2, <2>2, <3>2 DEF yield, FreshCids, CoTypeOK, SwitchTypeOK
    <3> QED
      BY <3>1, <3>3
  <2> QED
    BY <2>1, <2>2
<1>3. ASSUME NEW d \in Cid, NEW byCid \in BOOLEAN, resume(d, byCid)
      PROVE  SwitchInv'
  <2>1. CASE state[d] = "suspended"
    <3>1. CurrentIsRunning' /\ OriginsFormAChain' /\ ControlCanReturn'
      BY <1>3, <2>1, EnterKeepsChain DEF resume
    <3>2. FreshCids'
      BY <1>3, <2>1 DEF resume, swap_in, FreshCids, CoTypeOK, SwitchTypeOK
    <3> QED
      BY <3>1, <3>2
  <2>2. CASE state[d] # "suspended"
    BY <1>3, <2>2, <1>u DEF resume, Die
  <2> QED
    BY <2>1, <2>2
<1>4. CASE defer
  BY <1>4, <1>u DEF defer, Die
<1>5. CASE return_fn
  BY <1>5, <1>u DEF return_fn
<1>6. CASE execute_defer_tasks
  BY <1>6, <1>u DEF execute_defer_tasks
<1>7. CASE context_end
  <2>1. current = running /\ current # Main
    BY <1>7 DEF context_end, CurrentIsRunning
  <2>2. CurrentIsRunning' /\ OriginsFormAChain' /\ ControlCanReturn'
    BY <1>7, <2>1, LeaveKeepsChain DEF context_end
  <2>3. current \in Cid /\ state[current] = "active"
    BY <2>1 DEF CurrentIsRunning, CoTypeOK, SwitchTypeOK, Stack
  <2>4. FreshCids'
    BY <1>7, <2>1, <2>3 DEF context_end, FreshCids, CoTypeOK, SwitchTypeOK
  <2> QED
    BY <2>2, <2>4
<1>8. CASE UNCHANGED coVars
  BY <1>8, <1>u DEF coVars
<1> QED
  BY <1>1, <1>2, <1>3, <1>4, <1>5, <1>6, <1>7, <1>8 DEF CoNext

\* The initial state satisfies the invariant.
LEMMA SwitchInit == CoInit => SwitchInv
<1> SUFFICES ASSUME CoInit PROVE SwitchInv
  OBVIOUS
<1>1. Active = {}
  BY DEF CoInit, Active
<1> QED
  BY <1>1 DEF CoInit, SwitchInv, CurrentIsRunning, OriginsFormAChain,
              ControlCanReturn, FreshCids

\* The bookkeeping of the switches is right at every step of every program.
THEOREM SwitchesCorrect == CoSpec => []SwitchInv
<1>1. SwitchInv /\ CoTypeOK /\ [CoNext]_coVars => SwitchInv'
  BY SwitchStep
<1> QED
  BY <1>1, SwitchInit, TypeCorrect, PTL DEF CoSpec

\* Coroutine::current always names the stack that runs.
THEOREM CurrentCorrect == CoSpec => []CurrentIsRunning
<1>1. SwitchInv => CurrentIsRunning
  BY DEF SwitchInv
<1> QED
  BY <1>1, SwitchesCorrect, PTL

\* The resumers of the active coroutines always form one chain.
THEOREM ChainCorrect == CoSpec => []OriginsFormAChain
<1>1. SwitchInv => OriginsFormAChain
  BY DEF SwitchInv
<1> QED
  BY <1>1, SwitchesCorrect, PTL

\* That chain has no cycle: control can always return to the main stack.
THEOREM ReturnCorrect == CoSpec => []ControlCanReturn
<1>1. SwitchInv => ControlCanReturn
  BY DEF SwitchInv
<1> QED
  BY <1>1, SwitchesCorrect, PTL

-----------------------------------------------------------------------------
(* What the operations do to the states, for the modules that build on them *)

\* On the main stack no coroutine is active: nobody waits below it.
LEMMA MainMeansNoneActive ==
    ASSUME SwitchInv, current = Main
    PROVE  Active = {}
<1> SUFFICES ASSUME Active # {} PROVE FALSE
  OBVIOUS
<1>1. \A c \in Active : origin[c] \in Active
  BY DEF SwitchInv, OriginsFormAChain
<1> QED
  BY <1>1 DEF SwitchInv, ControlCanReturn

\* What a switch does to the states of the coroutines.
LEMMA YieldEffect ==
    ASSUME CoInv, NEW c \in Cid, running = c, yield
    PROVE  /\ state' = [state EXCEPT ![c] = "suspended"]
           /\ fault' = fault /\ state[c] = "active"
BY MainIsNoCid DEF CoInv, SwitchInv, CurrentIsRunning, yield

LEMMA CreateEffect ==
    ASSUME CoInv, create
    PROVE  /\ last_cid + 1 \in Cid /\ state[last_cid + 1] = "none"
           /\ state' = [state EXCEPT ![last_cid + 1] = "active"]
           /\ running' = last_cid + 1 /\ fault' = fault
<1>1. last_cid \in Nat /\ last_cid + 1 \in Cid
  BY CoroutineConstants DEF create, CoInv, CoTypeOK, SwitchTypeOK, Cid
<1> QED
  BY <1>1 DEF create, swap_in, CoInv, SwitchInv, FreshCids

LEMMA ResumeEffect ==
    ASSUME NEW d \in Cid, NEW byCid \in BOOLEAN, state[d] = "suspended", resume(d, byCid)
    PROVE  /\ state' = [state EXCEPT ![d] = "active"]
           /\ running' = d /\ fault' = fault
BY DEF resume, swap_in

LEMMA EndEffect ==
    ASSUME CoInv, NEW c \in Cid, running = c, context_end
    PROVE  /\ state' = [state EXCEPT ![c] = "ended"]
           /\ fault' = fault /\ state[c] = "active"
BY MainIsNoCid DEF context_end, CoInv, SwitchInv, CurrentIsRunning

-----------------------------------------------------------------------------
(* Deferred tasks *)

\* Of the tasks a coroutine has registered, d wait and r were run: those that
\* wait are in the order of registration, none is there twice or missing.
TasksInOrder(d) == \A i, j \in 1 .. Len(d) : i < j => d[i] < d[j]
TasksOnce(d, r) ==
    /\ \A i, j \in 1 .. Len(r) : r[i] = r[j] => i = j
    /\ \A i \in 1 .. Len(d), j \in 1 .. Len(r) : d[i] # r[j]
TasksKnown(d, r) ==
    /\ \A i \in 1 .. Len(d) : d[i] <= Len(d) + Len(r)
    /\ \A i \in 1 .. Len(r) : r[i] <= Len(d) + Len(r)
    /\ \A t \in 1 .. Len(d) + Len(r) :
          (\E i \in 1 .. Len(d) : d[i] = t) \/ (\E i \in 1 .. Len(r) : r[i] = t)
TasksKept(d, r) == TasksInOrder(d) /\ TasksOnce(d, r) /\ TasksKnown(d, r)

\* The inductive invariant of the deferred tasks.
DeferInv ==
    /\ \A c \in Cid : TasksKept(defer_tasks[c], ran[c])
    /\ \A c \in Cid : state[c] = "ended" => defer_tasks[c] = << >>

\* The tasks are numbers.
LEMMA TasksAreNumbers ==
    ASSUME NEW T, T \subseteq Nat, NEW s \in Seq(T)
    PROVE  s \in Seq(Nat) /\ Len(s) \in Nat
<1>1. Len(s) \in Nat /\ s \in [1 .. Len(s) -> T]
  OBVIOUS
<1>2. s \in [1 .. Len(s) -> Nat]
  BY <1>1
<1> QED
  BY <1>1, <1>2

\* Registering a task with the next number keeps the tasks in order.
LEMMA TaskRegistered ==
    ASSUME NEW d \in Seq(Nat), NEW r \in Seq(Nat), TasksKept(d, r)
    PROVE  TasksKept(Append(d, Len(d) + Len(r) + 1), r)
<1> DEFINE n == Len(d) + Len(r) + 1
           e == Append(d, n)
<1>1. /\ Len(d) \in Nat /\ Len(r) \in Nat /\ n \in Nat /\ Len(e) = Len(d) + 1
      /\ \A i \in 1 .. Len(d) : e[i] = d[i]
      /\ e[Len(d) + 1] = n
  OBVIOUS
<1>2. /\ \A i \in 1 .. Len(d) : d[i] \in Nat /\ d[i] < n
      /\ \A i \in 1 .. Len(r) : r[i] \in Nat /\ r[i] < n
  BY <1>1 DEF TasksKept, TasksKnown
<1>3. Len(e) + Len(r) = n
  BY <1>1
<1>4. \A i \in 1 .. Len(e) : i \in 1 .. Len(d) \/ i = Len(d) + 1
  BY <1>1
<1> HIDE DEF e
<1>5. TasksInOrder(e)
  <2> SUFFICES ASSUME NEW i \in 1 .. Len(e), NEW j \in 1 .. Len(e), i < j PROVE e[i] < e[j]
    BY DEF TasksInOrder
  <2>1. i \in 1 .. Len(d)
    BY <1>1
  <2>2. CASE j \in 1 .. Len(d)
    BY <2>1, <2>2, <1>1 DEF TasksKept, TasksInOrder
  <2>3. CASE j = Len(d) + 1
    <3>1. e[j] = n /\ e[i] = d[i]
      BY <2>1, <2>3, <1>1
    <3> QED
      BY <2>1, <3>1, <1>2
  <2> QED
    BY <2>2, <2>3, <1>4
<1>6. TasksOnce(e, r)
  <2>1. ASSUME NEW i \in 1 .. Len(e), NEW j \in 1 .. Len(r) PROVE e[i] # r[j]
    <3>1. CASE i \in 1 .. Len(d)
      BY <3>1, <1>1 DEF TasksKept, TasksOnce
    <3>2. CASE i = Len(d) + 1
      <4>1. e[i] = n
        BY <3>2, <1>1
      <4> QED
        BY <4>1, <1>1, <1>2
    <3> QED
      BY <3>1, <3>2, <1>4
  <2> QED
    BY <2>1 DEF TasksKept, TasksOnce
<1>7. TasksKnown(e, r)
  <2>1. ASSUME NEW i \in 1 .. Len(e) PROVE e[i] <= n
    <3>1. CASE i \in 1 .. Len(d)
      <4>1. e[i] = d[i] /\ d[i] \in Nat /\ d[i] < n /\ n \in Nat
        BY <3>1, <1>1, <1>2
      <4> HIDE DEF n
      <4> QED
        BY <4>1
    <3>2. CASE i = Len(d) + 1
      <4>1. e[i] = n
        BY <3>2, <1>1
      <4> QED
        BY <4>1, <1>1
    <3> QED
      BY <3>1, <3>2, <1>4
  <2>2. \A i \in 1 .. Len(r) : r[i] <= n
    BY <1>1, <1>2
  <2>3. ASSUME NEW t \in 1 .. n
        PROVE  (\E i \in 1 .. Len(e) : e[i] = t) \/ (\E i \in 1 .. Len(r) : r[i] = t)
    <3>1. CASE t = n
      <4>1. Len(d) + 1 \in 1 .. Len(e)
        BY <1>1
      <4> QED
        BY <3>1, <4>1, <1>1
    <3>2. CASE t \in 1 .. Len(d) + Len(r)
      <4>1. (\E i \in 1 .. Len(d) : d[i] = t) \/ (\E i \in 1 .. Len(r) : r[i] = t)
        BY <3>2 DEF TasksKept, TasksKnown
      <4>2. \A i \in 1 .. Len(d) : i \in 1 .. Len(e) /\ e[i] = d[i]
        BY <1>1
      <4> QED
        BY <4>1, <4>2
    <3> QED
      BY <3>1, <3>2, <1>1
  <2> HIDE DEF n
  <2> QED
    BY <2>1, <2>2, <2>3, <1>3 DEF TasksKnown
<1> QED
  BY <1>5, <1>6, <1>7 DEF TasksKept, e

\* The task on top of the stack is the newest; running it keeps the order.
LEMMA TaskRun ==
    ASSUME NEW d \in Seq(Nat), NEW r \in Seq(Nat), TasksKept(d, r), d # << >>
    PROVE  /\ TasksKept(SubSeq(d, 1, Len(d) - 1), Append(r, d[Len(d)]))
           /\ \A i \in 1 .. Len(SubSeq(d, 1, Len(d) - 1)) :
                 SubSeq(d, 1, Len(d) - 1)[i] < d[Len(d)]
<1> DEFINE e == SubSeq(d, 1, Len(d) - 1)
           top == d[Len(d)]
           s == Append(r, top)
<1>1. Len(d) \in Nat \ {0} /\ Len(r) \in Nat /\ top \in Nat
  OBVIOUS
<1>2. Len(e) = Len(d) - 1 /\ \A i \in 1 .. Len(d) - 1 : e[i] = d[i]
  <2>1. Len(d) - 1 \in Nat /\ d \in [1 .. Len(d) -> Nat]
    BY <1>1
  <2>2. Len(e) = Len(d) - 1
    BY <1>1, <2>1
  <2>3. \A i \in 1 .. Len(d) - 1 : e[i] = d[i]
    BY <1>1, <2>1
  <2> QED
    BY <2>2, <2>3
<1>3. /\ Len(s) = Len(r) + 1 /\ s[Len(r) + 1] = top
      /\ \A i \in 1 .. Len(r) : s[i] = r[i]
  BY <1>1
<1> HIDE DEF e, s, top
<1>4. /\ Len(e) + Len(s) = Len(d) + Len(r)
      /\ \A i \in 1 .. Len(e) : i \in 1 .. Len(d) /\ i < Len(d) /\ e[i] = d[i]
      /\ Len(d) \in 1 .. Len(d)
      /\ \A i \in 1 .. Len(s) : i \in 1 .. Len(r) \/ i = Len(r) + 1
  BY <1>1, <1>2, <1>3
<1>5. \A i \in 1 .. Len(e) : e[i] < top
  BY <1>4 DEF TasksKept, TasksInOrder, top
<1>6. TasksInOrder(e)
  BY <1>4 DEF TasksKept, TasksInOrder
<1>n. (\A i \in 1 .. Len(d) : d[i] \in Nat) /\ \A i \in 1 .. Len(r) : top # r[i]
  <2>1. \A i \in 1 .. Len(d) : d[i] \in Nat
    OBVIOUS
  <2>2. \A i \in 1 .. Len(r) : top # r[i]
    BY <1>4 DEF TasksKept, TasksOnce, top
  <2> QED
    BY <2>1, <2>2
<1>7. TasksOnce(e, s)
  <2>1. ASSUME NEW i \in 1 .. Len(s), NEW j \in 1 .. Len(s), s[i] = s[j] PROVE i = j
    <3>1. CASE i \in 1 .. Len(r) /\ j \in 1 .. Len(r)
      BY <3>1, <2>1, <1>3 DEF TasksKept, TasksOnce
    <3>2. CASE i \in 1 .. Len(r) /\ j = Len(r) + 1
      BY <3>2, <2>1, <1>3, <1>n
    <3>3. CASE i = Len(r) + 1 /\ j \in 1 .. Len(r)
      BY <3>3, <2>1, <1>3, <1>n
    <3> QED
      BY <3>1, <3>2, <3>3, <1>4
  <2>2. ASSUME NEW i \in 1 .. Len(e), NEW j \in 1 .. Len(s) PROVE e[i] # s[j]
    <3>1. CASE j \in 1 .. Len(r)
      BY <3>1, <1>3, <1>4 DEF TasksKept, TasksOnce
    <3>2. CASE j = Len(r) + 1
      <4>1. s[j] = top /\ e[i] < top /\ e[i] \in Nat
        BY <3>2, <1>3, <1>4, <1>5, <1>n
      <4> QED
        BY <4>1, <1>1
    <3> QED
      BY <3>1, <3>2, <1>4
  <2> QED
    BY <2>1, <2>2 DEF TasksOnce
<1>8. TasksKnown(e, s)
  <2>1. \A i \in 1 .. Len(e) : e[i] <= Len(d) + Len(r)
    BY <1>4 DEF TasksKept, TasksKnown
  <2>2. \A i \in 1 .. Len(s) : s[i] <= Len(d) + Len(r)
    <3>1. top <= Len(d) + Len(r)
      BY <1>4 DEF TasksKept, TasksKnown, top
    <3> QED
      BY <3>1, <1>3, <1>4 DEF TasksKept, TasksKnown
  <2>3. ASSUME NEW t \in 1 .. Len(d) + Len(r)
        PROVE  (\E i \in 1 .. Len(e) : e[i] = t) \/ (\E i \in 1 .. Len(s) : s[i] = t)
    <3>1. CASE \E i \in 1 .. Len(r) : r[i] = t
      <4>1. \A i \in 1 .. Len(r) : i \in 1 .. Len(s) /\ s[i] = r[i]
        BY <1>1, <1>3
      <4> QED
        BY <3>1, <4>1
    <3>2. ASSUME NEW i \in 1 .. Len(d), d[i] = t
          PROVE  (\E k \in 1 .. Len(e) : e[k] = t) \/ (\E k \in 1 .. Len(s) : s[k] = t)
      <4>1. CASE i = Len(d)
        <5>1. Len(r) + 1 \in 1 .. Len(s) /\ s[Len(r) + 1] = t
          BY <3>2, <4>1, <1>1, <1>3 DEF top
        <5> QED
          BY <5>1
      <4>2. CASE i # Len(d)
        <5>1. i \in 1 .. Len(e) /\ e[i] = t
          BY <3>2, <4>2, <1>1, <1>2
        <5> QED
          BY <5>1
      <4> QED
        BY <4>1, <4>2
    <3>3. (\E i \in 1 .. Len(d) : d[i] = t) \/ (\E i \in 1 .. Len(r) : r[i] = t)
      BY DEF TasksKept, TasksKnown
    <3> QED
      BY <3>1, <3>2, <3>3
  <2> QED
    BY <2>1, <2>2, <2>3, <1>4 DEF TasksKnown
<1> QED
  BY <1>5, <1>6, <1>7, <1>8 DEF TasksKept, e, s, top

\* Every operation keeps the tasks in order.  A task is registered by the
\* coroutine that runs, and an ended one never runs again (SwitchInv).
LEMMA DeferStep ==
    ASSUME CoInv, DeferInv, [CoNext]_coVars
    PROVE  /\ DeferInv'
           /\ \A c \in Cid : Len(ran'[c]) > Len(ran[c]) =>
                 \A i \in 1 .. Len(defer_tasks'[c]) :
                    defer_tasks'[c][i] < ran'[c][Len(ran'[c])]
<1> DEFINE Newest == \A c \in Cid : Len(ran'[c]) > Len(ran[c]) =>
                        \A i \in 1 .. Len(defer_tasks'[c]) :
                           defer_tasks'[c][i] < ran'[c][Len(ran'[c])]
<1> USE MainIsNoCid
<1>t. /\ state \in [Cid -> {"none", "active", "suspended", "ended"}]
      /\ defer_tasks \in [Cid -> Seq(1 .. MaxDefer)] /\ ran \in [Cid -> Seq(1 .. MaxDefer)]
      /\ current = running /\ running \in Stack
      /\ running # Main => running \in Cid /\ state[running] = "active"
  BY DEF CoInv, CoTypeOK, SwitchTypeOK, DeferTypeOK, SwitchInv, CurrentIsRunning, Stack
<1>q. \A c \in Cid : defer_tasks[c] \in Seq(Nat) /\ ran[c] \in Seq(Nat) /\ Len(ran[c]) \in Nat
  <2> SUFFICES ASSUME NEW c \in Cid
               PROVE  defer_tasks[c] \in Seq(Nat) /\ ran[c] \in Seq(Nat) /\ Len(ran[c]) \in Nat
    OBVIOUS
  <2>1. defer_tasks[c] \in Seq(1 .. MaxDefer) /\ ran[c] \in Seq(1 .. MaxDefer)
    BY <1>t
  <2>2. 1 .. MaxDefer \subseteq Nat
    BY CoroutineConstants
  <2> QED
    BY <2>1, <2>2, TasksAreNumbers
\* Steps that touch no task.
<1>u. ASSUME UNCHANGED <<defer_tasks, ran>>,
             \A c \in Cid : state'[c] = "ended" => state[c] = "ended" \/ defer_tasks[c] = << >>
      PROVE  DeferInv' /\ Newest
  <2>1. DeferInv'
    BY <1>u DEF DeferInv
  <2>2. Newest
    BY <1>u, <1>q
  <2> QED
    BY <2>1, <2>2
<1>d. ASSUME NEW f, Die(f) PROVE DeferInv' /\ Newest
  BY <1>d, <1>u DEF Die, switchVars, deferVars
<1>1. CASE create
  BY <1>1, <1>t, <1>u DEF create, swap_in, deferVars
<1>2. CASE yield
  BY <1>2, <1>t, <1>u, <1>d DEF yield, deferVars
<1>3. CASE \E d \in Cid, byCid \in BOOLEAN : resume(d, byCid)
  BY <1>3, <1>t, <1>u, <1>d DEF resume, swap_in, deferVars
<1>4. CASE defer
  <2>1. CASE current = Main
    BY <2>1, <1>4, <1>d DEF defer
  <2>2. CASE current # Main
    <3> DEFINE c == current
               d == Append(defer_tasks[c], Registered(c) + 1)
    <3>1. c \in Cid /\ state[c] = "active"
      BY <2>2, <1>t
    <3>2. /\ defer_tasks' = [defer_tasks EXCEPT ![c] = d] /\ UNCHANGED <<ran, state>>
      BY <2>2, <1>4 DEF defer, switchVars
    <3>3. TasksKept(d, ran[c])
      BY <3>1, <1>q, TaskRegistered DEF DeferInv, Registered
    <3> HIDE DEF c, d
    <3>4. DeferInv'
      BY <3>1, <3>2, <3>3, <1>t DEF DeferInv
    <3>5. Newest
      BY <3>2, <1>q
    <3> QED
      BY <3>4, <3>5
  <2> QED
    BY <2>1, <2>2
<1>5. CASE return_fn
  BY <1>5, <1>u DEF return_fn, switchVars
<1>6. CASE execute_defer_tasks
  <2> DEFINE c == running
             d == SubSeq(defer_tasks[c], 1, Len(defer_tasks[c]) - 1)
             top == defer_tasks[c][Len(defer_tasks[c])]
             r == Append(ran[c], top)
  <2>1. c \in Cid /\ state[c] = "active" /\ defer_tasks[c] # << >>
    BY <1>6, <1>t DEF execute_defer_tasks
  <2>2. /\ defer_tasks' = [defer_tasks EXCEPT ![c] = d] /\ ran' = [ran EXCEPT ![c] = r]
        /\ UNCHANGED state
    BY <1>6 DEF execute_defer_tasks, switchVars
  <2>3. TasksKept(d, r) /\ \A i \in 1 .. Len(d) : d[i] < top
    BY <2>1, <1>q, TaskRun DEF DeferInv
  <2>4. r[Len(r)] = top
    <3>1. top \in Nat
      BY <2>1, <1>q, PopTask
    <3> HIDE DEF top
    <3> QED
      BY <3>1, <2>1, <1>q
  <2> HIDE DEF c, d, r, top
  <2>5. DeferInv'
    BY <2>1, <2>2, <2>3, <1>t DEF DeferInv
  <2>6. Newest
    <3> SUFFICES ASSUME NEW b \in Cid, Len(ran'[b]) > Len(ran[b])
                 PROVE  \A i \in 1 .. Len(defer_tasks'[b]) :
                           defer_tasks'[b][i] < ran'[b][Len(ran'[b])]
      OBVIOUS
    <3>1. b = c
      BY <2>1, <2>2, <1>t, <1>q
    <3>2. defer_tasks'[b] = d /\ ran'[b] = r
      BY <3>1, <2>1, <2>2, <1>t
    <3> QED
      BY <3>2, <2>3, <2>4
  <2> QED
    BY <2>5, <2>6
<1>7. CASE context_end
  BY <1>7, <1>t, <1>u DEF context_end, deferVars
<1>8. CASE UNCHANGED coVars
  BY <1>8, <1>u DEF coVars, switchVars, deferVars
<1> QED
  BY <1>1, <1>2, <1>3, <1>4, <1>5, <1>6, <1>7, <1>8 DEF CoNext

LEMMA DeferInit == CoInit => DeferInv
<1> SUFFICES ASSUME CoInit, NEW c \in Cid
             PROVE  TasksKept(defer_tasks[c], ran[c]) /\ state[c] # "ended"
  BY DEF DeferInv
<1>1. defer_tasks[c] = << >> /\ ran[c] = << >> /\ state[c] = "none"
  BY DEF CoInit
<1> QED
  BY <1>1 DEF TasksKept, TasksInOrder, TasksOnce, TasksKnown

\* The tasks a coroutine registered are at every moment split between those
\* that wait, in the order of registration, and those that ran, each once.
THEOREM TasksCorrect == CoSpec => []DeferInv
<1>1. CoTypeOK /\ SwitchInv /\ DeferInv /\ [CoNext]_coVars => DeferInv'
  BY DeferStep DEF CoInv
<1> QED
  BY <1>1, DeferInit, TypeCorrect, SwitchesCorrect, PTL DEF CoSpec

\* A coroutine that has ended ran each task it deferred exactly once, however
\* tasks deferred others, yielded or were interleaved with other coroutines.
THEOREM DeferredCorrect == CoSpec => []DeferredRunOnce
<1>1. ASSUME CoTypeOK, DeferInv PROVE DeferredRunOnce
  <2> SUFFICES ASSUME NEW c \in Cid, state[c] = "ended", NEW t \in 1 .. Registered(c)
               PROVE  Cardinality({i \in 1 .. Len(ran[c]) : ran[c][i] = t}) = 1
    BY <1>1 DEF DeferredRunOnce, DeferInv
  <2>1. defer_tasks[c] = << >> /\ TasksKept(defer_tasks[c], ran[c])
    BY <1>1 DEF DeferInv
  <2>2. Len(defer_tasks[c]) = 0 /\ Registered(c) = Len(defer_tasks[c]) + Len(ran[c])
    BY <2>1 DEF Registered
  <2>3. \E i \in 1 .. Len(ran[c]) : ran[c][i] = t
    BY <2>1, <2>2 DEF TasksKept, TasksKnown
  <2>4. PICK i \in 1 .. Len(ran[c]) : ran[c][i] = t
    BY <2>3
  <2>5. {k \in 1 .. Len(ran[c]) : ran[c][k] = t} = {i}
    BY <2>1, <2>4 DEF TasksKept, TasksOnce
  <2> QED
    BY <2>5, FS_Singleton
<1> QED
  BY <1>1, TasksCorrect, TypeCorrect, PTL

\* Of the tasks of a coroutine that wait, the one registered last runs first.
THEOREM DeferOrderCorrect == CoSpec => DeferLIFO
<1>1. CoTypeOK /\ SwitchInv /\ DeferInv /\ [CoNext]_coVars =>
        [\A c \in Cid : Len(ran'[c]) > Len(ran[c]) =>
            \A i \in 1 .. Len(defer_tasks'[c]) :
                defer_tasks'[c][i] < ran'[c][Len(ran'[c])]]_coVars
  BY DeferStep DEF CoInv
<1> QED
  BY <1>1, TasksCorrect, TypeCorrect, SwitchesCorrect, PTL DEF CoSpec, DeferLIFO
=============================================================================
