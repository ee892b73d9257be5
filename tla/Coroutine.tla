----------------------------- MODULE Coroutine -----------------------------
(***************************************************************************)
(* The stackful coroutines of fsw: class Coroutine                         *)
(* (src/coroutine/coroutine.cc, include/coroutine.h) and the machine       *)
(* context under it (src/coroutine/context.cc).                            *)
(*                                                                         *)
(* There is one thread.  It always executes exactly one stack: the main    *)
(* stack or the stack of one coroutine; that is `running', a fact about    *)
(* the machine and not a variable of the program.  The program keeps its   *)
(* own idea of it in the static pointer `current' (nullptr, written Main   *)
(* here, on the main stack), and every switch has to keep the two equal,   *)
(* across any nesting of creates and resumes.                              *)
(*                                                                         *)
(* A coroutine is named by its cid.  The operations are total: called      *)
(* where the code would fail an assertion, dereference nullptr, use a      *)
(* deleted object or jump to a stale context, they set `fault', and the    *)
(* program does nothing more.                                              *)
(***************************************************************************)
EXTENDS Naturals, Sequences, FiniteSets

CONSTANTS MaxCid,    \* bound: coroutines created in one behaviour
          MaxDefer   \* bound: tasks one coroutine defers

ASSUME CoroutineConstants == MaxCid \in Nat \ {0} /\ MaxDefer \in Nat

Main == 0            \* nullptr as a Coroutine*, and the main stack
Cid  == 1 .. MaxCid
Stack == Cid \cup {Main}

VARIABLES
    current,      \* Coroutine::current
    running,      \* the stack the thread executes
    origin,       \* Coroutine::origin of each coroutine
    swap_ctx,     \* Context::swap_ctx_: the stack that swap_in left
    state,        \* none, active, suspended or ended (the object is deleted)
    last_cid,     \* Coroutine::last_cid
    phase,        \* context_func: inside fn_() or in execute_defer_tasks()
    defer_tasks,  \* Context::defer_tasks, the top of the stack last
    ran,          \* history: the deferred tasks run so far, in order
    fault         \* none, or why the program died

switchVars == <<current, running, origin, swap_ctx, state, last_cid>>
deferVars  == <<phase, defer_tasks, ran>>
coVars     == <<switchVars, deferVars, fault>>

Faults == {"assert", "null", "dangling", "reentry"}

SwitchTypeOK ==
    /\ current \in Stack /\ running \in Stack
    /\ origin \in [Cid -> Stack]
    /\ swap_ctx \in [Cid -> Stack]
    /\ state \in [Cid -> {"none", "active", "suspended", "ended"}]
    /\ last_cid \in 0 .. MaxCid

DeferTypeOK ==
    /\ phase \in [Cid -> {"fn", "defer"}]
    /\ defer_tasks \in [Cid -> Seq(1 .. MaxDefer)]
    /\ ran \in [Cid -> Seq(1 .. MaxDefer)]

CoTypeOK == SwitchTypeOK /\ DeferTypeOK /\ fault \in Faults \cup {"none"}

CoInit ==
    /\ current = Main /\ running = Main
    /\ origin = [c \in Cid |-> Main]
    /\ swap_ctx = [c \in Cid |-> Main]
    /\ state = [c \in Cid |-> "none"]
    /\ last_cid = 0
    /\ phase = [c \in Cid |-> "fn"]
    /\ defer_tasks = [c \in Cid |-> << >>]
    /\ ran = [c \in Cid |-> << >>]
    /\ fault = "none"

-----------------------------------------------------------------------------
(* Switching stacks *)

\* Coroutine::coroutines, the map get_by_cid searches, and its active part.
coroutines == {c \in Cid : state[c] \in {"active", "suspended"}}
Active     == {c \in Cid : state[c] = "active"}
Suspended  == {c \in Cid : state[c] = "suspended"}

\* Mutant: the switch forgets who resumed the coroutine.
swap_in_keeps_old_origin(d) ==
    /\ origin' = [origin EXCEPT ![d] = IF state[d] = "none" THEN current ELSE @]
    /\ current' = d
    /\ swap_ctx' = [swap_ctx EXCEPT ![d] = running]
    /\ running' = d
    /\ state' = [state EXCEPT ![d] = "active"]

\* Mutant: current = this; origin = current; in this order.
swap_in_current_first(d) ==
    /\ origin' = [origin EXCEPT ![d] = d]
    /\ current' = d
    /\ swap_ctx' = [swap_ctx EXCEPT ![d] = running]
    /\ running' = d
    /\ state' = [state EXCEPT ![d] = "active"]

\* The common part of run() and _resume(): origin = current; current = this;
\* ctx.swap_in(), which saves the stack it leaves in swap_ctx_.
swap_in(d) ==
    /\ origin' = [origin EXCEPT ![d] = current]
    /\ current' = d
    /\ swap_ctx' = [swap_ctx EXCEPT ![d] = running]
    /\ running' = d
    /\ state' = [state EXCEPT ![d] = "active"]

Die(f) == /\ fault' = f
          /\ UNCHANGED <<switchVars, deferVars>>

\* Mutant: the constructor and create both advance last_cid.
create_counts_twice ==
    /\ last_cid < MaxCid
    /\ last_cid' = last_cid + 2
    /\ swap_in(last_cid + 1)
    /\ UNCHANGED <<deferVars, fault>>

\* Coroutine::create: ++last_cid, enter the map, run() at once.
create ==
    /\ last_cid < MaxCid
    /\ last_cid' = last_cid + 1
    /\ swap_in(last_cid + 1)
    /\ UNCHANGED <<deferVars, fault>>

\* Mutant: the stack is switched and current is left as it was.
yield_keeps_current ==
    /\ current # Main
    /\ running' = swap_ctx[current]
    /\ state' = [state EXCEPT ![current] = "suspended"]
    /\ UNCHANGED <<current, origin, swap_ctx, last_cid, deferVars, fault>>

\* Coroutine::yield and _yield; outside a coroutine `co' is nullptr.
yield ==
    IF current = Main
    THEN Die("null")
    ELSE /\ current' = origin[current]
         /\ running' = swap_ctx[current]
         /\ state' = [state EXCEPT ![current] = "suspended"]
         /\ UNCHANGED <<origin, swap_ctx, last_cid, deferVars, fault>>

\* How resume(d) dies when d is not suspended.  A cid that is not in the map
\* gives nullptr; a Coroutine* that was kept is dangling once d has ended.  A
\* coroutine that is active below the running one has no saved context.
ResumeFault(d, byCid) ==
    CASE state[d] \in {"none", "ended"} -> IF byCid THEN "null" ELSE "dangling"
      [] d = current                    -> "assert"
      [] OTHER                          -> "reentry"

\* Coroutine::resume(long) (byCid) and resume(Coroutine *), and _resume().
resume(d, byCid) ==
    IF state[d] = "suspended"
    THEN swap_in(d) /\ UNCHANGED <<last_cid, deferVars, fault>>
    ELSE Die(ResumeFault(d, byCid))

-----------------------------------------------------------------------------
(* Deferred tasks and the end of a coroutine *)

Registered(c) == Len(defer_tasks[c]) + Len(ran[c])

\* Coroutine::defer pushes; the task is named by its order of registration.
defer ==
    IF current = Main
    THEN Die("null")
    ELSE /\ Registered(current) < MaxDefer
         /\ defer_tasks' = [defer_tasks EXCEPT
                               ![current] = Append(@, Registered(current) + 1)]
         /\ UNCHANGED <<switchVars, phase, ran, fault>>

\* context_func: fn_() returns and there are tasks to run.
return_fn ==
    /\ running # Main
    /\ phase[running] = "fn" /\ defer_tasks[running] # << >>
    /\ phase' = [phase EXCEPT ![running] = "defer"]
    /\ UNCHANGED <<switchVars, defer_tasks, ran, fault>>

\* Mutant: tasks are run first in, first out.
execute_defer_tasks_fifo ==
    /\ running # Main
    /\ phase[running] = "defer"
    /\ defer_tasks[running] # << >>
    /\ ran' = [ran EXCEPT ![running] = Append(@, Head(defer_tasks[running]))]
    /\ defer_tasks' = [defer_tasks EXCEPT ![running] = Tail(@)]
    /\ UNCHANGED <<switchVars, phase, fault>>

\* One turn of the loop of execute_defer_tasks: pop the top, then call it.
\* The task is ordinary code: it may defer, yield, create or resume.
execute_defer_tasks ==
    /\ running # Main
    /\ phase[running] = "defer"
    /\ LET tasks == defer_tasks[running] IN
       /\ tasks # << >>
       /\ ran' = [ran EXCEPT ![running] = Append(@, tasks[Len(tasks)])]
       /\ defer_tasks' = [defer_tasks EXCEPT
                             ![running] = SubSeq(tasks, 1, Len(tasks) - 1)]
    /\ UNCHANGED <<switchVars, phase, fault>>

\* Mutant: the context ends when the tasks deferred so far have been started.
context_end_early ==
    /\ running # Main
    /\ phase[running] = "defer" \/ defer_tasks[running] = << >>
    /\ current' = origin[running]
    /\ running' = swap_ctx[running]
    /\ state' = [state EXCEPT ![running] = "ended"]
    /\ UNCHANGED <<origin, swap_ctx, last_cid, deferVars, fault>>

\* context_func, nothing left to run after fn_() or after the last deferred
\* task: end_ = true; swap_out().  Back in run() or _resume() of the stack
\* that switched in: current = origin, erase the cid, delete this.
context_end ==
    /\ running # Main
    /\ defer_tasks[running] = << >>
    /\ current' = origin[running]
    /\ running' = swap_ctx[running]
    /\ state' = [state EXCEPT ![running] = "ended"]
    /\ UNCHANGED <<origin, swap_ctx, last_cid, deferVars, fault>>

-----------------------------------------------------------------------------
(* The most general client: whatever code runs may call anything. *)

CoNext ==
    /\ fault = "none"
    /\ \/ create
       \/ yield
       \/ \E d \in Cid, byCid \in BOOLEAN : resume(d, byCid)
       \/ defer
       \/ return_fn
       \/ execute_defer_tasks
       \/ context_end

CoSpec == CoInit /\ [][CoNext]_coVars

-----------------------------------------------------------------------------
(* Properties *)

\* Coroutine::current always names the coroutine whose stack the thread
\* really executes, whatever nesting of create, resume, yield and end led
\* there: the program's bookkeeping and the machine never part.
CurrentIsRunning ==
    /\ current = running
    /\ current = Main \/ state[current] = "active"

\* The resumers form one chain.  Every active coroutine was switched in by
\* the main stack or by another active coroutine, the saved machine context
\* is that of the coroutine recorded in origin, no two were switched in by
\* the same one, and the running coroutine waits for nobody.
OriginsFormAChain ==
    /\ \A c \in Active :
          /\ origin[c] \in Active \cup {Main}
          /\ origin[c] = swap_ctx[c]
          /\ origin[c] # current
    /\ \A c, d \in Active : origin[c] = origin[d] => c = d

\* No group of active coroutines waits only for members of the group, so the
\* chain of resumers always leads back to the main stack: every create and
\* every resume can return to its caller.
ControlCanReturn ==
    \A S \in SUBSET Active : S # {} => \E c \in S : origin[c] \notin S

\* A coroutine that has ended ran each task it deferred exactly once, the
\* tasks deferred from deferred tasks included.
DeferredRunOnce ==
    \A c \in Cid : state[c] = "ended" =>
        /\ defer_tasks[c] = << >>
        /\ \A t \in 1 .. Registered(c) :
              Cardinality({i \in 1 .. Len(ran[c]) : ran[c][i] = t}) = 1

\* Of the tasks of a coroutine that wait, the one registered last runs first
\* (docs/docs/coroutine.md: the example of defer prints 3, 2, 1).
DeferLIFO ==
    [][\A c \in Cid : Len(ran'[c]) > Len(ran[c]) =>
          \A i \in 1 .. Len(defer_tasks'[c]) :
              defer_tasks'[c][i] < ran'[c][Len(ran'[c])]]_coVars
=============================================================================
