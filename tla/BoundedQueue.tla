---------------------------- MODULE BoundedQueue ----------------------------
(***************************************************************************)
(* What a channel promises its callers, without coroutines: a first-in     *)
(* first-out queue of at most Capacity items.  A call either completes at  *)
(* once or blocks and completes later; a push completes with its item      *)
(* queued or, having given up on a full queue, without; a pop completes    *)
(* with the oldest item or, having given up on an empty queue, without.    *)
(***************************************************************************)
EXTENDS Naturals, Sequences

CONSTANTS Client, Capacity,
          Call,       \* names of calls; a push's item is the name of its call
          CanGiveUp   \* whether calls may give up: FALSE without timeouts

VARIABLES queue,    \* the items, oldest first
          blocked,  \* per client: no, push or pop
          call,     \* per client: its current or last call
          result    \* per client: the outcome of its last completed call

qVars == <<queue, blocked, call, result>>

NoResult  == [op |-> "none", ok |-> FALSE, item |-> 0]
Pushed(v) == [op |-> "push", ok |-> TRUE, item |-> v]
Popped(v) == [op |-> "pop", ok |-> TRUE, item |-> v]
GaveUp(o) == [op |-> o, ok |-> FALSE, item |-> 0]

QInit ==
    /\ queue = << >>
    /\ blocked = [c \in Client |-> "no"]
    /\ call = [c \in Client |-> 0]
    /\ result = [c \in Client |-> NoResult]

Complete(c, r) == /\ result' = [result EXCEPT ![c] = r]
                  /\ blocked' = [blocked EXCEPT ![c] = "no"]

\* Push a fresh item at once.
Push(c, v) ==
    /\ blocked[c] = "no" /\ Len(queue) < Capacity
    /\ call' = [call EXCEPT ![c] = v]
    /\ queue' = Append(queue, v)
    /\ Complete(c, Pushed(v))

Pop(c, v) ==
    /\ blocked[c] = "no" /\ queue # << >>
    /\ call' = [call EXCEPT ![c] = v]
    /\ queue' = Tail(queue)
    /\ Complete(c, Popped(Head(queue)))

Block(c, o, v) ==
    /\ blocked[c] = "no"
    /\ IF o = "push" THEN Len(queue) = Capacity ELSE queue = << >>
    /\ call' = [call EXCEPT ![c] = v]
    /\ blocked' = [blocked EXCEPT ![c] = o]
    /\ result' = [result EXCEPT ![c] = NoResult]
    /\ UNCHANGED queue

FinishPush(c) ==
    /\ blocked[c] = "push" /\ Len(queue) < Capacity
    /\ queue' = Append(queue, call[c])
    /\ Complete(c, Pushed(call[c]))
    /\ UNCHANGED call

FinishPop(c) ==
    /\ blocked[c] = "pop" /\ queue # << >>
    /\ queue' = Tail(queue)
    /\ Complete(c, Popped(Head(queue)))
    /\ UNCHANGED call

GiveUp(c) ==
    /\ CanGiveUp
    /\ \/ blocked[c] = "push" /\ Len(queue) = Capacity
       \/ blocked[c] = "pop" /\ queue = << >>
    /\ Complete(c, GaveUp(blocked[c]))
    /\ UNCHANGED <<queue, call>>

QNext ==
    \E c \in Client :
       \/ \E v \in Call : Push(c, v) \/ Pop(c, v)
                         \/ Block(c, "push", v) \/ Block(c, "pop", v)
       \/ FinishPush(c)
       \/ FinishPop(c)
       \/ GiveUp(c)

QSpec == QInit /\ [][QNext]_qVars
=============================================================================
