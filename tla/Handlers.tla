------------------------------ MODULE Handlers ------------------------------
(***************************************************************************)
(* Handlers that emit signals, on one thread.  A signal is emitted from    *)
(* the middle of a handler, and the slot it runs may call back, or run an  *)
(* event loop of its own, before the handler goes on.                      *)
(*                                                                         *)
(* `stack' holds what the handlers still have to do after the emit they    *)
(* are in; its last element comes next.  A step is a record whose field    *)
(* `signal' tells what it does.                                            *)
(***************************************************************************)
EXTENDS Integers, Sequences

CONSTANT Depth      \* bound: host code runs when at most Depth steps are open

VARIABLES
    stack,      \* what the interrupted handlers have yet to do
    inSlot      \* a slot of the host runs on top of a non-empty stack

control == <<stack, inSlot>>

Rest == SubSeq(stack, 1, Len(stack) - 1)
NextUp(signal) == stack # <<>> /\ stack[Len(stack)].signal = signal
Top == stack[Len(stack)]

\* The handler goes on with fs, the last one first; a handler that has
\* nothing left to do returns to the slot that called it.
Continue(fs) ==
    /\ stack' = stack \o fs
    /\ inSlot' = (inSlot /\ fs = <<>>)

\* The top step is done, and the slot it ran has fs to do in its turn.
\* Without any, that slot is the host's.
Deliver(fs) ==
    /\ stack' = Rest \o fs
    /\ inSlot' = (Rest # <<>> /\ fs = <<>>)

\* Host code and event handlers run from the event loop, or inside a slot.
HostRuns ==
    /\ stack = <<>> \/ inSlot
    /\ Len(stack) <= Depth
=============================================================================
