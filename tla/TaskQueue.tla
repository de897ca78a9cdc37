----------------------------- MODULE TaskQueue -----------------------------
(***************************************************************************)
(* What EventLoop::queueInLoop promises its callers, with nothing said of  *)
(* threads, swaps or wakeups: functors are numbered in the order in which  *)
(* they were accepted, and the loop thread runs each of them exactly once, *)
(* in that order.                                                          *)
(***************************************************************************)
EXTENDS Naturals, Sequences

CONSTANT MaxFunctors   \* bound on the functors accepted in a behaviour

VARIABLES todo,        \* accepted and not yet run, oldest first
          ran          \* run so far, oldest first

taskVars == <<todo, ran>>

\* The number the next accepted functor gets.
NextFunctor == Len(ran) + Len(todo) + 1

TaskInit == todo = <<>> /\ ran = <<>>

Accept ==
  /\ NextFunctor <= MaxFunctors
  /\ todo' = Append(todo, NextFunctor)
  /\ ran' = ran

RunOldest ==
  /\ todo # <<>>
  /\ todo' = Tail(todo)
  /\ ran' = Append(ran, Head(todo))

TaskNext == Accept \/ RunOldest

TaskSpec == TaskInit /\ [][TaskNext]_taskVars

=============================================================================
