----------------------------- MODULE CachedBind -----------------------------
(***************************************************************************)
(* cached_bind of cache.h: a function object that keeps the results of its *)
(* calls.  The bound function may throw, and it may call the same object   *)
(* again with other arguments (a memoised recursion), so that a call is    *)
(* two steps with others between them: stack holds the calls that are      *)
(* under way, the innermost last.                                          *)
(*                                                                         *)
(* cache_map[tu] = fn(...) has two operands.  C++17 evaluates the right    *)
(* one first; before it the order is the compiler's choice, and with the   *)
(* left one first the entry is there, with a default value, while fn runs. *)
(***************************************************************************)
EXTENDS Integers, Sequences

CONSTANTS
  Args,
  Result(_),     \* what the bound function returns
  Default,       \* result_type()
  Depth          \* bound: calls inside each other

VARIABLES
  left_first,    \* the compiler evaluates cache_map[tu] first; fixed
  cache_map,
  stack,         \* the arguments of the calls that wait for fn
  threw,         \* history: arguments of calls that fn has left by throwing
  answer         \* the last call that returned: [args, result]

bindvars == <<left_first, cache_map, stack, threw, answer>>

BindInit ==
  /\ left_first \in BOOLEAN
  /\ cache_map = <<>>
  /\ stack = <<>> /\ threw = {}
  /\ answer = <<>>

Inner == stack[Len(stack)]
Pop1 == stack' = SubSeq(stack, 1, Len(stack) - 1)
Store(args, r) ==
  cache_map' = [a \in DOMAIN cache_map \cup {args} |-> IF a = args THEN r ELSE cache_map[a]]

\* In the map: its value.
Hit(args) ==
  /\ args \in DOMAIN cache_map
  /\ answer' = [args |-> args, result |-> cache_map[args]]
  /\ UNCHANGED <<left_first, cache_map, stack, threw>>

\* Not in the map: fn is called.
Miss(args) ==
  /\ args \notin DOMAIN cache_map
  /\ Len(stack) < Depth
  /\ stack' = Append(stack, args)
  /\ IF left_first THEN Store(args, Default) ELSE UNCHANGED cache_map
  /\ UNCHANGED <<left_first, threw, answer>>

\* Fault: the result is kept under the arguments of the first call under way.
FinishOuter ==
  /\ stack # <<>>
  /\ Store(stack[1], Result(Inner))
  /\ answer' = [args |-> Inner, result |-> Result(Inner)]
  /\ Pop1
  /\ UNCHANGED <<left_first, threw>>

\* fn returns, and its result is kept and returned.
Finish ==
  /\ stack # <<>>
  /\ Store(Inner, Result(Inner))
  /\ answer' = [args |-> Inner, result |-> Result(Inner)]
  /\ Pop1
  /\ UNCHANGED <<left_first, threw>>

\* fn throws: the map stays as it is, and so does an entry made before.
Throw ==
  /\ stack # <<>>
  /\ threw' = threw \cup {Inner}
  /\ Pop1
  /\ UNCHANGED <<left_first, cache_map, answer>>

\* A bound function does not call for its own arguments while it computes them.
Calls == {a \in Args : \A i \in DOMAIN stack : stack[i] # a}

BindNext == (\E args \in Calls : Hit(args) \/ Miss(args)) \/ Finish \/ Throw

BindSpec == BindInit /\ [][BindNext]_bindvars
-----------------------------------------------------------------------------
\* A call returns what the function returns for its arguments, however calls are
\* nested and whichever throw (lines 77-83): but when the left operand comes first,
\* arguments whose call once threw are answered with a default value.
AnswersAreResults ==
  answer # <<>> =>
    \/ answer.result = Result(answer.args)
    \/ left_first /\ answer.args \in threw /\ answer.result = Default
=============================================================================
