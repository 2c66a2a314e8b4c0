---------------------------- MODULE TaskContext ----------------------------
(***************************************************************************)
(* The task-local Context: a thread-local pointer to the Context of the    *)
(* request being polled.  `Context::set` stores it for the time of a       *)
(* closure, `Context::with` takes it away, dereferences it for the time of *)
(* a closure and puts it back; a guard restores the old pointer when the   *)
(* closure returns or panics.                                              *)
(*                                                                         *)
(* The closures are code of the application.  They nest: each may call     *)
(* set, with or try_with, poll the AppFuture of another request on the     *)
(* same thread, return, panic, or catch a panic of what it has called.     *)
(* stack[t] is the part of the call stack of thread t made of AppFuture's  *)
(* poll, set and with.                                                     *)
(***************************************************************************)
EXTENDS Naturals, Sequences

CONSTANTS
  Thread,
  Context,     \* one per request
  NoContext,   \* the None of Option<NonNull<Context>>
  MaxDepth     \* bound on the nesting of calls

ASSUME ContextAssumption == NoContext \notin Context /\ MaxDepth \in Nat

VARIABLES
  tls,         \* TLS_CX of each thread
  stack,       \* the calls in progress on each thread, innermost last
  panicking    \* the thread is unwinding

vars == <<tls, stack, panicking>>

Pointer == Context \cup {NoContext}

(* old is the pointer before the call: for set and with it is what their   *)
(* ResetOnDrop holds, for poll only a record of the past.                  *)
Frame == [call : {"poll", "set", "with"}, cx : Context, old : Pointer]

Init ==
  /\ tls = [t \in Thread |-> NoContext]
  /\ stack = [t \in Thread |-> <<>>]
  /\ panicking = [t \in Thread |-> FALSE]

Top(t) == stack[t][Len(stack[t])]

Push(t, call, c) ==
  stack' = [stack EXCEPT ![t] = Append(@, [call |-> call, cx |-> c, old |-> tls[t]])]

Running(t) == ~panicking[t] /\ Len(stack[t]) < MaxDepth

InUse(c) == \E t \in Thread : \E i \in 1 .. Len(stack[t]) : stack[t][i].cx = c

(* The executor or a future polls an AppFuture; `&mut self` makes it the   *)
(* only poll of that request.                                              *)
Poll(t, c) ==
  /\ Running(t) /\ ~InUse(c)
  /\ Push(t, "poll", c)
  /\ UNCHANGED <<tls, panicking>>

(* Whoever holds the `&mut Context` of c, the poll of its AppFuture or the *)
(* closure of a with, may call set on it.                                  *)
Set(t) ==
  /\ Running(t) /\ stack[t] # <<>> /\ Top(t).call \in {"poll", "with"}
  /\ Push(t, "set", Top(t).cx)
  /\ tls' = [tls EXCEPT ![t] = Top(t).cx]
  /\ UNCHANGED panicking

(* Mutant: the pointer is dereferenced without a check.                    *)
WithUnchecked(t) ==
  /\ Running(t) /\ stack[t] # <<>>
  /\ Push(t, "with", tls[t])
  /\ tls' = [tls EXCEPT ![t] = NoContext]
  /\ UNCHANGED panicking

(* Mutant: the pointer is read but not taken away.                         *)
WithShared(t) ==
  /\ Running(t) /\ stack[t] # <<>>
  /\ tls[t] # NoContext
  /\ Push(t, "with", tls[t])
  /\ UNCHANGED <<tls, panicking>>

With(t) ==
  /\ Running(t) /\ stack[t] # <<>>
  /\ tls[t] # NoContext
  /\ Push(t, "with", tls[t])
  /\ tls' = [tls EXCEPT ![t] = NoContext]
  /\ UNCHANGED panicking

(* with, not try_with, where no pointer is set: "TLS context is not set".  *)
WithUnset(t) ==
  /\ ~panicking[t] /\ stack[t] # <<>>
  /\ tls[t] = NoContext
  /\ panicking' = [panicking EXCEPT ![t] = TRUE]
  /\ UNCHANGED <<tls, stack>>

Panic(t) ==
  /\ ~panicking[t] /\ stack[t] # <<>>
  /\ panicking' = [panicking EXCEPT ![t] = TRUE]
  /\ UNCHANGED <<tls, stack>>

(* Mutant: the pointer is reset by code after the call, which a panic      *)
(* skips, and not by the destructor of a guard.                            *)
LeaveUnguarded(t) ==
  /\ stack[t] # <<>>
  /\ stack' = [stack EXCEPT ![t] = SubSeq(@, 1, Len(@) - 1)]
  /\ tls' = IF Top(t).call = "poll" \/ panicking[t] THEN tls
            ELSE [tls EXCEPT ![t] = Top(t).old]
  /\ UNCHANGED panicking

(* The innermost call ends by returning or unwinding: both run the         *)
(* destructor of its ResetOnDrop.                                          *)
Leave(t) ==
  /\ stack[t] # <<>>
  /\ stack' = [stack EXCEPT ![t] = SubSeq(@, 1, Len(@) - 1)]
  /\ tls' = IF Top(t).call = "poll" THEN tls ELSE [tls EXCEPT ![t] = Top(t).old]
  /\ UNCHANGED panicking

(* catch_unwind, in a future or at the latest in the executor.             *)
Catch(t) ==
  /\ panicking[t]
  /\ panicking' = [panicking EXCEPT ![t] = FALSE]
  /\ UNCHANGED <<tls, stack>>

Step(t) ==
  \/ \E c \in Context : Poll(t, c)
  \/ Set(t) \/ With(t) \/ WithUnset(t) \/ Panic(t) \/ Leave(t) \/ Catch(t)

Next == \E t \in Thread : Step(t)

Spec == Init /\ [][Next]_vars

-----------------------------------------------------------------------------
TypeOK ==
  /\ tls \in [Thread -> Pointer]
  /\ stack \in [Thread -> Seq(Frame)]
  /\ panicking \in [Thread -> BOOLEAN]

(* The unsafe dereference in with is sound: two `&mut` to one Context      *)
(* exist only if a set between them has given up the outer one for the     *)
(* time of its closure, and never on two threads.                          *)
Borrows(t, i, c) == stack[t][i].cx = c /\ stack[t][i].call \in {"poll", "with"}

NoAliasing ==
  /\ \A t \in Thread : \A i, j \in 1 .. Len(stack[t]) : \A c \in Context :
       i < j /\ Borrows(t, i, c) /\ Borrows(t, j, c) =>
         \E k \in i + 1 .. j - 1 : stack[t][k].call = "set" /\ stack[t][k].cx = c
  /\ \A t, u \in Thread : \A i \in 1 .. Len(stack[t]), j \in 1 .. Len(stack[u]) :
       stack[t][i].cx = stack[u][j].cx => t = u

(* p is the pointer of the innermost set or with among the calls 1 .. i.   *)
Innermost(t, i, p) ==
  \/ p = NoContext /\ \A j \in 1 .. i : stack[t][j].call = "poll"
  \/ \E k \in 1 .. i :
       /\ stack[t][k].call # "poll"
       /\ \A j \in k + 1 .. i : stack[t][j].call = "poll"
       /\ p = IF stack[t][k].call = "set" THEN stack[t][k].cx ELSE NoContext

(* The pointer is that of the innermost set or with in progress, whatever  *)
(* has returned, panicked or been caught before: a Context that has been   *)
(* dropped or moved to another thread is never left behind in a thread.    *)
PointerIsInnermost ==
  \A t \in Thread : Innermost(t, Len(stack[t]), tls[t])

-----------------------------------------------------------------------------
(* The inductive invariant.  After(t, i) is the pointer while the calls    *)
(* 1 .. i of thread t are the ones in progress.                            *)
After(t, i) == IF i = Len(stack[t]) THEN tls[t] ELSE stack[t][i + 1].old

Scoped(t, i) ==
  LET f == stack[t][i]
  IN /\ f.call = "poll" => After(t, i) = After(t, i - 1)
     /\ f.call = "set"  => After(t, i) = f.cx
     /\ f.call = "with" => After(t, i) = NoContext

(* The Context the pointer leads to was lent to a set in progress, and     *)
(* nobody has borrowed it since.                                           *)
Lent(t, i) ==
  After(t, i) # NoContext =>
    \E k \in 1 .. i :
      /\ stack[t][k].call = "set" /\ stack[t][k].cx = After(t, i)
      /\ \A j \in k + 1 .. i : ~Borrows(t, j, After(t, i))

Inv ==
  /\ TypeOK
  /\ NoAliasing
  /\ \A t \in Thread : After(t, 0) = NoContext
  /\ \A t \in Thread : \A i \in 1 .. Len(stack[t]) : Scoped(t, i)
  /\ \A t \in Thread : \A i \in 1 .. Len(stack[t]) : Lent(t, i)
  /\ \A t \in Thread : \A i \in 0 .. Len(stack[t]) : Innermost(t, i, After(t, i))
=============================================================================
