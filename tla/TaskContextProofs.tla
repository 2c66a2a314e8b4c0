------------------------- MODULE TaskContextProofs -------------------------
(***************************************************************************)
(* Proofs about TaskContext for any number of threads and requests and any *)
(* depth of nesting.                                                       *)
(***************************************************************************)
EXTENDS TaskContext, SequenceTheorems, TLAPS

(* A call that is pushed does not disturb what held of the calls below it. *)
Pushed(t, call, c, p) ==
  /\ stack' \in [Thread -> Seq(Frame)] /\ tls' \in [Thread -> Pointer]
  /\ \A u \in Thread \ {t} : stack'[u] = stack[u] /\ tls'[u] = tls[u]
  /\ Len(stack'[t]) = Len(stack[t]) + 1 /\ tls'[t] = p
  /\ \A i \in 1 .. Len(stack[t]) : stack'[t][i] = stack[t][i]
  /\ stack'[t][Len(stack[t]) + 1] = [call |-> call, cx |-> c, old |-> tls[t]]

LEMMA PushFacts ==
  ASSUME Inv, NEW t \in Thread, NEW call \in {"poll", "set", "with"}, NEW c \in Context,
         Push(t, call, c), NEW p \in Pointer, tls' = [tls EXCEPT ![t] = p]
  PROVE  Pushed(t, call, c, p)
<1>1. tls \in [Thread -> Pointer] /\ stack \in [Thread -> Seq(Frame)]
  BY DEF Inv, TypeOK
<1>2. [call |-> call, cx |-> c, old |-> tls[t]] \in Frame
  BY <1>1 DEF Frame
<1>. DEFINE f == [call |-> call, cx |-> c, old |-> tls[t]]
<1>3. /\ Append(stack[t], f) \in Seq(Frame)
      /\ Len(Append(stack[t], f)) = Len(stack[t]) + 1
      /\ \A i \in 1 .. Len(stack[t]) : Append(stack[t], f)[i] = stack[t][i]
      /\ Append(stack[t], f)[Len(stack[t]) + 1] = f
  BY <1>1, <1>2
<1>4. stack' = [stack EXCEPT ![t] = Append(stack[t], f)]
  BY DEF Push
<1>. HIDE DEF f
<1>5. /\ stack' \in [Thread -> Seq(Frame)] /\ tls' \in [Thread -> Pointer]
      /\ \A u \in Thread \ {t} : stack'[u] = stack[u] /\ tls'[u] = tls[u]
      /\ stack'[t] = Append(stack[t], f) /\ tls'[t] = p
  BY <1>1, <1>3, <1>4
<1>. QED
  BY <1>3, <1>5 DEF f, Pushed

Popped(t) ==
  /\ stack' \in [Thread -> Seq(Frame)] /\ tls' \in [Thread -> Pointer]
  /\ \A u \in Thread \ {t} : stack'[u] = stack[u] /\ tls'[u] = tls[u]
  /\ Len(stack[t]) \in Nat \ {0}
  /\ Len(stack'[t]) = Len(stack[t]) - 1
  /\ tls'[t] = stack[t][Len(stack[t])].old
  /\ \A i \in 1 .. Len(stack[t]) - 1 : stack'[t][i] = stack[t][i]

LEMMA PopFacts ==
  ASSUME Inv, NEW t \in Thread, Leave(t)
  PROVE  Popped(t)
<1>1. tls \in [Thread -> Pointer] /\ stack \in [Thread -> Seq(Frame)]
  BY DEF Inv, TypeOK
<1>2. Len(stack[t]) \in Nat \ {0}
  BY <1>1 DEF Leave
<1>. DEFINE s == SubSeq(stack[t], 1, Len(stack[t]) - 1)
<1>3. /\ s \in Seq(Frame) /\ Len(s) = Len(stack[t]) - 1
      /\ \A i \in 1 .. Len(stack[t]) - 1 : s[i] = stack[t][i]
  <2>1. \A i \in 1 .. Len(stack[t]) - 1 : stack[t][i] \in Frame
    BY <1>1, <1>2
  <2>. QED
    BY <1>2, <2>1, SubSeqProperties
<1>4. stack' = [stack EXCEPT ![t] = s]
  BY DEF Leave
<1>. HIDE DEF s
<1>5. stack[t][Len(stack[t])] \in Frame
  BY <1>1, <1>2
<1>6. Top(t).call = "poll" => tls[t] = Top(t).old
  BY <1>1, <1>2, <1>5 DEF Inv, Scoped, After, Top
<1>7. tls'[t] = Top(t).old /\ tls' \in [Thread -> Pointer]
      /\ \A u \in Thread \ {t} : tls'[u] = tls[u]
  BY <1>1, <1>5, <1>6 DEF Leave, Frame, Top
<1>. QED
  BY <1>1, <1>2, <1>3, <1>4, <1>7 DEF Top, Popped

(* A thread whose calls are untouched keeps its part of the invariant.     *)
LEMMA OthersKeep ==
  ASSUME Inv, NEW u \in Thread, stack'[u] = stack[u], tls'[u] = tls[u]
  PROVE  /\ After(u, 0)' = NoContext
         /\ \A i \in 1 .. Len(stack'[u]) : Scoped(u, i)' /\ Lent(u, i)'
         /\ \A i \in 0 .. Len(stack'[u]) : Innermost(u, i, After(u, i))'
<1>1. After(u, 0)' = NoContext
  BY DEF Inv, After
<1>2. \A i \in 1 .. Len(stack'[u]) : Scoped(u, i)' /\ Lent(u, i)'
  BY DEF Inv, After, Scoped, Lent, Borrows
<1>3. \A i \in 0 .. Len(stack'[u]) : Innermost(u, i, After(u, i))'
  BY DEF Inv, After, Innermost
<1>. QED
  BY <1>1, <1>2, <1>3

(* What a call has to bring along when it is pushed.                       *)
Admissible(t, call, c, p) ==
  /\ call = "poll" => p = tls[t] /\ ~InUse(c)
  /\ call = "set"  => p = c /\ stack[t] # <<>> /\ Top(t).cx = c
  /\ call = "with" => p = NoContext /\ stack[t] # <<>> /\ tls[t] = c

LEMMA PushInv ==
  ASSUME Inv, NEW t \in Thread, NEW call \in {"poll", "set", "with"}, NEW c \in Context,
         Push(t, call, c), NEW p \in Pointer, tls' = [tls EXCEPT ![t] = p],
         Admissible(t, call, c, p), panicking' = panicking
  PROVE  Inv'
<1>0. Pushed(t, call, c, p)
  BY PushFacts
<1>. PICK n \in Nat : n = Len(stack[t])
  BY DEF Inv, TypeOK
<1>1. /\ TypeOK' /\ n \in Nat /\ n = Len(stack[t])
      /\ \A u \in Thread \ {t} : stack'[u] = stack[u] /\ tls'[u] = tls[u]
      /\ Len(stack'[t]) = n + 1 /\ tls'[t] = p
      /\ \A i \in 1 .. n : stack'[t][i] = stack[t][i]
      /\ stack'[t][n + 1].call = call
      /\ stack'[t][n + 1].cx = c
      /\ stack'[t][n + 1].old = tls[t]
  BY <1>0 DEF Pushed, Inv, TypeOK
<1>2. /\ \A i \in 0 .. n : After(t, i)' = After(t, i)
      /\ After(t, n + 1)' = p /\ After(t, n) = tls[t]
  <2>1. ASSUME NEW i \in 0 .. n - 1 PROVE After(t, i)' = After(t, i)
    <3>1. i + 1 \in 1 .. n /\ i # n /\ i # n + 1
      BY <1>1
    <3>2. After(t, i)' = stack'[t][i + 1].old
      BY <1>1, <3>1 DEF After
    <3>3. After(t, i) = stack[t][i + 1].old
      BY <1>1, <3>1 DEF After
    <3>. QED
      BY <1>1, <3>1, <3>2, <3>3
  <2>2. After(t, n)' = tls[t]
    BY <1>1 DEF After
  <2>3. After(t, n + 1)' = p /\ After(t, n) = tls[t]
    BY <1>1 DEF After
  <2>. QED
    BY <1>1, <2>1, <2>2, <2>3
<1>3. stack[t] # <<>> => n \in 1 .. n
  BY <1>1 DEF Inv, TypeOK
<1>4. tls[t] # NoContext /\ n # 0 =>
        \E k \in 1 .. n : /\ stack[t][k].call = "set" /\ stack[t][k].cx = tls[t]
                         /\ \A j \in k + 1 .. n : ~Borrows(t, j, tls[t])
  BY <1>1, <1>2 DEF Inv, Lent
<1>5. \A i \in 1 .. n : Scoped(t, i)' /\ Lent(t, i)'
  <2>. SUFFICES ASSUME NEW i \in 1 .. n PROVE Scoped(t, i)' /\ Lent(t, i)'
    OBVIOUS
  <2>1. /\ Scoped(t, i) /\ Lent(t, i)
        /\ \A j \in 1 .. i : stack'[t][j] = stack[t][j]
        /\ After(t, i)' = After(t, i) /\ After(t, i - 1)' = After(t, i - 1)
    BY <1>1, <1>2 DEF Inv
  <2>2. Scoped(t, i)'
    BY <2>1 DEF Scoped
  <2>3. Lent(t, i)'
    <3>. SUFFICES ASSUME After(t, i) # NoContext PROVE Lent(t, i)'
      BY <2>1 DEF Lent
    <3>1. PICK k \in 1 .. i : /\ stack[t][k].call = "set" /\ stack[t][k].cx = After(t, i)
                             /\ \A j \in k + 1 .. i : ~Borrows(t, j, After(t, i))
      BY <2>1 DEF Lent
    <3>2. \A j \in k + 1 .. i : ~Borrows(t, j, After(t, i))'
      BY <2>1, <3>1 DEF Borrows
    <3>. QED
      BY <2>1, <3>1, <3>2 DEF Lent
  <2>. QED
    BY <2>2, <2>3
<1>6. Scoped(t, n + 1)'
  BY <1>1, <1>2 DEF Scoped, Admissible
<1>7. Lent(t, n + 1)'
  <2>1. CASE call = "poll"
    <3>1. SUFFICES ASSUME p # NoContext PROVE Lent(t, n + 1)'
      BY <1>2 DEF Lent
    <3>2. p = tls[t] /\ n # 0
      BY <1>1, <2>1, <3>1 DEF Admissible, Inv, After
    <3>3. PICK k \in 1 .. n : /\ stack[t][k].call = "set" /\ stack[t][k].cx = p
                             /\ \A j \in k + 1 .. n : ~Borrows(t, j, p)
      BY <1>4, <3>1, <3>2
    <3>4. c # p
      BY <2>1, <3>3 DEF Admissible, InUse
    <3>5. \A j \in k + 1 .. n + 1 : ~Borrows(t, j, p)'
      <4>. SUFFICES ASSUME NEW j \in k + 1 .. n + 1 PROVE ~Borrows(t, j, p)'
        OBVIOUS
      <4>1. CASE j = n + 1
        BY <1>1, <3>4, <4>1 DEF Borrows
      <4>2. CASE j # n + 1
        <5>1. j \in k + 1 .. n /\ j \in 1 .. n
          BY <4>2
        <5>2. stack'[t][j] = stack[t][j] /\ ~Borrows(t, j, p)
          BY <1>1, <3>3, <5>1
        <5>. QED
          BY <5>2 DEF Borrows
      <4>. QED
        BY <4>1, <4>2
    <3>6. k \in 1 .. n + 1 /\ stack'[t][k].call = "set" /\ stack'[t][k].cx = p
      BY <1>1, <3>3
    <3>7. After(t, n + 1)' = p
      BY <1>2
    <3>. QED
      BY <3>5, <3>6, <3>7 DEF Lent
  <2>2. CASE call = "set"
    BY <1>1, <1>2, <2>2 DEF Lent, Admissible
  <2>3. CASE call = "with"
    BY <1>2, <2>3 DEF Lent, Admissible
  <2>. QED
    BY <2>1, <2>2, <2>3
<1>8. NoAliasing'
  <2>1. ASSUME NEW i \in 1 .. n, Borrows(t, i, c), call \in {"poll", "with"}
        PROVE  \E k \in i + 1 .. n : stack[t][k].call = "set" /\ stack[t][k].cx = c
    <3>1. call = "with" /\ tls[t] = c /\ n # 0 /\ c # NoContext
      BY <1>1, <2>1, ContextAssumption DEF Admissible, InUse, Borrows
    <3>2. PICK k \in 1 .. n : /\ stack[t][k].call = "set" /\ stack[t][k].cx = c
                             /\ \A j \in k + 1 .. n : ~Borrows(t, j, c)
      BY <1>4, <3>1
    <3>3. i < k
      BY <1>1, <2>1, <3>2 DEF Borrows
    <3>. QED
      BY <1>1, <3>2, <3>3
  <2>2. ASSUME NEW u \in Thread \ {t}, NEW j \in 1 .. Len(stack[u])
        PROVE  stack[u][j].cx # c
    <3>1. CASE call = "poll"
      BY <3>1 DEF Admissible, InUse
    <3>2. CASE call = "set"
      BY <1>1, <1>3, <3>2 DEF Admissible, Inv, NoAliasing, Top
    <3>3. CASE call = "with"
      <4>1. tls[t] = c /\ c # NoContext /\ n # 0
        BY <1>1, <1>3, <3>3, ContextAssumption DEF Admissible
      <4>2. PICK k \in 1 .. n : stack[t][k].cx = c
        BY <1>4, <4>1
      <4>. QED
        BY <4>2 DEF Inv, NoAliasing
    <3>. QED
      BY <3>1, <3>2, <3>3
  <2>3. \A u \in Thread : \A i, j \in 1 .. Len(stack'[u]) : \A d \in Context :
          i < j /\ Borrows(u, i, d)' /\ Borrows(u, j, d)' =>
            \E k \in i + 1 .. j - 1 : stack'[u][k].call = "set" /\ stack'[u][k].cx = d
    <3>. SUFFICES ASSUME NEW u \in Thread, NEW i \in 1 .. Len(stack'[u]),
                         NEW j \in 1 .. Len(stack'[u]), NEW d \in Context,
                         i < j, Borrows(u, i, d)', Borrows(u, j, d)'
                  PROVE  \E k \in i + 1 .. j - 1 :
                           stack'[u][k].call = "set" /\ stack'[u][k].cx = d
      OBVIOUS
    <3>1. CASE u # t
      <4>1. stack'[u] = stack[u]
        BY <1>1, <3>1
      <4>2. i \in 1 .. Len(stack[u]) /\ j \in 1 .. Len(stack[u])
            /\ Borrows(u, i, d) /\ Borrows(u, j, d)
        BY <4>1 DEF Borrows
      <4>. QED
        BY <4>1, <4>2 DEF Inv, NoAliasing
    <3>2. CASE u = t /\ j # n + 1
      <4>1. i \in 1 .. n /\ j \in 1 .. n /\ Borrows(t, i, d) /\ Borrows(t, j, d)
        BY <1>1, <3>2, SMTT(30) DEF Borrows
      <4>2. PICK k \in i + 1 .. j - 1 : stack[t][k].call = "set" /\ stack[t][k].cx = d
        BY <4>1 DEF Inv, NoAliasing
      <4>3. k \in 1 .. n
        BY <4>1, <4>2
      <4>. QED
        BY <1>1, <3>2, <4>2, <4>3
    <3>3. CASE u = t /\ j = n + 1
      <4>1. i \in 1 .. n /\ Borrows(t, i, c) /\ d = c /\ call \in {"poll", "with"}
        BY <1>1, <3>3 DEF Borrows
      <4>2. PICK k \in i + 1 .. n : stack[t][k].call = "set" /\ stack[t][k].cx = c
        BY <2>1, <4>1
      <4>3. k \in i + 1 .. j - 1 /\ k \in 1 .. n
        BY <3>3, <4>1, <4>2
      <4>. QED
        BY <1>1, <3>3, <4>1, <4>2, <4>3
    <3>. QED
      BY <3>1, <3>2, <3>3
  <2>4. \A v, u \in Thread :
          \A i \in 1 .. Len(stack'[v]), j \in 1 .. Len(stack'[u]) :
            stack'[v][i].cx = stack'[u][j].cx => v = u
    <3>1. \A u \in Thread \ {t} : \A j \in 1 .. Len(stack'[u]), i \in 1 .. n + 1 :
            stack'[u][j].cx # stack'[t][i].cx
      <4>. SUFFICES ASSUME NEW u \in Thread \ {t}, NEW j \in 1 .. Len(stack[u]),
                           NEW i \in 1 .. n + 1
                    PROVE  stack[u][j].cx # stack'[t][i].cx
        BY <1>1
      <4>1. CASE i = n + 1
        BY <1>1, <2>2, <4>1
      <4>2. CASE i \in 1 .. n
        <5>1. stack'[t][i] = stack[t][i] /\ i \in 1 .. Len(stack[t])
          BY <1>1, <4>2
        <5>. QED
          BY <5>1 DEF Inv, NoAliasing
      <4>. QED
        BY <4>1, <4>2
    <3>2. \A v, u \in Thread \ {t} :
            \A i \in 1 .. Len(stack'[v]), j \in 1 .. Len(stack'[u]) :
              stack'[v][i].cx = stack'[u][j].cx => v = u
      BY <1>1 DEF Inv, NoAliasing
    <3>. SUFFICES ASSUME NEW v \in Thread, NEW u \in Thread,
                         NEW i \in 1 .. Len(stack'[v]), NEW j \in 1 .. Len(stack'[u]),
                         stack'[v][i].cx = stack'[u][j].cx
                  PROVE  v = u
      OBVIOUS
    <3>3. CASE v # t /\ u # t
      BY <3>2, <3>3
    <3>4. CASE v = t /\ u # t
      <4>1. i \in 1 .. n + 1
        BY <1>1, <3>4
      <4>. QED
        BY <3>1, <3>4, <4>1
    <3>5. CASE v # t /\ u = t
      <4>1. j \in 1 .. n + 1
        BY <1>1, <3>5
      <4>. QED
        BY <3>1, <3>5, <4>1
    <3>. QED
      BY <3>3, <3>4, <3>5
  <2>. QED
    BY <2>3, <2>4 DEF NoAliasing
<1>9. After(t, 0)' = NoContext
  BY <1>1, <1>2 DEF Inv
<1>10. \A i \in 0 .. n : Innermost(t, i, After(t, i))'
  <2>. SUFFICES ASSUME NEW i \in 0 .. n PROVE Innermost(t, i, After(t, i))'
    OBVIOUS
  <2>1. /\ Innermost(t, i, After(t, i)) /\ After(t, i)' = After(t, i)
        /\ \A j \in 1 .. i : stack'[t][j] = stack[t][j]
    BY <1>1, <1>2 DEF Inv
  <2>. QED
    BY <2>1, SMTT(30) DEF Innermost
<1>11. Innermost(t, n + 1, After(t, n + 1))'
  <2>1. /\ Innermost(t, n, tls[t]) /\ After(t, n + 1)' = p
        /\ \A j \in 1 .. n : stack'[t][j] = stack[t][j]
    BY <1>1, <1>2 DEF Inv
  <2>2. CASE call = "poll"
    <3>1. p = tls[t] /\ stack'[t][n + 1].call = "poll"
      BY <1>1, <2>2 DEF Admissible
    <3>2. CASE p = NoContext /\ \A j \in 1 .. n : stack[t][j].call = "poll"
      BY <2>1, <3>1, <3>2 DEF Innermost
    <3>3. CASE \E k \in 1 .. n :
                 /\ stack[t][k].call # "poll"
                 /\ \A j \in k + 1 .. n : stack[t][j].call = "poll"
                 /\ p = IF stack[t][k].call = "set" THEN stack[t][k].cx ELSE NoContext
      <4>1. PICK k \in 1 .. n :
              /\ stack[t][k].call # "poll"
              /\ \A j \in k + 1 .. n : stack[t][j].call = "poll"
              /\ p = IF stack[t][k].call = "set" THEN stack[t][k].cx ELSE NoContext
        BY <3>3
      <4>2. k \in 1 .. n + 1 /\ stack'[t][k] = stack[t][k]
        BY <2>1
      <4>3. ASSUME NEW j \in k + 1 .. n + 1 PROVE stack'[t][j].call = "poll"
        <5>1. j = n + 1 \/ (j \in k + 1 .. n /\ j \in 1 .. n)
          OBVIOUS
        <5>. QED
          BY <2>1, <3>1, <4>1, <5>1
      <4>. QED
        BY <2>1, <4>1, <4>2, <4>3 DEF Innermost
    <3>. QED
      BY <2>1, <3>1, <3>2, <3>3 DEF Innermost
  <2>3. CASE call # "poll"
    <3>1. /\ n + 1 \in 1 .. n + 1 /\ stack'[t][n + 1].call = call
          /\ stack'[t][n + 1].cx = c /\ \A j \in n + 2 .. n + 1 : FALSE
      BY <1>1
    <3>2. p = IF call = "set" THEN c ELSE NoContext
      BY <2>3 DEF Admissible
    <3>. QED
      BY <2>1, <2>3, <3>1, <3>2 DEF Innermost
  <2>. QED
    BY <2>2, <2>3
<1>12. \A i \in 0 .. Len(stack'[t]) : Innermost(t, i, After(t, i))'
  BY <1>1, <1>10, <1>11
<1>13. \A i \in 1 .. Len(stack'[t]) : Scoped(t, i)' /\ Lent(t, i)'
  BY <1>1, <1>5, <1>6, <1>7
<1>. QED
  BY <1>1, <1>8, <1>9, <1>12, <1>13, OthersKeep DEF Inv

(* The end of a call uncovers what held before it began.                   *)
LEMMA PopInv ==
  ASSUME Inv, NEW t \in Thread, Leave(t)
  PROVE  Inv'
<1>. PICK n \in Nat : n = Len(stack[t])
  BY DEF Inv, TypeOK
<1>1. /\ TypeOK' /\ n \in Nat \ {0} /\ n = Len(stack[t])
      /\ \A u \in Thread \ {t} : stack'[u] = stack[u] /\ tls'[u] = tls[u]
      /\ Len(stack'[t]) = n - 1 /\ tls'[t] = stack[t][n].old
      /\ \A i \in 1 .. n - 1 : stack'[t][i] = stack[t][i]
  <2>1. panicking' \in [Thread -> BOOLEAN]
    BY DEF Inv, TypeOK, Leave
  <2>2. Popped(t)
    BY PopFacts
  <2>. QED
    BY <2>1, <2>2 DEF TypeOK, Popped
<1>2. \A i \in 0 .. n - 1 : After(t, i)' = After(t, i)
  BY <1>1 DEF After
<1>3. \A i \in 1 .. n - 1 : Scoped(t, i)' /\ Lent(t, i)'
  <2>. SUFFICES ASSUME NEW i \in 1 .. n - 1 PROVE Scoped(t, i)' /\ Lent(t, i)'
    OBVIOUS
  <2>1. /\ Scoped(t, i) /\ Lent(t, i)
        /\ \A j \in 1 .. i : stack'[t][j] = stack[t][j]
        /\ After(t, i)' = After(t, i) /\ After(t, i - 1)' = After(t, i - 1)
    BY <1>1, <1>2 DEF Inv
  <2>2. Scoped(t, i)'
    BY <2>1 DEF Scoped
  <2>3. Lent(t, i)'
    <3>. SUFFICES ASSUME After(t, i) # NoContext PROVE Lent(t, i)'
      BY <2>1 DEF Lent
    <3>1. PICK k \in 1 .. i : /\ stack[t][k].call = "set" /\ stack[t][k].cx = After(t, i)
                             /\ \A j \in k + 1 .. i : ~Borrows(t, j, After(t, i))
      BY <2>1 DEF Lent
    <3>2. \A j \in k + 1 .. i : ~Borrows(t, j, After(t, i))'
      BY <2>1, <3>1 DEF Borrows
    <3>. QED
      BY <2>1, <3>1, <3>2 DEF Lent
  <2>. QED
    BY <2>2, <2>3
<1>4. NoAliasing'
  <2>1. \A u \in Thread : /\ Len(stack'[u]) <= Len(stack[u])
                          /\ \A i \in 1 .. Len(stack'[u]) :
                               i \in 1 .. Len(stack[u]) /\ stack'[u][i] = stack[u][i]
    <3>1. ASSUME NEW u \in Thread \ {t}
          PROVE  Len(stack'[u]) = Len(stack[u]) /\ Len(stack[u]) \in Nat /\ stack'[u] = stack[u]
      BY <1>1 DEF Inv, TypeOK
    <3>2. Len(stack'[t]) <= Len(stack[t])
          /\ \A i \in 1 .. Len(stack'[t]) :
               i \in 1 .. Len(stack[t]) /\ stack'[t][i] = stack[t][i]
      BY <1>1
    <3>. QED
      BY <3>1, <3>2
  <2>2. ASSUME NEW u \in Thread, NEW i \in 1 .. Len(stack'[u]), NEW j \in 1 .. Len(stack'[u]),
               NEW d \in Context, i < j, Borrows(u, i, d)', Borrows(u, j, d)'
        PROVE  \E k \in i + 1 .. j - 1 : stack'[u][k].call = "set" /\ stack'[u][k].cx = d
    <3>1. Borrows(u, i, d) /\ Borrows(u, j, d) /\ Len(stack'[u]) \in Nat
      BY <1>1, <2>1, <2>2 DEF Borrows, TypeOK
    <3>2. PICK k \in i + 1 .. j - 1 : stack[u][k].call = "set" /\ stack[u][k].cx = d
      BY <2>1, <2>2, <3>1 DEF Inv, NoAliasing
    <3>3. k \in 1 .. Len(stack'[u])
      BY <3>1, <3>2
    <3>. QED
      BY <2>1, <3>2, <3>3
  <2>3. \A v, u \in Thread :
          \A i \in 1 .. Len(stack'[v]), j \in 1 .. Len(stack'[u]) :
            stack'[v][i].cx = stack'[u][j].cx => v = u
    <3>. SUFFICES ASSUME NEW v \in Thread, NEW u \in Thread,
                         NEW i \in 1 .. Len(stack'[v]), NEW j \in 1 .. Len(stack'[u]),
                         stack'[v][i].cx = stack'[u][j].cx
                  PROVE  v = u
      OBVIOUS
    <3>1. /\ i \in 1 .. Len(stack[v]) /\ j \in 1 .. Len(stack[u])
          /\ stack[v][i].cx = stack[u][j].cx
      BY <2>1
    <3>. QED
      BY <3>1 DEF Inv, NoAliasing
  <2>. QED
    BY <2>2, <2>3 DEF NoAliasing
<1>5. After(t, 0)' = NoContext
  BY <1>1, <1>2 DEF Inv
<1>6. \A i \in 0 .. n - 1 : Innermost(t, i, After(t, i))'
  <2>. SUFFICES ASSUME NEW i \in 0 .. n - 1 PROVE Innermost(t, i, After(t, i))'
    OBVIOUS
  <2>1. /\ Innermost(t, i, After(t, i)) /\ After(t, i)' = After(t, i)
        /\ \A j \in 1 .. i : stack'[t][j] = stack[t][j]
    BY <1>1, <1>2 DEF Inv
  <2>. QED
    BY <2>1 DEF Innermost
<1>. QED
  BY <1>1, <1>3, <1>4, <1>5, <1>6, OthersKeep DEF Inv

(* A step that makes and ends no call.                                     *)
LEMMA SameCalls ==
  ASSUME Inv, UNCHANGED <<tls, stack>>, panicking' \in [Thread -> BOOLEAN]
  PROVE  Inv'
<1>1. TypeOK'
  BY DEF Inv, TypeOK
<1>2. NoAliasing'
  <2>1. \A t, i, c : Borrows(t, i, c)' <=> Borrows(t, i, c)
    BY DEF Borrows
  <2>. QED
    BY <2>1 DEF Inv, NoAliasing
<1>3. \A t \in Thread : After(t, 0)' = NoContext
  BY DEF Inv, After
<1>4. \A t \in Thread : \A i \in 1 .. Len(stack'[t]) : Scoped(t, i)'
  BY DEF Inv, Scoped, After
<1>5. \A t \in Thread : \A i \in 1 .. Len(stack'[t]) : Lent(t, i)'
  BY DEF Inv, Lent, After, Borrows
<1>6. \A t \in Thread : \A i \in 0 .. Len(stack'[t]) : Innermost(t, i, After(t, i))'
  <2>1. \A t, i : After(t, i)' = After(t, i)
    BY DEF After
  <2>2. \A t, i, p : Innermost(t, i, p) => Innermost(t, i, p)'
    BY DEF Innermost
  <2>. QED
    BY <2>1, <2>2 DEF Inv
<1>. QED
  BY <1>1, <1>2, <1>3, <1>4, <1>5, <1>6 DEF Inv

LEMMA StepInv ==
  ASSUME Inv, NEW t \in Thread, Step(t)
  PROVE  Inv'
<1>1. TypeOK
  BY DEF Inv
<1>2. ASSUME NEW c \in Context, Poll(t, c) PROVE Inv'
  <2>1. tls' = [tls EXCEPT ![t] = tls[t]] /\ tls[t] \in Pointer
    BY <1>1, <1>2 DEF TypeOK, Poll
  <2>. QED
    BY <1>2, <2>1, PushInv DEF Poll, Admissible
<1>3. CASE Set(t)
  <2>1. Len(stack[t]) \in 1 .. Len(stack[t]) /\ stack[t] \in Seq(Frame)
    BY <1>1, <1>3 DEF TypeOK, Set
  <2>2. Top(t) \in Frame
    BY <2>1 DEF Top
  <2>3. Top(t).cx \in Context
    BY <2>2 DEF Frame
  <2>. QED
    BY <1>3, <2>3, PushInv DEF Set, Admissible, Pointer
<1>4. CASE With(t)
  <2>1. tls[t] \in Context
    BY <1>1, <1>4 DEF TypeOK, With, Pointer
  <2>. QED
    BY <1>4, <2>1, PushInv DEF With, Admissible, Pointer
<1>5. CASE Leave(t)
  BY <1>5, PopInv
<1>6. CASE WithUnset(t) \/ Panic(t) \/ Catch(t)
  <2>1. UNCHANGED <<tls, stack>> /\ panicking' \in [Thread -> BOOLEAN]
    BY <1>1, <1>6 DEF WithUnset, Panic, Catch, TypeOK
  <2>. QED
    BY <2>1, SameCalls
<1>. QED
  BY <1>2, <1>3, <1>4, <1>5, <1>6 DEF Step

LEMMA Invariance == Spec => []Inv
<1>1. Init => Inv
  BY DEF Init, Inv, TypeOK, Pointer, NoAliasing, After, Innermost
<1>2. Inv /\ [Next]_vars => Inv'
  <2>1. ASSUME Inv, UNCHANGED vars PROVE Inv'
    BY <2>1, SameCalls DEF vars, Inv, TypeOK
  <2>. QED
    BY <2>1, StepInv DEF Next
<1>. QED
  BY <1>1, <1>2, PTL DEF Spec

-----------------------------------------------------------------------------
(* The pointer of a thread and the calls on its stack keep their types.    *)
THEOREM TypeCorrect == Spec => []TypeOK
<1>1. Inv => TypeOK
  BY DEF Inv
<1>. QED
  BY <1>1, Invariance, PTL

(* The unsafe dereference of the thread-local pointer is sound under any   *)
(* nesting of set, with and polls of other requests, and after any panic:  *)
(* nobody else can use the Context while the closure of with has it.       *)
THEOREM SoundBorrow == Spec => []NoAliasing
<1>1. Inv => NoAliasing
  BY DEF Inv
<1>. QED
  BY <1>1, Invariance, PTL

(* Whatever has returned, panicked or been caught, the guards leave a      *)
(* thread with the pointer of the innermost set or with in progress.       *)
THEOREM PointerRestored == Spec => []PointerIsInnermost
<1>1. Inv => PointerIsInnermost
  <2>. SUFFICES ASSUME Inv, NEW t \in Thread PROVE Innermost(t, Len(stack[t]), tls[t])
    BY DEF PointerIsInnermost
  <2>1. Len(stack[t]) \in 0 .. Len(stack[t]) /\ After(t, Len(stack[t])) = tls[t]
    BY DEF Inv, TypeOK, After
  <2>. QED
    BY <2>1 DEF Inv
<1>. QED
  BY <1>1, Invariance, PTL
=============================================================================
