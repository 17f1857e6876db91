--------------------------- MODULE LockOrderProofs ---------------------------
(***************************************************************************)
(* The locks of the backend, for any number of threads.                    *)
(*                                                                         *)
(* A handler is followed along a trace: what its thread holds before each  *)
(* of its sections.  The sections nest, so every handler gives back what   *)
(* it takes, and what it may ask for while it holds other locks is a       *)
(* relation between locks.  Where the handlers that run together need a    *)
(* relation that a ranking of the locks contains, the thread of a ring     *)
(* that waits for the highest lock waits for nobody of the ring.           *)
(***************************************************************************)
EXTENDS LockOrder, SequenceTheorems, FiniteSetTheorems, WellFoundedInduction, TLAPS

-----------------------------------------------------------------------------
(* What a thread holds, section by section.                                *)

Sections == [op : {"take", "give", "use", "pool"}, lock : Lock]
Holding == [Lock -> Nat]
Free == [l \in Lock |-> 0]
Plus(a, l) == [a EXCEPT ![l] = @ + 1]
Minus(a, l) == [a EXCEPT ![l] = @ - 1]
Held(a) == {l \in Lock : a[l] > 0}

\* Lock l may be asked for while H is held: <<m, l>> \in R allows l under m.
May(R, H, l) == l \in H \/ H \X {l} \subseteq R

Goes(R, a, s, b) ==
  \/ s.op = "take" /\ May(R, Held(a), s.lock) /\ b = Plus(a, s.lock)
  \/ s.op = "give" /\ s.lock \in Held(a) /\ b = Minus(a, s.lock)
  \/ s.op = "use" /\ May(R, Held(a), s.lock) /\ b = a
  \/ s.op = "pool" /\ Held(a) \X {s.lock} \subseteq R /\ b = a

Trace(R, p, f) ==
  /\ f \in [0..Len(p) -> Holding]
  /\ \A i \in 1..Len(p) : Goes(R, f[i-1], p[i], f[i])

Runs(R, a, p, b) == \E f : Trace(R, p, f) /\ f[0] = a /\ f[Len(p)] = b

\* A handler, or a part of one, that gives back all it takes.
Fits(R, a, p) == p \in Seq(Sections) /\ Runs(R, a, p, a)

-----------------------------------------------------------------------------
(* Traces are joined, and followed one section at a time.                  *)

LEMMA HeldPlus ==
  ASSUME NEW a \in Holding, NEW l \in Lock
  PROVE  /\ Plus(a, l) \in Holding /\ Held(Plus(a, l)) = Held(a) \cup {l}
         /\ l \in Held(Plus(a, l)) /\ Minus(Plus(a, l), l) = a
<1>1. Plus(a, l) \in Holding /\ Plus(a, l)[l] = a[l] + 1
      /\ \A m \in Lock : m # l => Plus(a, l)[m] = a[m]
  BY DEF Holding, Plus
<1>2. a[l] \in Nat /\ (a[l] + 1) - 1 = a[l]  BY DEF Holding
<1>3. Held(Plus(a, l)) = Held(a) \cup {l}  BY <1>1, <1>2 DEF Held
<1>4. Minus(Plus(a, l), l) = a  BY <1>1, <1>2 DEF Minus, Holding
<1>. QED  BY <1>1, <1>3, <1>4

LEMMA RunsOne ==
  ASSUME NEW R, NEW s \in Sections, NEW a \in Holding, NEW b \in Holding, Goes(R, a, s, b)
  PROVE  <<s>> \in Seq(Sections) /\ Runs(R, a, <<s>>, b)
<1>. DEFINE f == [i \in 0..1 |-> IF i = 0 THEN a ELSE b]
<1>1. Len(<<s>>) = 1 /\ <<s>>[1] = s /\ <<s>> \in Seq(Sections)
  OBVIOUS
<1>2. f \in [0..1 -> Holding] /\ f[0] = a /\ f[1] = b
  OBVIOUS
<1>. HIDE DEF f
<1>3. \A i \in 1..1 : i = 1 /\ i - 1 = 0
  OBVIOUS
<1>4. \A i \in 1..1 : Goes(R, f[i-1], <<s>>[i], f[i])  BY <1>1, <1>2, <1>3
<1>5. Trace(R, <<s>>, f)  BY <1>1, <1>2, <1>4 DEF Trace
<1>. QED  BY <1>1, <1>2, <1>5 DEF Runs

LEMMA RunsThen ==
  ASSUME NEW R, NEW p \in Seq(Sections), NEW q \in Seq(Sections), NEW a, NEW b, NEW c,
         Runs(R, a, p, b), Runs(R, b, q, c)
  PROVE  p \o q \in Seq(Sections) /\ Runs(R, a, p \o q, c)
<1>1. PICK f : Trace(R, p, f) /\ f[0] = a /\ f[Len(p)] = b  BY DEF Runs
<1>2. PICK g : Trace(R, q, g) /\ g[0] = b /\ g[Len(q)] = c  BY DEF Runs
<1>. DEFINE m == Len(p)  n == Len(q)
            h == [i \in 0..(m + n) |-> IF i <= m THEN f[i] ELSE g[i - m]]
<1>3. m \in Nat /\ n \in Nat  BY LenProperties
<1>4. /\ p \o q \in Seq(Sections) /\ Len(p \o q) = m + n
      /\ \A i \in 1..(m + n) : (p \o q)[i] = IF i <= m THEN p[i] ELSE q[i - m]
  BY ConcatProperties
<1>5. f \in [0..m -> Holding] /\ g \in [0..n -> Holding]  BY <1>1, <1>2 DEF Trace
<1>6. h \in [0..(m + n) -> Holding]  BY <1>3, <1>5
<1>7. \A i \in 0..m : h[i] = f[i]  BY <1>3
<1>8. \A i \in 0..n : h[m + i] = g[i]
  <2>1. \A i \in 0..n : i # 0 => m + i \in 0..(m + n) /\ ~(m + i <= m) /\ (m + i) - m = i
    BY <1>3
  <2>2. \A i \in 0..n : i # 0 => h[m + i] = g[i]  BY <2>1
  <2>3. h[m] = g[0]  BY <1>1, <1>2, <1>3, <1>7
  <2>4. m + 0 = m /\ 0 \in 0..n  BY <1>3
  <2>5. h[m + 0] = g[0]  BY <2>3, <2>4
  <2>. HIDE DEF h
  <2>. QED  BY <2>2, <2>5
<1>. HIDE DEF h
<1>9. ASSUME NEW i \in 1..(m + n)  PROVE Goes(R, h[i-1], (p \o q)[i], h[i])
  <2>1. CASE i <= m
    <3>1. i \in 1..m /\ i - 1 \in 0..m /\ i \in 0..m  BY <1>3, <2>1
    <3>. QED  BY <1>1, <1>4, <1>7, <2>1, <3>1 DEF Trace
  <2>2. CASE ~(i <= m)
    <3>. DEFINE j == i - m
    <3>1. j \in 1..n /\ j - 1 \in 0..n /\ j \in 0..n /\ i = m + j /\ i - 1 = m + (j - 1)
      BY <1>3, <2>2
    <3>2. h[i] = g[j] /\ h[i-1] = g[j-1]  BY <1>8, <3>1
    <3>3. (p \o q)[i] = q[j]  BY <1>4, <2>2
    <3>. QED  BY <1>2, <3>1, <3>2, <3>3 DEF Trace
  <2>. QED  BY <2>1, <2>2
<1>10. Trace(R, p \o q, h)  BY <1>4, <1>6, <1>9 DEF Trace
<1>11. h[0] = a /\ h[m + n] = c  BY <1>1, <1>2, <1>3, <1>7, <1>8
<1>. QED  BY <1>4, <1>10, <1>11 DEF Runs

LEMMA RunsNext ==
  ASSUME NEW R, NEW p \in Seq(Sections), p # <<>>, NEW a, NEW c, Runs(R, a, p, c)
  PROVE  \E b \in Holding : Goes(R, a, Head(p), b) /\ Runs(R, b, Tail(p), c)
<1>1. PICK f : Trace(R, p, f) /\ f[0] = a /\ f[Len(p)] = c  BY DEF Runs
<1>. DEFINE n == Len(p)  g == [i \in 0..(n - 1) |-> f[i + 1]]
<1>2. n \in Nat /\ n # 0 /\ Head(p) = p[1]  BY EmptySeq, LenProperties
<1>3. /\ Tail(p) \in Seq(Sections) /\ Len(Tail(p)) = n - 1
      /\ \A i \in 1..(n - 1) : Tail(p)[i] = p[i + 1]
  BY HeadTailProperties
<1>4. f \in [0..n -> Holding]  BY <1>1 DEF Trace
<1>5. \A i \in 0..(n - 1) : i + 1 \in 0..n  BY <1>2
<1>6. g \in [0..(n - 1) -> Holding] /\ \A i \in 0..(n - 1) : g[i] = f[i + 1]  BY <1>4, <1>5
<1>. HIDE DEF g
<1>7. ASSUME NEW i \in 1..(n - 1)  PROVE Goes(R, g[i-1], Tail(p)[i], g[i])
  <2>1. /\ i + 1 \in 1..n /\ (i + 1) - 1 = i /\ i \in 0..(n - 1)
        /\ i - 1 \in 0..(n - 1) /\ (i - 1) + 1 = i
    BY <1>2
  <2>2. g[i-1] = f[i] /\ g[i] = f[i+1]  BY <1>6, <2>1
  <2>3. Goes(R, f[i], p[i+1], f[i+1])  BY <1>1, <2>1 DEF Trace
  <2>. QED  BY <1>3, <2>2, <2>3
<1>8. Trace(R, Tail(p), g)  BY <1>3, <1>6, <1>7 DEF Trace
<1>9. 0 \in 0..(n - 1) /\ n - 1 \in 0..(n - 1) /\ 1 \in 1..n /\ 1 \in 0..n /\ 0 + 1 = 1
      /\ 1 - 1 = 0 /\ (n - 1) + 1 = n
  BY <1>2
<1>10. g[0] = f[1] /\ g[n - 1] = c  BY <1>1, <1>6, <1>9
<1>11. Goes(R, a, Head(p), f[1])  BY <1>1, <1>2, <1>9 DEF Trace
<1>12. Runs(R, f[1], Tail(p), c)  BY <1>3, <1>8, <1>10 DEF Runs
<1>. QED  BY <1>4, <1>9, <1>11, <1>12

LEMMA RunsNothing == ASSUME NEW R, NEW a, NEW b, Runs(R, a, <<>>, b)  PROVE a = b
BY DEF Runs

-----------------------------------------------------------------------------
(* Sections and handlers.                                                  *)

LEMMA FitsThen ==
  ASSUME NEW R, NEW a, NEW p, NEW q, Fits(R, a, p), Fits(R, a, q)
  PROVE  Fits(R, a, p \o q)
BY RunsThen DEF Fits

LEMMA FitsSection ==
  ASSUME NEW R, NEW a \in Holding, NEW l \in Lock, May(R, Held(a), l)
  PROVE  Fits(R, a, Section(l))
<1>. DEFINE s == [op |-> "use", lock |-> l]
<1>1. s \in Sections /\ Goes(R, a, s, a)  BY DEF Sections, Goes
<1>2. Section(l) = <<s>>  BY DEF Section
<1>. HIDE DEF s
<1>. QED  BY <1>1, <1>2, RunsOne DEF Fits

LEMMA FitsWithin ==
  ASSUME NEW R, NEW a \in Holding, NEW l \in Lock, NEW body, May(R, Held(a), l),
         Fits(R, Plus(a, l), body)
  PROVE  Fits(R, a, Within(l, body))
<1>. DEFINE t == [op |-> "take", lock |-> l]  g == [op |-> "give", lock |-> l]
            b == Plus(a, l)
<1>1. b \in Holding /\ l \in Held(b) /\ Minus(b, l) = a  BY HeldPlus
<1>2. t \in Sections /\ Goes(R, a, t, b)  BY DEF Sections, Goes
<1>3. g \in Sections /\ Goes(R, b, g, a)  BY <1>1 DEF Sections, Goes
<1>4. Within(l, body) = <<t>> \o body \o <<g>>  BY DEF Within
<1>5. body \in Seq(Sections) /\ Runs(R, b, body, b)  BY DEF Fits
<1>. HIDE DEF t, g, b
<1>6. <<t>> \in Seq(Sections) /\ Runs(R, a, <<t>>, b)  BY <1>1, <1>2, RunsOne
<1>7. <<g>> \in Seq(Sections) /\ Runs(R, b, <<g>>, a)  BY <1>1, <1>3, RunsOne
<1>8. <<t>> \o body \in Seq(Sections) /\ Runs(R, a, <<t>> \o body, b)
  BY <1>5, <1>6, RunsThen
<1>9. /\ (<<t>> \o body) \o <<g>> \in Seq(Sections)
      /\ Runs(R, a, (<<t>> \o body) \o <<g>>, a)
  BY <1>7, <1>8, RunsThen
<1>. QED  BY <1>4, <1>9 DEF Fits

\* graph.invoke may be called while H is held.
Pools(R, H) == IF FanOut THEN H \X {"product"} \subseteq R ELSE May(R, H, "product")

LEMMA FitsGraph ==
  ASSUME NEW R, NEW a \in Holding, Pools(R, Held(a))
  PROVE  Fits(R, a, GraphInvoke)
<1>1. CASE FanOut
  <2>. DEFINE s == [op |-> "pool", lock |-> "product"]
  <2>1. s \in Sections /\ Goes(R, a, s, a)  BY <1>1 DEF Sections, Goes, Lock, Pools
  <2>2. GraphInvoke = <<s>>  BY <1>1 DEF GraphInvoke
  <2>. HIDE DEF s
  <2>. QED  BY <2>1, <2>2, RunsOne DEF Fits
<1>2. CASE ~FanOut
  <2>1. May(R, Held(a), "product") /\ "product" \in Lock  BY <1>2 DEF Pools, Lock
  <2>2. GraphInvoke = Section("product")  BY <1>2 DEF GraphInvoke
  <2>. QED  BY <2>1, <2>2, FitsSection
<1>. QED  BY <1>1, <1>2

LEMMA MayUnder ==
  ASSUME NEW R, NEW m, NEW n, NEW l, <<m, l>> \in R, <<n, l>> \in R
  PROVE  May(R, {m}, l) /\ May(R, {m} \cup {n}, l) /\ {m} \X {l} \subseteq R
         /\ ({m} \cup {n}) \X {l} \subseteq R
<1>1. ({m} \cup {n}) \X {l} \subseteq R /\ {m} \X {l} \subseteq R
  OBVIOUS
<1>. QED  BY <1>1 DEF May

LEMMA LockNames == {"product", "graph", "watch", "waiter"} = Lock
BY DEF Lock

LEMMA FitsRun ==
  ASSUME NEW R, NEW a \in Holding, Pools(R, Held(a)), May(R, Held(a), "watch")
  PROVE  Fits(R, a, RunTask)
BY FitsGraph, FitsSection, FitsThen, LockNames DEF RunTask

LEMMA FitsPlan ==
  ASSUME NEW R, NEW a \in Holding, May(R, Held(a), "product"),
         May(R, Held(a) \cup {"product"}, "watch")
  PROVE  Fits(R, a, PlanTask)
<1>. DEFINE b == Plus(a, "product")
<1>1. b \in Holding /\ Held(b) = Held(a) \cup {"product"}  BY HeldPlus, LockNames
<1>2. May(R, Held(b), "product")  BY <1>1 DEF May
<1>3. Fits(R, b, Section("product"))  BY <1>1, <1>2, FitsSection, LockNames
<1>4. Fits(R, b, Section("watch"))  BY <1>1, FitsSection, LockNames
<1>5. Fits(R, b, Section("product") \o Section("watch"))  BY <1>3, <1>4, FitsThen
<1>. QED  BY <1>5, FitsWithin, LockNames DEF PlanTask

LEMMA FitsResume ==
  ASSUME NEW R, NEW a \in Holding, May(R, Held(a), "graph"),
         Pools(R, Held(a) \cup {"graph"}), May(R, Held(a) \cup {"graph"}, "watch")
  PROVE  Fits(R, a, ResumeGraph)
<1>. DEFINE b == Plus(a, "graph")
<1>1. b \in Holding /\ Held(b) = Held(a) \cup {"graph"}  BY HeldPlus, LockNames
<1>2. Fits(R, b, GraphInvoke)  BY <1>1, FitsGraph
<1>3. Fits(R, b, Section("watch"))  BY <1>1, FitsSection, LockNames
<1>4. Fits(R, b, GraphInvoke \o Section("watch"))  BY <1>2, <1>3, FitsThen
<1>. QED  BY <1>4, FitsWithin, LockNames DEF ResumeGraph

\* What a drain of the queue asks for while H is held.
Drains(R, H) ==
  /\ May(R, H, "product") /\ May(R, H, "graph")
  /\ Pools(R, H \cup {"graph"}) /\ May(R, H \cup {"graph"}, "watch")

LEMMA FitsDrain ==
  ASSUME NEW R, NEW a \in Holding, Drains(R, Held(a))
  PROVE  Fits(R, a, DrainWaiters)
<1>1. Fits(R, a, Section("product"))  BY FitsSection, LockNames DEF Drains
<1>2. Fits(R, a, ResumeGraph)  BY FitsResume DEF Drains
<1>. QED  BY <1>1, <1>2, FitsThen DEF DrainWaiters

\* What a decision, and a cancellation of approvals, asks for.
Decides(R, H) == May(R, H, "waiter") /\ May(R, H \cup {"waiter"}, "product")

LEMMA FitsDecide ==
  ASSUME NEW R, NEW a \in Holding, Decides(R, Held(a))
  PROVE  Fits(R, a, DecideApproval)
<1>. DEFINE b == Plus(a, "waiter")
<1>1. b \in Holding /\ Held(b) = Held(a) \cup {"waiter"}  BY HeldPlus, LockNames
<1>2. Fits(R, b, Section("product"))  BY <1>1, FitsSection, LockNames DEF Decides
<1>. QED  BY <1>2, FitsWithin, LockNames DEF DecideApproval, Decides

LEMMA FitsCancel ==
  ASSUME NEW R, NEW a \in Holding, Drains(R, Held(a)), Decides(R, Held(a))
  PROVE  Fits(R, a, CancelTask)
<1>1. Fits(R, a, Section("product"))  BY FitsSection, LockNames DEF Drains
<1>2. Fits(R, a, Within("waiter", Section("product")))  BY FitsDecide DEF DecideApproval
<1>3. Fits(R, a, DrainWaiters)  BY FitsDrain
<1>. QED  BY <1>1, <1>2, <1>3, FitsThen DEF CancelTask

LEMMA FitsAction ==
  ASSUME NEW R, NEW a \in Holding, NEW p, May(R, Held(a), "product"),
         Fits(R, Plus(a, "product"), p)
  PROVE  Fits(R, a, Action(p))
<1>. DEFINE b == Plus(a, "product")
<1>1. b \in Holding /\ Held(b) = Held(a) \cup {"product"}  BY HeldPlus, LockNames
<1>2. May(R, Held(b), "product")  BY <1>1 DEF May
<1>3. Fits(R, b, Section("product"))  BY <1>1, <1>2, FitsSection, LockNames
<1>4. Fits(R, b, Section("product") \o p)  BY <1>3, FitsThen
<1>. QED  BY <1>4, FitsWithin, LockNames DEF Action

\* A pool that a thread waits for under the product lock waits for that thread.
Own == IF FanOut THEN {<<"product", "product">>} ELSE {}

\* What each handler asks for while it holds another lock.
Asks(h) ==
  CASE h \in {"run", "retry"} -> {}
    [] h \in {"plan", "action plan"} -> {<<"product", "watch">>}
    [] h = "decide" -> {<<"waiter", "product">>}
    [] h = "failed" -> {<<"graph", "product">>, <<"graph", "watch">>}
    [] h \in {"cancel", "interrupted"} ->
         {<<"graph", "product">>, <<"graph", "watch">>, <<"waiter", "product">>}
    [] h = "completed" ->
         {<<"watch", "product">>, <<"watch", "graph">>, <<"graph", "product">>}
    [] h \in {"action submit", "action retry"} -> {<<"product", "watch">>} \cup Own
    [] h = "action cancel" ->
         {<<"product", "waiter">>, <<"product", "graph">>, <<"product", "watch">>,
          <<"graph", "watch">>, <<"graph", "product">>} \cup Own
    [] h = "action decide" -> {<<"product", "waiter">>}

LEMMA FreeHolding == Free \in Holding /\ Held(Free) = {}
BY DEF Free, Holding, Held

LEMMA UnderProduct ==
  /\ Plus(Free, "product") \in Holding /\ Held(Plus(Free, "product")) = {"product"}
  /\ Plus(Free, "watch") \in Holding /\ Held(Plus(Free, "watch")) = {"watch"}
BY FreeHolding, HeldPlus, LockNames

LEMMA CallsFit ==
  ASSUME NEW R, NEW h \in {"run", "retry", "plan", "decide", "cancel", "failed",
                           "interrupted"},
         Asks(h) \subseteq R
  PROVE  Fits(R, Free, Program(h))
<1>. USE FreeHolding, LockNames
<1>1. \A l \in Lock : May(R, {}, l) /\ Fits(R, Free, Section(l))
  <2>1. \A l \in Lock : May(R, {}, l)  BY DEF May
  <2>. QED  BY <2>1, FitsSection
<1>2. Pools(R, {})  BY <1>1 DEF Pools
<1>3. Fits(R, Free, RunTask)  BY <1>1, <1>2, FitsRun
<1>4. CASE h = "run"  BY <1>3, <1>4 DEF Program
<1>5. CASE h = "retry"
  <2>1. Fits(R, Free, RetryTask)  BY <1>1, <1>3, FitsThen DEF RetryTask
  <2>. QED  BY <1>5, <2>1 DEF Program
<1>6. CASE h = "plan"
  <2>1. May(R, {} \cup {"product"}, "watch")  BY <1>6 DEF Asks, May
  <2>2. Fits(R, Free, PlanTask)  BY <1>1, <2>1, FitsPlan
  <2>. QED  BY <1>6, <2>2 DEF Program
<1>7. ASSUME <<"waiter", "product">> \in R  PROVE Decides(R, {})
  <2>1. May(R, {} \cup {"waiter"}, "product")  BY <1>7 DEF May
  <2>. QED  BY <1>1, <2>1 DEF Decides
<1>8. ASSUME <<"graph", "product">> \in R, <<"graph", "watch">> \in R  PROVE Drains(R, {})
  <2>1. May(R, {} \cup {"graph"}, "product") /\ May(R, {} \cup {"graph"}, "watch")
    BY <1>8 DEF May
  <2>2. Pools(R, {} \cup {"graph"})  BY <1>8, <2>1 DEF Pools
  <2>. QED  BY <1>1, <2>1, <2>2 DEF Drains
<1>9. CASE h = "decide"
  <2>1. <<"waiter", "product">> \in R  BY <1>9 DEF Asks
  <2>2. Fits(R, Free, DecideApproval)  BY <1>7, <2>1, FitsDecide
  <2>. QED  BY <1>9, <2>2 DEF Program
<1>10. CASE h = "failed"
  <2>1. <<"graph", "product">> \in R /\ <<"graph", "watch">> \in R  BY <1>10 DEF Asks
  <2>2. Fits(R, Free, DrainWaiters)  BY <1>8, <2>1, FitsDrain
  <2>3. Fits(R, Free, TurnFails)  BY <1>1, <2>2, FitsThen DEF TurnFails
  <2>. QED  BY <1>10, <2>3 DEF Program
<1>11. CASE h \in {"cancel", "interrupted"}
  <2>1. /\ <<"graph", "product">> \in R /\ <<"graph", "watch">> \in R
        /\ <<"waiter", "product">> \in R
    BY <1>11 DEF Asks
  <2>2. Fits(R, Free, CancelTask)  BY <1>7, <1>8, <2>1, FitsCancel
  <2>3. Fits(R, Free, TurnInterrupted)  BY <1>1, <2>2, FitsThen DEF TurnInterrupted
  <2>. QED  BY <1>11, <2>2, <2>3 DEF Program
<1>. QED  BY <1>4, <1>5, <1>6, <1>9, <1>10, <1>11

LEMMA CompletionFits ==
  ASSUME NEW R, Asks("completed") \subseteq R
  PROVE  Fits(R, Free, Program("completed"))
<1>. DEFINE a == Plus(Free, "watch")
<1>. USE FreeHolding, LockNames, UnderProduct
<1>1. <<"watch", "product">> \in R /\ <<"watch", "graph">> \in R /\ <<"graph", "product">> \in R
  BY DEF Asks
<1>2. /\ May(R, {}, "watch") /\ May(R, {"watch"}, "product") /\ May(R, {"watch"}, "graph")
      /\ May(R, {"watch"} \cup {"graph"}, "watch")
      /\ May(R, {"watch"} \cup {"graph"}, "product")
  BY <1>1 DEF May
<1>3. Pools(R, {"watch"} \cup {"graph"})  BY <1>1, <1>2 DEF Pools
<1>4. Fits(R, a, Section("product"))  BY <1>2, FitsSection
<1>5. Fits(R, a, ResumeGraph)  BY <1>2, <1>3, FitsResume
<1>6. Fits(R, a, DrainWaiters)  BY <1>2, <1>3, FitsDrain DEF Drains
<1>7. Fits(R, a, Section("product") \o ResumeGraph \o DrainWaiters)
  BY <1>4, <1>5, <1>6, FitsThen
<1>8. Fits(R, Free, TurnCompletes)  BY <1>2, <1>7, FitsWithin DEF TurnCompletes
<1>. QED  BY <1>8 DEF Program

LEMMA ActionsFit ==
  ASSUME NEW R, NEW h \in {"action submit", "action plan", "action retry",
                           "action cancel", "action decide"},
         Asks(h) \subseteq R
  PROVE  Fits(R, Free, Program(h))
<1>. DEFINE a == Plus(Free, "product")
<1>. USE FreeHolding, LockNames, UnderProduct
<1>1. May(R, {}, "product") /\ May(R, {"product"}, "product")
      /\ May(R, {"product"} \cup {"product"}, "product")
      /\ May(R, {"product"} \cup {"graph"}, "product")
      /\ May(R, {"product"} \cup {"waiter"}, "product")
  BY DEF May
<1>2. Fits(R, a, Section("product"))  BY <1>1, FitsSection
<1>3. CASE h = "action plan"
  <2>1. May(R, {"product"} \cup {"product"}, "watch")  BY <1>3, MayUnder DEF Asks
  <2>2. Fits(R, a, PlanTask)  BY <1>1, <2>1, FitsPlan
  <2>3. Fits(R, Free, Action(PlanTask))  BY <1>1, <2>2, FitsAction
  <2>. QED  BY <1>3, <2>3 DEF Program
<1>4. CASE h \in {"action submit", "action retry"}
  <2>1. <<"product", "watch">> \in R /\ (FanOut => <<"product", "product">> \in R)
    BY <1>4 DEF Asks, Own
  <2>2. May(R, {"product"}, "watch")  BY <2>1, MayUnder
  <2>3. Pools(R, {"product"})  BY <1>1, <2>1, MayUnder DEF Pools
  <2>4. Fits(R, a, RunTask)  BY <2>2, <2>3, FitsRun
  <2>5. Fits(R, a, RetryTask)  BY <1>2, <2>4, FitsThen DEF RetryTask
  <2>6. Fits(R, Free, Action(RunTask)) /\ Fits(R, Free, Action(RetryTask))
    BY <1>1, <2>4, <2>5, FitsAction
  <2>. QED  BY <1>4, <2>6 DEF Program
<1>5. CASE h = "action cancel"
  <2>1. /\ <<"product", "waiter">> \in R /\ <<"product", "graph">> \in R
        /\ <<"product", "watch">> \in R /\ <<"graph", "watch">> \in R
        /\ <<"graph", "product">> \in R /\ (FanOut => <<"product", "product">> \in R)
    BY <1>5 DEF Asks, Own
  <2>2. /\ May(R, {"product"}, "graph") /\ May(R, {"product"} \cup {"graph"}, "watch")
        /\ May(R, {"product"}, "waiter")
    BY <2>1, MayUnder
  <2>3. Pools(R, {"product"} \cup {"graph"})  BY <1>1, <2>1, MayUnder DEF Pools
  <2>4. Drains(R, {"product"}) /\ Decides(R, {"product"})
    BY <1>1, <2>2, <2>3 DEF Drains, Decides
  <2>5. Fits(R, a, CancelTask)  BY <2>4, FitsCancel
  <2>6. Fits(R, Free, Action(CancelTask))  BY <1>1, <2>5, FitsAction
  <2>. QED  BY <1>5, <2>6 DEF Program
<1>6. CASE h = "action decide"
  <2>1. May(R, {"product"}, "waiter")  BY <1>6, MayUnder DEF Asks
  <2>2. Fits(R, a, DecideApproval)  BY <1>1, <2>1, FitsDecide DEF Decides
  <2>3. Fits(R, Free, Action(DecideApproval))  BY <1>1, <2>2, FitsAction
  <2>. QED  BY <1>6, <2>3 DEF Program
<1>. QED  BY <1>3, <1>4, <1>5, <1>6

LEMMA HandlersFit ==
  ASSUME NEW R, NEW h \in HandlerNames, Asks(h) \subseteq R
  PROVE  Fits(R, Free, Program(h))
<1>1. \/ h \in {"run", "retry", "plan", "decide", "cancel", "failed", "interrupted"}
      \/ h = "completed"
      \/ h \in {"action submit", "action plan", "action retry", "action cancel",
                "action decide"}
  BY DEF HandlerNames
<1>. QED  BY <1>1, CallsFit, CompletionFits, ActionsFit

-----------------------------------------------------------------------------
(* The inductive invariant.                                                *)

\* What the handlers of a mix ask for.
Asked(m) == UNION {Asks(h) : h \in m}

Holds(x) == [l \in Lock |-> IF owner[l] = x THEN depth[l] ELSE 0]

LockInv ==
  /\ mix \in Mixes
  /\ owner \in [Lock -> Thread \cup {None}] /\ depth \in [Lock -> Nat]
  /\ \A l \in Lock : owner[l] = None <=> depth[l] = 0
  /\ rest \in [Thread -> Seq(Sections)]
  /\ \A x \in Thread : Runs(Asked(mix), Holds(x), rest[x], Free)

LEMMA HoldsType == ASSUME LockInv, NEW x \in Thread  PROVE Holds(x) \in Holding
BY DEF LockInv, Holds, Holding

LEMMA LockStart == LockInit => LockInv
<1>. SUFFICES ASSUME LockInit  PROVE LockInv
  OBVIOUS
<1>1. ASSUME NEW x \in Thread  PROVE Runs(Asked(mix), Holds(x), rest[x], Free)
  <2>1. None # x  BY LockAssumption DEF LockAssumption
  <2>2. Holds(x) = Free  BY <2>1 DEF LockInit, Holds, Free
  <2>. DEFINE f == [i \in 0..0 |-> Free]
  <2>3. Len(<<>>) = 0 /\ f \in [0..0 -> Holding] /\ f[0] = Free  BY FreeHolding
  <2>. HIDE DEF f
  <2>4. Trace(Asked(mix), <<>>, f)  BY <2>3 DEF Trace
  <2>5. Runs(Asked(mix), Free, <<>>, Free)  BY <2>3, <2>4 DEF Runs
  <2>. QED  BY <2>2, <2>5 DEF LockInit
<1>2. <<>> \in Seq(Sections)  BY EmptySeq
<1>. QED  BY <1>1, <1>2 DEF LockInit, LockInv

\* A thread goes one section on, while the others hold what they held.
LEMMA GoesOn ==
  ASSUME LockInv, NEW x \in Thread, Busy(x), Advance(x),
         owner' \in [Lock -> Thread \cup {None}], depth' \in [Lock -> Nat],
         \A l \in Lock : owner'[l] = None <=> depth'[l] = 0,
         \A y \in Thread : y # x => Holds(y)' = Holds(y),
         \A b \in Holding : Goes(Asked(mix), Holds(x), Step(x), b) => Holds(x)' = b
  PROVE  LockInv'
<1>1. rest[x] \in Seq(Sections) /\ rest[x] # <<>> /\ rest \in [Thread -> Seq(Sections)]
      /\ mix' = mix
  BY DEF LockInv, Busy, Advance
<1>2. /\ rest' \in [Thread -> Seq(Sections)] /\ rest'[x] = Tail(rest[x])
      /\ \A y \in Thread : y # x => rest'[y] = rest[y]
  BY <1>1, HeadTailProperties DEF Advance
<1>3. PICK b \in Holding : /\ Goes(Asked(mix), Holds(x), Head(rest[x]), b)
                           /\ Runs(Asked(mix), b, Tail(rest[x]), Free)
  BY <1>1, RunsNext DEF LockInv
<1>4. Holds(x)' = b  BY <1>3 DEF Step
<1>5. \A y \in Thread : Runs(Asked(mix), Holds(y)', rest'[y], Free)
  BY <1>2, <1>3, <1>4 DEF LockInv
<1>. QED  BY <1>1, <1>2, <1>5 DEF LockInv

LEMMA LockStep == LockInv /\ [LockNext]_lockVars => LockInv'
<1>. SUFFICES ASSUME LockInv, [LockNext]_lockVars  PROVE LockInv'
  OBVIOUS
<1>. USE DEF Holds
<1>1. /\ owner \in [Lock -> Thread \cup {None}] /\ depth \in [Lock -> Nat]
      /\ \A l \in Lock : owner[l] = None <=> depth[l] = 0
      /\ rest \in [Thread -> Seq(Sections)] /\ None \notin Thread
  BY LockAssumption DEF LockInv, LockAssumption
<1>2. ASSUME NEW x \in Thread, Busy(x)  PROVE Step(x).lock \in Lock /\ Step(x) \in Sections
  <2>1. Step(x) \in Sections  BY <1>1, <1>2, HeadTailProperties DEF Busy, Step
  <2>. QED  BY <2>1 DEF Sections
<1>3. ASSUME NEW x \in Thread, NEW h \in mix, Begin(x, h)  PROVE LockInv'
  <2>1. h \in HandlerNames /\ Asks(h) \subseteq Asked(mix)
    BY LockAssumption DEF LockAssumption, LockInv, Asked
  <2>2. Fits(Asked(mix), Free, Program(h))  BY <2>1, HandlersFit
  <2>3. rest[x] = <<>> /\ UNCHANGED <<mix, owner, depth>>
        /\ rest' = [rest EXCEPT ![x] = Program(h)]
    BY <1>3 DEF Begin, Busy
  <2>4. Holds(x) = Free
    <3>. HIDE DEF Holds
    <3>1. Runs(Asked(mix), Holds(x), <<>>, Free)  BY <2>3 DEF LockInv
    <3>. QED  BY <3>1, RunsNothing
  <2>5. \A y \in Thread : Holds(y)' = Holds(y)  BY <2>3
  <2>6. \A y \in Thread : Runs(Asked(mix), Holds(y)', rest'[y], Free)
    BY <1>1, <2>2, <2>3, <2>4, <2>5 DEF LockInv, Fits
  <2>7. rest' \in [Thread -> Seq(Sections)]  BY <1>1, <2>2, <2>3 DEF Fits
  <2>. QED  BY <2>3, <2>6, <2>7 DEF LockInv
<1>4. ASSUME NEW x \in Thread, Take(x)  PROVE LockInv'
  <2>. DEFINE l == Step(x).lock
  <2>1. /\ Busy(x) /\ Step(x).op = "take" /\ owner[l] \in {None, x} /\ Advance(x)
        /\ owner' = [owner EXCEPT ![l] = x] /\ depth' = [depth EXCEPT ![l] = @ + 1]
    BY <1>4 DEF Take, Admits
  <2>2. l \in Lock  BY <1>2, <2>1
  <2>3. /\ owner' \in [Lock -> Thread \cup {None}] /\ depth' \in [Lock -> Nat]
        /\ \A k \in Lock : owner'[k] = None <=> depth'[k] = 0
    BY <1>1, <2>1, <2>2
  <2>4. \A y \in Thread : y # x => Holds(y)' = Holds(y)  BY <1>1, <2>1, <2>2
  <2>5. Holds(x)' = Plus(Holds(x), l)  BY <1>1, <2>1, <2>2 DEF Plus
  <2>6. \A b \in Holding : Goes(Asked(mix), Holds(x), Step(x), b) => Holds(x)' = b
    BY <2>1, <2>5 DEF Goes
  <2>. QED  BY <2>1, <2>3, <2>4, <2>6, GoesOn
<1>5. ASSUME NEW x \in Thread, Give(x)  PROVE LockInv'
  <2>. DEFINE l == Step(x).lock
  <2>1. /\ Busy(x) /\ Step(x).op = "give" /\ Advance(x)
        /\ depth' = [depth EXCEPT ![l] = @ - 1]
        /\ owner' = [owner EXCEPT ![l] = IF depth[l] = 1 THEN None ELSE @]
    BY <1>5 DEF Give
  <2>2. l \in Lock  BY <1>2, <2>1
  <2>3. l \in Held(Holds(x))
    <3>1. \E b \in Holding : Goes(Asked(mix), Holds(x), Step(x), b)
      BY <1>1, <2>1, RunsNext DEF LockInv, Busy, Step
    <3>. QED  BY <2>1, <3>1 DEF Goes
  <2>4. owner[l] = x /\ depth[l] \in Nat \ {0}  BY <1>1, <2>2, <2>3 DEF Held
  <2>5. /\ owner' \in [Lock -> Thread \cup {None}] /\ depth' \in [Lock -> Nat]
        /\ \A k \in Lock : owner'[k] = None <=> depth'[k] = 0
    BY <1>1, <2>1, <2>2, <2>4
  <2>6. \A y \in Thread : y # x => Holds(y)' = Holds(y)  BY <1>1, <2>1, <2>2, <2>4
  <2>7. Holds(x)' = Minus(Holds(x), l)  BY <1>1, <2>1, <2>2, <2>4 DEF Minus
  <2>8. \A b \in Holding : Goes(Asked(mix), Holds(x), Step(x), b) => Holds(x)' = b
    BY <2>1, <2>7 DEF Goes
  <2>. QED  BY <2>1, <2>5, <2>6, <2>8, GoesOn
<1>6. ASSUME NEW x \in Thread, Use(x) \/ Pool(x)  PROVE LockInv'
  <2>1. /\ Busy(x) /\ Step(x).op \in {"use", "pool"} /\ Advance(x)
        /\ UNCHANGED <<owner, depth>>
    BY <1>6 DEF Use, Pool
  <2>2. \A y \in Thread : Holds(y)' = Holds(y)  BY <2>1
  <2>3. \A b \in Holding : Goes(Asked(mix), Holds(x), Step(x), b) => Holds(x)' = b
    BY <2>1, <2>2 DEF Goes
  <2>. QED  BY <1>1, <2>1, <2>2, <2>3, GoesOn
<1>7. CASE UNCHANGED lockVars  BY <1>7 DEF LockInv, lockVars
<1>. QED  BY <1>3, <1>4, <1>5, <1>6, <1>7 DEF LockNext

LEMMA LockInvariant == LockSpec => []LockInv
BY LockStart, LockStep, PTL DEF LockSpec

-----------------------------------------------------------------------------
(* The types.                                                              *)

Gives(p, l) == {i \in DOMAIN p : p[i] = [op |-> "give", lock |-> l]}

\* Every set of numbers has a least one.
LEMMA Least ==
  ASSUME NEW S \in SUBSET Nat, S # {}
  PROVE  \E n \in S : \A m \in S : ~(m < n)
<1>1. PICK n \in S : \A m \in S : ~(<<m, n>> \in OpToRel(<, Nat))
  BY NatLessThanWellFounded, WFMin
<1>2. \A m \in S : m < n => <<m, n>> \in OpToRel(<, Nat)  BY DEF OpToRel
<1>. QED  BY <1>1, <1>2

\* What a thread holds it gives back: the first sections that hold less than v of a
\* lock are as many as there are numbers v up to what is held of it.
LEMMA GivesBack ==
  ASSUME NEW R, NEW a \in Holding, NEW p \in Seq(Sections), Runs(R, a, p, Free),
         NEW l \in Lock
  PROVE  Cardinality(Gives(p, l)) >= a[l]
<1>1. PICK f : Trace(R, p, f) /\ f[0] = a /\ f[Len(p)] = Free  BY DEF Runs
<1>. DEFINE n == Len(p)
            Under(v) == {i \in 0..n : f[i][l] < v}
            First(v) == CHOOSE i \in Under(v) : \A j \in Under(v) : ~(j < i)
            first == [v \in 1..a[l] |-> First(v)]
<1>2. /\ n \in Nat /\ DOMAIN p = 1..n /\ f \in [0..n -> Holding] /\ a[l] \in Nat
      /\ \A i \in 0..n : f[i][l] \in Nat
      /\ \A i \in 1..n : p[i] \in Sections
  BY <1>1, LenProperties, ElementOfSeq DEF Trace, Holding
<1>3. ASSUME NEW v \in 1..a[l]
      PROVE  /\ first[v] \in Gives(p, l) /\ first[v] \in 1..n /\ f[first[v] - 1][l] = v
  <2>1. n \in Under(v) /\ Under(v) \subseteq Nat  BY <1>1, <1>2 DEF Free
  <2>2. first[v] \in Under(v) /\ \A j \in Under(v) : ~(j < first[v])
    <3>1. \E i \in Under(v) : \A j \in Under(v) : ~(j < i)  BY <2>1, Least
    <3>2. first[v] = CHOOSE i \in Under(v) : \A j \in Under(v) : ~(j < i)
      OBVIOUS
    <3>. HIDE DEF first, Under
    <3>. QED  BY <3>1, <3>2
  <2>. DEFINE i == first[v]
  <2>. HIDE DEF first
  <2>3. i \in 0..n /\ f[i][l] < v  BY <2>2
  <2>4. i # 0  BY <1>1, <1>2, <2>3
  <2>5. i \in 1..n /\ i - 1 \in 0..n /\ i - 1 < i  BY <1>2, <2>3, <2>4
  <2>6. ~(f[i-1][l] < v)  BY <2>2, <2>5
  <2>7. Goes(R, f[i-1], p[i], f[i])  BY <1>1, <2>5 DEF Trace
  <2>8. f[i-1] \in Holding /\ f[i] \in Holding /\ p[i] \in Sections  BY <1>2, <2>3, <2>5
  <2>9. f[i][l] < f[i-1][l]  BY <1>2, <2>3, <2>5, <2>6
  <2>10. p[i].op = "give" /\ f[i] = Minus(f[i-1], p[i].lock)
    <3>1. p[i].lock \in Lock  BY <2>8 DEF Sections
    <3>2. Plus(f[i-1], p[i].lock)[l] >= f[i-1][l]
      BY <2>8, <3>1 DEF Plus, Holding
    <3>3. p[i].op = "take" => f[i] = Plus(f[i-1], p[i].lock)  BY <2>7 DEF Goes
    <3>. QED  BY <1>2, <2>3, <2>5, <2>7, <2>9, <3>2, <3>3 DEF Goes
  <2>11. p[i].lock = l /\ f[i][l] = f[i-1][l] - 1
    BY <2>8, <2>9, <2>10 DEF Minus, Holding, Sections
  <2>12. f[i-1][l] = v  BY <1>2, <2>3, <2>5, <2>6, <2>11
  <2>13. p[i] = [op |-> "give", lock |-> l]  BY <2>8, <2>10, <2>11 DEF Sections
  <2>. QED  BY <1>2, <2>5, <2>12, <2>13 DEF Gives
<1>4. first \in [1..a[l] -> Gives(p, l)]
  <2>. HIDE DEF First
  <2>. QED  BY <1>3
<1>. HIDE DEF first
<1>5. first \in Injection(1..a[l], Gives(p, l))
  BY <1>3, <1>4 DEF Injection, IsInjective
<1>6. IsFiniteSet(Gives(p, l))
  <2>1. IsFiniteSet(1..n)  BY <1>2, FS_Interval
  <2>2. Gives(p, l) \subseteq 1..n  BY <1>2 DEF Gives
  <2>. QED  BY <2>1, <2>2, FS_Subset
<1>7. Cardinality(1..a[l]) = a[l]  BY <1>2, FS_Interval
<1>8. Cardinality(1..a[l]) <= Cardinality(Gives(p, l))  BY <1>5, <1>6, FS_Injection
<1>9. Cardinality(Gives(p, l)) \in Nat  BY <1>6, FS_CardinalityType
<1>. QED  BY <1>2, <1>7, <1>8, <1>9

\* A lock is held by a thread whose handler gives it back as often as it took it,
\* whichever handlers run together.
THEOREM LocksAreGivenBack == LockSpec => []LockTypeOK
<1>1. ASSUME LockInv, NEW l \in Lock, owner[l] # None
      PROVE  Cardinality({i \in DOMAIN rest[owner[l]] :
                            rest[owner[l]][i] = [op |-> "give", lock |-> l]}) >= depth[l]
  <2>. DEFINE x == owner[l]
  <2>1. x \in Thread /\ rest[x] \in Seq(Sections) /\ Runs(Asked(mix), Holds(x), rest[x], Free)
    BY <1>1 DEF LockInv
  <2>2. Holds(x) \in Holding /\ Holds(x)[l] = depth[l]  BY <1>1, <2>1, HoldsType DEF Holds
  <2>. QED  BY <2>1, <2>2, GivesBack DEF Gives
<1>2. LockInv => LockTypeOK  BY <1>1 DEF LockInv, LockTypeOK
<1>. QED  BY <1>2, LockInvariant, PTL

-----------------------------------------------------------------------------
(* The order.                                                              *)

\* Two locks are asked for in one order only.
Ranked(r, m) ==
  r \in [Lock -> 1..4] /\ \A p \in Asked(m) : r[p[1]] < r[p[2]]

\* A thread that waits asks for a lock above all it holds.
LEMMA WaitsAbove ==
  ASSUME LockInv, NEW r, Ranked(r, mix), NEW x \in Thread, NEW y \in Thread, WaitsFor(x, y)
  PROVE  /\ Step(x).lock \in Lock /\ owner[Step(x).lock] = y
         /\ \A l \in Lock : owner[l] = x => r[l] < r[Step(x).lock]
<1>. DEFINE s == Step(x)
<1>1. rest[x] \in Seq(Sections) /\ rest[x] # <<>> /\ s.op # "give" /\ owner[s.lock] = y
      /\ (x # y \/ s.op = "pool")
  BY DEF LockInv, WaitsFor, Busy
<1>2. s \in Sections /\ s.lock \in Lock
  <2>1. s \in Sections  BY <1>1, HeadTailProperties DEF Step
  <2>. QED  BY <2>1 DEF Sections
<1>3. PICK b \in Holding : Goes(Asked(mix), Holds(x), s, b)
  BY <1>1, RunsNext DEF LockInv, Step
<1>4. \A l \in Lock : l \in Held(Holds(x)) <=> owner[l] = x
  BY LockAssumption DEF LockAssumption, LockInv, Holds, Held
<1>5. Held(Holds(x)) \X {s.lock} \subseteq Asked(mix)
  <2>1. s.op # "pool" => s.lock \notin Held(Holds(x))  BY <1>1, <1>2, <1>4
  <2>. QED  BY <1>1, <1>3, <2>1 DEF Goes, May
<1>6. \A l \in Lock : owner[l] = x => r[l] < r[s.lock]
  <2>1. \A l \in Lock : owner[l] = x => <<l, s.lock>> \in Asked(mix)  BY <1>4, <1>5
  <2>2. \A l, k : <<l, k>> \in Asked(mix) => r[l] < r[k]  BY DEF Ranked
  <2>. HIDE DEF s
  <2>. QED  BY <2>1, <2>2
<1>. QED  BY <1>1, <1>2, <1>6

\* Of the threads of a ring the one that waits for the highest lock waits for nobody.
LEMMA NoRing ==
  ASSUME LockInv, NEW r, Ranked(r, mix), NEW ring \in SUBSET Thread, ring # {},
         \A x \in ring : \E y \in ring : WaitsFor(x, y)
  PROVE  FALSE
<1>. DEFINE rank(x) == r[Step(x).lock]
<1>1. ASSUME NEW x \in ring  PROVE rank(x) \in 1..4 /\ \E y \in ring : rank(x) < rank(y)
  <2>1. PICK y \in ring : WaitsFor(x, y)
    OBVIOUS
  <2>2. PICK z \in ring : WaitsFor(y, z)
    OBVIOUS
  <2>3. Step(x).lock \in Lock /\ owner[Step(x).lock] = y  BY <2>1, WaitsAbove
  <2>4. rank(x) < rank(y)  BY <2>2, <2>3, WaitsAbove
  <2>. QED  BY <2>3, <2>4 DEF Ranked
<1>. HIDE DEF rank
<1>2. PICK x1 \in ring : TRUE
  OBVIOUS
<1>3. PICK x2 \in ring : rank(x1) < rank(x2)  BY <1>1
<1>4. PICK x3 \in ring : rank(x2) < rank(x3)  BY <1>1
<1>5. PICK x4 \in ring : rank(x3) < rank(x4)  BY <1>1
<1>6. PICK x5 \in ring : rank(x4) < rank(x5)  BY <1>1
<1>7. /\ rank(x1) \in 1..4 /\ rank(x2) \in 1..4 /\ rank(x3) \in 1..4 /\ rank(x4) \in 1..4
      /\ rank(x5) \in 1..4
  BY <1>1
<1>. QED  BY <1>3, <1>4, <1>5, <1>6, <1>7

\* Handlers whose locks can be ranked never wait for one another in a ring, nor does
\* a thread wait for itself through a pool, for any number of threads.
THEOREM RankedLocksNeverRing ==
  ASSUME \A m \in Mixes : \E r : Ranked(r, m)
  PROVE  LockSpec => []NoCircularWait
<1>1. ASSUME LockInv  PROVE NoCircularWait
  <2>1. PICK r : Ranked(r, mix)  BY <1>1 DEF LockInv
  <2>2. ASSUME NEW ring \in (SUBSET Thread) \ {{}}, \A x \in ring : \E y \in ring : WaitsFor(x, y)
        PROVE  FALSE
    BY <1>1, <2>1, <2>2, NoRing
  <2>. QED  BY <2>2 DEF NoCircularWait
<1>2. LockInv => NoCircularWait  BY <1>1
<1>. QED  BY <1>2, LockInvariant, PTL

\* The calls of users, the failures and interruptions of Turns and the Actions that
\* plan; an Action that runs a task only where a graph has one node at a time.
CallMix ==
  {"run", "retry", "plan", "cancel", "decide", "failed", "interrupted", "action plan"}
  \cup IF FanOut THEN {} ELSE {"action submit", "action retry"}

\* A Turn that completes resumes its graph under the lock of the supervisor.
CompletionMix == {"run", "retry", "decide", "completed"}

CallRank == [l \in Lock |-> CASE l = "waiter" -> 1 [] l = "graph" -> 2
                              [] l = "product" -> 3 [] l = "watch" -> 4]
CompletionRank == [l \in Lock |-> CASE l = "watch" -> 1 [] l = "graph" -> 2
                                    [] l = "waiter" -> 3 [] l = "product" -> 4]

LEMMA CallsRanked == ASSUME NEW m, m \subseteq CallMix  PROVE Ranked(CallRank, m)
<1>1. CallRank \in [Lock -> 1..4]  BY DEF CallRank, Lock
<1>2. CallRank["waiter"] = 1 /\ CallRank["graph"] = 2 /\ CallRank["product"] = 3
      /\ CallRank["watch"] = 4
  BY DEF CallRank, Lock
<1>3. ASSUME NEW h \in m, NEW p \in Asks(h)  PROVE CallRank[p[1]] < CallRank[p[2]]
  <2>1. p \in {<<"product", "watch">>, <<"waiter", "product">>, <<"graph", "product">>,
               <<"graph", "watch">>}
    <3>1. CASE h \in {"run", "retry", "plan", "cancel", "decide", "failed", "interrupted",
                      "action plan"}
      BY <1>3, <3>1 DEF Asks
    <3>2. CASE h \in {"action submit", "action retry"} /\ ~FanOut
      BY <1>3, <3>2 DEF Asks, Own
    <3>. QED  BY <3>1, <3>2 DEF CallMix
  <2>. HIDE DEF CallRank
  <2>. QED  BY <1>2, <2>1
<1>. QED  BY <1>1, <1>3 DEF Ranked, Asked

LEMMA CompletionsRanked ==
  ASSUME NEW m, m \subseteq CompletionMix  PROVE Ranked(CompletionRank, m)
<1>1. CompletionRank \in [Lock -> 1..4]  BY DEF CompletionRank, Lock
<1>2. CompletionRank["watch"] = 1 /\ CompletionRank["graph"] = 2
      /\ CompletionRank["waiter"] = 3 /\ CompletionRank["product"] = 4
  BY DEF CompletionRank, Lock
<1>3. ASSUME NEW h \in m, NEW p \in Asks(h)
      PROVE  CompletionRank[p[1]] < CompletionRank[p[2]]
  <2>1. p \in {<<"watch", "product">>, <<"watch", "graph">>, <<"graph", "product">>,
               <<"waiter", "product">>}
    BY <1>3 DEF Asks, CompletionMix
  <2>. HIDE DEF CompletionRank
  <2>. QED  BY <1>2, <2>1
<1>. QED  BY <1>1, <1>3 DEF Ranked, Asked

\* The backend has no deadlock while no Turn completes, and none while nothing but
\* calls of run and retry, decisions and completions go on; what a completion adds to
\* the other ends of a Turn is what the run of LockOrderSupervisor.cfg shows.
THEOREM HandlersNeverRing ==
  ASSUME Mixes \subseteq (SUBSET CallMix) \cup (SUBSET CompletionMix)
  PROVE  LockSpec => []NoCircularWait
<1>1. ASSUME NEW m \in Mixes  PROVE \E r : Ranked(r, m)
  <2>1. CASE m \subseteq CallMix  BY <2>1, CallsRanked
  <2>2. CASE m \subseteq CompletionMix  BY <2>2, CompletionsRanked
  <2>. QED  BY <2>1, <2>2
<1>. QED  BY <1>1, RankedLocksNeverRing

==============================================================================
