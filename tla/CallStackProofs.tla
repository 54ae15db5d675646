-------------------------- MODULE CallStackProofs --------------------------
(***************************************************************************)
(* Child workflows and Programs, for any graph of workflows however deep.  *)
(* What the frames of the call stack and the work orders say of each other *)
(* is kept by every step, the one write that leaves several callers at     *)
(* once included.  The Judge that a hand-over waits for is found by going  *)
(* down the last work orders of the Children: numbers only grow that way,  *)
(* so the search ends.                                                     *)
(***************************************************************************)
EXTENDS CallStack, SequenceTheorems, WellFoundedInduction, TLAPS

Texts == [by : Nat, inv : Nat]
Names == Returns \cup UNION {DOMAIN Target[n] : n \in Nodes}
WorkOrders ==
  [node : Nodes, phase : {"ready", "working", "settling", "exited"}, input : Texts, visit : Nat,
   pred : Nat \cup {None}, succ : Nat \cup {None}, judge : {"none", "open", "settled"},
   text : Texts \cup {None}, program : Invocations \cup {None}, child : Nat \cup {None},
   terminal : Nat \cup {None}, returned : [kind : {"return", "result"}, name : Names] \cup {None},
   restart : BOOLEAN]
CallRecords == [op : {"drive", "steer", "probe", "cwd", "run"}, at : Nat, exec : Nat]

StackTypes ==
  /\ status \in {"running", "blocked", "completed", "terminated"} /\ version \in Nat
  /\ stack \in Seq([node : Nodes, exec : Nat]) /\ current \in DOMAIN execs
  /\ execs \in Seq(WorkOrders) /\ calls \subseteq CallRecords

\* Where a work order that was left has led.
ExitOf(e) == IF e.returned.kind = "return" THEN e.returned.name ELSE Target[e.node][e.returned.name]

\* What a work order says of the others, and of itself, once and for all.
Entry(i) ==
  LET e == execs[i]
  IN  /\ e.visit = i
      /\ e.child # None =>
           /\ Kind[e.node] = "child" /\ e.child \in DOMAIN execs /\ e.child > i
           /\ execs[e.child].node = StartNode[Callee[e.node]] /\ execs[e.child].input = e.input
      /\ e.pred # None =>
           /\ e.pred \in DOMAIN execs /\ e.pred < i /\ execs[e.pred].phase = "exited"
           /\ e.node = ExitOf(execs[e.pred]) /\ e.input = execs[e.pred].text
Left(i) ==
  LET e == execs[i]
  IN  /\ e.terminal # None =>
           /\ Kind[e.node] = "child" /\ e.phase = "exited" /\ e.child # None
           /\ e.terminal \in DOMAIN execs /\ e.child <= e.terminal
           /\ execs[e.terminal].phase = "exited"
           /\ WorkflowOf[execs[e.terminal].node] = Callee[e.node]
           /\ ExitOf(e) = Target[e.node][ExitOf(execs[e.terminal])]
           /\ e.text = execs[e.terminal].text
      /\ e.phase = "exited" =>
           /\ e.text \in Texts
           /\ Kind[e.node] = "child" => e.terminal # None
           /\ Kind[e.node] = "program" => e.text \in {e.input, [by |-> i, inv |-> e.program.id]}
           /\ Kind[e.node] = "task" => e.text.by = i
      /\ e.judge # "none" => Kind[e.node] = "task" /\ e.phase = "exited"
      /\ e.program # None => e.program.id <= version
      /\ e.restart => i = current /\ status = "blocked" /\ turns = {}
      /\ e.phase # "exited" /\ status # "terminated" => \E d \in DOMAIN stack : stack[d].exec = i
History == \A i \in DOMAIN execs : Entry(i) /\ Left(i)

\* A caller in its frame, and the frame of its Child on it.
CallerFrame(d) ==
  LET e == execs[stack[d].exec]
  IN  /\ Kind[e.node] = "child" /\ e.phase = "working" /\ e.child # None /\ e.terminal = None
      /\ e.child <= stack[d + 1].exec
      /\ WorkflowOf[stack[d + 1].node] = Callee[e.node]
Frames ==
  /\ \A d \in DOMAIN stack : /\ stack[d].exec \in DOMAIN execs
                             /\ stack[d].node = execs[stack[d].exec].node
  /\ \A d, k \in DOMAIN stack : d < k => stack[d].exec < stack[k].exec
  /\ \A d \in DOMAIN stack : d < Len(stack) => CallerFrame(d)
  /\ status \in {"running", "blocked"} =>
       /\ current = Len(execs) /\ stack # <<>> /\ Top.exec = current
       /\ cur.phase # "exited" /\ cur.child = None /\ cur.terminal = None
  /\ status = "completed" => stack = <<>>

\* The Judge that the current work order waits for has settled.
Settled == cur.pred # None => LET j == TransferJudge(cur.pred)
                              IN  j # None => execs[j].judge = "settled"

Live == status \in {"running", "blocked"}

\* What the suspended handlers and the Judges in their turns rely on.
Timely(c) == /\ c.at <= version
             /\ c.op \in {"steer", "probe"} /\ c.at = version => status = "running"
             /\ c.op \in {"cwd", "run"} => c.exec \in DOMAIN execs /\ Kind[execs[c.exec].node] = "program"
Probes(c) == /\ c.exec \in DOMAIN execs \ turns /\ execs[c.exec].judge # "none"
             /\ c.at = version => cur.pred # None /\ c.exec = TransferJudge(cur.pred)
Dispatched == Live /\ cur.phase = "working" =>
                /\ Kind[cur.node] = "task" => Settled
                /\ Kind[cur.node] = "program" => cur.program # None
TurnsAreOpen == \A i \in turns : i \in DOMAIN execs /\ execs[i].judge = "open"
CallsInv ==
  /\ \A c \in calls : Timely(c)
  /\ \A c \in calls : c.op = "drive" => Settled
  /\ \A c \in calls : c.op = "probe" => Probes(c)
  /\ Dispatched /\ TurnsAreOpen

StackInv == StackTypes /\ History /\ Frames
CallStackInv == StackInv /\ CallsInv /\ ProgramIsAwaited

-----------------------------------------------------------------------------
(* Searches that go one way end.                                           *)

LEMMA LeastNumber ==
  ASSUME NEW T \in SUBSET Nat, T # {}
  PROVE  \E x \in T : \A y \in T : x <= y
<1> DEFINE R == OpToRel(<, Nat)
<1>1. IsWellFoundedOn(R, Nat)
  BY NatLessThanWellFounded
<1> HIDE DEF R
<1>2. PICK x \in T : \A y \in T : ~(<<y, x>> \in R)
  BY <1>1, WFMin
<1>3. ASSUME NEW y \in T, y < x PROVE <<y, x>> \in R
  <2>1. <<y, x>> \in Nat \X Nat /\ <<y, x>>[1] = y /\ <<y, x>>[2] = x
    OBVIOUS
  <2> QED
    BY <1>3, <2>1 DEF R, OpToRel
<1>4. \A y \in T : ~(y < x)
  BY <1>2, <1>3
<1> QED
  BY <1>4

LEMMA LargestNumber ==
  ASSUME NEW n \in Nat, NEW T \in SUBSET (1..n), T # {}
  PROVE  \E x \in T : \A y \in T : y <= x
<1> DEFINE U == {n - y : y \in T}
<1>1. U \in SUBSET Nat /\ U # {}
  <2>1. \A y \in T : n - y \in Nat
    OBVIOUS
  <2> QED
    BY <2>1
<1>2. PICK m \in U : \A k \in U : m <= k
  BY <1>1, LeastNumber
<1>3. PICK x \in T : m = n - x
  BY <1>2
<1>4. \A y \in T : n - x <= n - y
  BY <1>2, <1>3
<1> QED
  BY <1>3, <1>4

\* The targets with which the frames are left are what LeftWith says they are.
LEMMA LeftWithUnfolds ==
  ASSUME NEW name, Len(stack) \in Nat
  PROVE  LET to == LeftWith(name)
         IN  to = [d \in 1..Len(stack) |->
                     IF d = Len(stack) THEN Target[cur.node][name]
                     ELSE IF to[d + 1] \in Returns THEN Target[stack[d].node][to[d + 1]] ELSE None]
<1> DEFINE n == Len(stack)
           At(f, d) == IF d = n THEN Target[cur.node][name]
                       ELSE IF f[d + 1] \in Returns THEN Target[stack[d].node][f[d + 1]] ELSE None
           Found(f, k) == \A d \in k..n : f[d] = At(f, d)
           Missing == {k \in 1..n : ~\E f : Found(f, k)}
           to == CHOOSE f : f = [d \in 1..n |-> At(f, d)]
<1>1. LeftWith(name) = to
  BY DEF LeftWith
<1>2. Missing = {}
  <2> SUFFICES ASSUME Missing # {} PROVE FALSE
    OBVIOUS
  <2>1. PICK k \in Missing : \A y \in Missing : y <= k
    <3>1. Missing \in SUBSET (1..n) /\ n \in Nat
      OBVIOUS
    <3> HIDE DEF Missing, n
    <3> QED
      BY <3>1, LargestNumber
  <2>2. CASE k = n
    <3> DEFINE f == [d \in {n} |-> Target[cur.node][name]]
    <3>1. Found(f, k)
      BY <2>2
    <3> QED
      BY <2>1, <3>1
  <2>3. CASE k # n
    <3>1. k + 1 \in 1..n /\ k + 1 \notin Missing
      <4>1. k \in 1..n /\ n \in Nat
        BY <2>1
      <4> HIDE DEF Missing, n
      <4> QED
        BY <2>1, <2>3, <4>1
    <3>2. PICK f : Found(f, k + 1)
      BY <3>1
    <3> DEFINE g == [d \in k..n |-> IF d = k THEN At(f, k) ELSE f[d]]
    <3>3. \A d \in (k + 1)..n : g[d] = f[d] /\ At(g, d) = At(f, d)
      <4> SUFFICES ASSUME NEW d \in (k + 1)..n PROVE g[d] = f[d] /\ At(g, d) = At(f, d)
        OBVIOUS
      <4>1. d \in k..n /\ d # k /\ (d # n => d + 1 \in k..n /\ d + 1 # k)
        BY <2>1
      <4> QED
        BY <4>1
    <3>4. g[k] = At(g, k)
      <4>1. k \in k..n /\ k + 1 \in k..n /\ k + 1 # k
        BY <2>1, <3>1
      <4> QED
        BY <4>1
    <3>5. Found(g, k)
      <4> SUFFICES ASSUME NEW d \in k..n, d # k PROVE g[d] = At(g, d)
        BY <3>4
      <4>1. d \in (k + 1)..n
        BY <2>1
      <4> QED
        BY <3>2, <3>3, <4>1
    <3> QED
      BY <2>1, <3>5
  <2> QED
    BY <2>2, <2>3
<1>3. to = [d \in 1..n |-> At(to, d)]
  <2>1. CASE n = 0
    <3> DEFINE f == [d \in 1..n |-> None]
    <3>1. f = [d \in 1..n |-> At(f, d)]
      BY <2>1
    <3> QED
      BY <3>1
  <2>2. CASE n # 0
    <3>1. 1 \in 1..n
      BY <2>2
    <3>2. PICK f : Found(f, 1)
      BY <1>2, <3>1
    <3> DEFINE g == [d \in 1..n |-> f[d]]
    <3>3. \A d \in 1..n : g[d] = f[d] /\ At(g, d) = At(f, d)
      <4> SUFFICES ASSUME NEW d \in 1..n PROVE At(g, d) = At(f, d)
        OBVIOUS
      <4>1. d # n => d + 1 \in 1..n
        OBVIOUS
      <4> QED
        BY <4>1
    <3>4. g = [d \in 1..n |-> At(g, d)]
      BY <3>2, <3>3
    <3> QED
      BY <3>4
  <2> QED
    BY <2>1, <2>2
<1> HIDE DEF to
<1> QED
  BY <1>1, <1>3

\* TransferJudge of any history E.
JudgeOf(E, p) ==
  LET of[i \in DOMAIN E] ==
        IF E[i].judge # "none" THEN i
        ELSE IF E[i].terminal = None THEN None ELSE of[E[i].terminal]
  IN  of[p]

LEMMA TransferJudgeIs ==
  ASSUME NEW p PROVE TransferJudge(p) = JudgeOf(execs, p)
BY DEF TransferJudge, JudgeOf

\* The last work orders of Children come after their callers.
Onward(E) ==
  /\ Len(E) \in Nat /\ DOMAIN E = 1..Len(E)
  /\ \A i \in DOMAIN E : E[i].terminal # None => E[i].terminal \in DOMAIN E /\ E[i].terminal > i

LEMMA JudgeOfUnfolds ==
  ASSUME NEW E, Onward(E), NEW p \in DOMAIN E
  PROVE  JudgeOf(E, p) = IF E[p].judge # "none" THEN p
                         ELSE IF E[p].terminal = None THEN None ELSE JudgeOf(E, E[p].terminal)
<1> DEFINE n == Len(E)
           At(f, i) == IF E[i].judge # "none" THEN i
                       ELSE IF E[i].terminal = None THEN None ELSE f[E[i].terminal]
           Found(f, k) == \A i \in k..n : f[i] = At(f, i)
           Missing == {k \in 1..n : ~\E f : Found(f, k)}
           of == CHOOSE f : f = [i \in DOMAIN E |-> At(f, i)]
<1>1. \A x : JudgeOf(E, x) = of[x]
  BY DEF JudgeOf
<1>2. /\ n \in Nat /\ DOMAIN E = 1..n /\ p \in 1..n
      /\ \A i \in 1..n : E[i].terminal # None => E[i].terminal \in 1..n /\ E[i].terminal > i
  BY DEF Onward
<1> HIDE DEF n
<1>3. Missing = {}
  <2> SUFFICES ASSUME Missing # {} PROVE FALSE
    OBVIOUS
  <2>1. PICK k \in Missing : \A y \in Missing : y <= k
    <3>1. Missing \in SUBSET (1..n)
      OBVIOUS
    <3> HIDE DEF Missing
    <3> QED
      BY <1>2, <3>1, LargestNumber
  <2>2. PICK f : Found(f, k + 1)
    <3>1. CASE k = n
      <4>1. (k + 1)..n = {}
        BY <1>2, <3>1
      <4> QED
        BY <4>1
    <3>2. CASE k # n
      <4>1. k + 1 \in 1..n /\ k + 1 \notin Missing
        <5>1. k \in 1..n
          BY <2>1
        <5> HIDE DEF Missing
        <5> QED
          BY <1>2, <2>1, <3>2, <5>1
      <4> QED
        BY <4>1
    <3> QED
      BY <3>1, <3>2
  <2> DEFINE g == [i \in k..n |-> IF i = k THEN At(f, k) ELSE f[i]]
  <2>3. \A i \in k..n : E[i].terminal # None => E[i].terminal \in k..n /\ E[i].terminal # k
                                                /\ g[E[i].terminal] = f[E[i].terminal]
    <3> SUFFICES ASSUME NEW i \in k..n, E[i].terminal # None
                 PROVE  E[i].terminal \in k..n /\ E[i].terminal # k
      OBVIOUS
    <3>1. i \in 1..n
      BY <1>2, <2>1
    <3> DEFINE u == E[i].terminal
    <3>2. u \in 1..n /\ u > i
      BY <1>2, <3>1
    <3> HIDE DEF u
    <3>3. u \in k..n /\ u # k
      BY <1>2, <2>1, <3>2
    <3> QED
      BY <3>3 DEF u
  <2>4. \A i \in k..n : At(g, i) = At(f, i)
    BY <2>3
  <2>5. Found(g, k)
    <3> SUFFICES ASSUME NEW i \in k..n PROVE g[i] = At(f, i)
      BY <2>4
    <3>1. CASE i = k
      BY <3>1
    <3>2. CASE i # k
      <4>1. i \in (k + 1)..n
        BY <1>2, <2>1, <3>2
      <4> QED
        BY <2>2, <3>2, <4>1
    <3> QED
      BY <3>1, <3>2
  <2> QED
    BY <2>1, <2>5
<1>4. of = [i \in DOMAIN E |-> At(of, i)]
  <2>1. 1 \in 1..n
    BY <1>2
  <2>2. PICK f : Found(f, 1)
    BY <1>3, <2>1
  <2> DEFINE g == [i \in 1..n |-> f[i]]
  <2>3. \A i \in 1..n : g[i] = f[i] /\ At(g, i) = At(f, i)
    BY <1>2
  <2>4. g = [i \in DOMAIN E |-> At(g, i)]
    BY <1>2, <2>2, <2>3
  <2> QED
    BY <2>4
<1> HIDE DEF of
<1>5. of[p] = At(of, p)
  BY <1>4
<1> QED
  BY <1>1, <1>5

\* What is found is a work order that a Judge has accepted.
LEMMA JudgeOfIsAJudge ==
  ASSUME NEW E, Onward(E), NEW p \in DOMAIN E, JudgeOf(E, p) # None
  PROVE  JudgeOf(E, p) \in DOMAIN E /\ E[JudgeOf(E, p)].judge # "none"
<1> DEFINE Good(i) == JudgeOf(E, i) # None => JudgeOf(E, i) \in DOMAIN E /\ E[JudgeOf(E, i)].judge # "none"
           Bad == {i \in DOMAIN E : ~Good(i)}
<1> SUFFICES ASSUME Bad # {} PROVE FALSE
  OBVIOUS
<1>1. Len(E) \in Nat /\ DOMAIN E = 1..Len(E)
  BY DEF Onward
<1>2. PICK k \in Bad : \A y \in Bad : y <= k
  <2>1. Bad \in SUBSET (1..Len(E))
    BY <1>1
  <2> HIDE DEF Bad
  <2> QED
    BY <1>1, <2>1, LargestNumber
<1>3. JudgeOf(E, k) = IF E[k].judge # "none" THEN k
                      ELSE IF E[k].terminal = None THEN None ELSE JudgeOf(E, E[k].terminal)
  BY <1>2, JudgeOfUnfolds
<1>4. CASE E[k].judge # "none"
  BY <1>2, <1>3, <1>4
<1>5. CASE E[k].judge = "none" /\ E[k].terminal # None
  <2> DEFINE u == E[k].terminal
  <2>1. u \in DOMAIN E /\ u > k
    BY <1>2, <1>5 DEF Onward
  <2>2. Good(u)
    <3>1. ~(u <= k)
      BY <1>1, <1>2, <2>1
    <3> QED
      BY <1>2, <2>1, <3>1
  <2> QED
    BY <1>2, <1>3, <1>5, <2>2
<1>6. CASE E[k].judge = "none" /\ E[k].terminal = None
  BY <1>2, <1>3, <1>6
<1> QED
  BY <1>4, <1>5, <1>6

\* It depends only on which work orders have a Judge and where Children ended.
LEMMA JudgeOfKept ==
  ASSUME NEW E, NEW F, DOMAIN F = DOMAIN E, NEW p,
         \A i \in DOMAIN E : F[i].terminal = E[i].terminal /\ (F[i].judge = "none" <=> E[i].judge = "none")
  PROVE  JudgeOf(F, p) = JudgeOf(E, p)
<1> DEFINE Of(f) == [i \in DOMAIN E |-> IF E[i].judge # "none" THEN i
                                       ELSE IF E[i].terminal = None THEN None ELSE f[E[i].terminal]]
           Og(f) == [i \in DOMAIN F |-> IF F[i].judge # "none" THEN i
                                       ELSE IF F[i].terminal = None THEN None ELSE f[F[i].terminal]]
<1>1. \A f : Of(f) = Og(f)
  OBVIOUS
<1>2. JudgeOf(E, p) = (CHOOSE f : f = Of(f))[p] /\ JudgeOf(F, p) = (CHOOSE f : f = Og(f))[p]
  BY DEF JudgeOf
<1> HIDE DEF Of, Og
<1>3. (CHOOSE f : f = Of(f)) = (CHOOSE f : f = Og(f))
  BY <1>1
<1> QED
  BY <1>2, <1>3

-----------------------------------------------------------------------------
(* Leaving a work order.                                                   *)

LEMMA StackFacts ==
  ASSUME StackInv
  PROVE  /\ Len(stack) \in Nat /\ DOMAIN stack = 1..Len(stack)
         /\ Len(execs) \in Nat /\ DOMAIN execs = 1..Len(execs)
         /\ \A i \in DOMAIN execs : execs[i] \in WorkOrders
         /\ \A d \in DOMAIN stack : stack[d] \in [node : Nodes, exec : Nat]
         /\ cur \in WorkOrders /\ current \in DOMAIN execs /\ version \in Nat
         /\ Onward(execs)
<1>1. stack \in Seq([node : Nodes, exec : Nat]) /\ execs \in Seq(WorkOrders) /\ current \in DOMAIN execs
      /\ version \in Nat
  BY DEF StackInv, StackTypes
<1>2. /\ Len(stack) \in Nat /\ DOMAIN stack = 1..Len(stack)
      /\ Len(execs) \in Nat /\ DOMAIN execs = 1..Len(execs)
  BY <1>1, LenProperties
<1>3. /\ \A i \in DOMAIN execs : execs[i] \in WorkOrders
      /\ \A d \in DOMAIN stack : stack[d] \in [node : Nodes, exec : Nat]
  BY <1>1, <1>2, ElementOfSeq
<1>4. Onward(execs)
  <2> SUFFICES ASSUME NEW i \in DOMAIN execs, execs[i].terminal # None
               PROVE  execs[i].terminal \in DOMAIN execs /\ execs[i].terminal > i
    BY <1>2 DEF Onward
  <2>1. /\ execs[i].terminal \in DOMAIN execs /\ execs[i].child <= execs[i].terminal
        /\ execs[i].child > i /\ execs[i].child \in DOMAIN execs
    BY DEF StackInv, History, Left, Entry
  <2> QED
    BY <1>2, <2>1
<1> QED
  BY <1>1, <1>2, <1>3, <1>4 DEF cur

LEMMA LiveFacts ==
  ASSUME StackInv, Live
  PROVE  /\ current = Len(execs) /\ Len(stack) >= 1 /\ stack[Len(stack)].exec = current
         /\ stack[Len(stack)].node = cur.node
         /\ cur.phase # "exited" /\ cur.child = None /\ cur.terminal = None
<1>1. /\ current = Len(execs) /\ stack # <<>> /\ Top.exec = current
      /\ cur.phase # "exited" /\ cur.child = None /\ cur.terminal = None
  BY DEF StackInv, Frames, Live
<1>2. Len(stack) >= 1 /\ Len(stack) \in DOMAIN stack
  <2>1. stack \in Seq([node : Nodes, exec : Nat])
    BY DEF StackInv, StackTypes
  <2> QED
    BY <1>1, <2>1, StackFacts, EmptySeq
<1> QED
  BY <1>1, <1>2 DEF Top, cur, StackInv, Frames

\* The result, or the return, with which the frame d is left.
Via(name, to, d) == IF d = Len(stack) THEN name ELSE to[d + 1]

\* The frames from b on are left, to the Targets to.
Leaves(name, to, b) ==
  /\ b \in 1..Len(stack)
  /\ \A d \in 1..Len(stack) : to[d] # None <=> d >= b
  /\ \A d \in b..Len(stack) : /\ Via(name, to, d) \in DOMAIN Target[stack[d].node]
                              /\ to[d] = Target[stack[d].node][Via(name, to, d)]
                              /\ \/ to[d] \in Returns
                                 \/ to[d] \in Nodes /\ WorkflowOf[to[d]] = WorkflowOf[stack[d].node]
  /\ \A d \in b..Len(stack) : d # Len(stack) => to[d + 1] \in Returns
  /\ to[b] \in Returns => b = 1

LEMMA LeftWithLeaves ==
  ASSUME StackInv, Live, NEW name \in DOMAIN Target[cur.node]
  PROVE  \E b \in 1..Len(stack) : Leaves(name, LeftWith(name), b)
<1> DEFINE n == Len(stack)
           to == LeftWith(name)
<1>1. /\ n \in Nat /\ n >= 1 /\ DOMAIN stack = 1..n /\ stack[n].node = cur.node
      /\ \A d \in 1..n : stack[d].node \in Nodes
  BY StackFacts, LiveFacts
<1>2. \A d \in 1..n : to[d] = IF d = n THEN Target[cur.node][name]
                              ELSE IF to[d + 1] \in Returns THEN Target[stack[d].node][to[d + 1]]
                              ELSE None
  BY <1>1, LeftWithUnfolds
<1>3. \A d \in 1..n : d # n =>
        /\ Kind[stack[d].node] = "child" /\ WorkflowOf[stack[d + 1].node] = Callee[stack[d].node]
  <2> SUFFICES ASSUME NEW d \in 1..n, d # n
               PROVE  /\ Kind[stack[d].node] = "child"
                      /\ WorkflowOf[stack[d + 1].node] = Callee[stack[d].node]
    OBVIOUS
  <2>1. d < Len(stack) /\ d \in DOMAIN stack
    BY <1>1
  <2>2. stack[d].node = execs[stack[d].exec].node /\ CallerFrame(d)
    BY <2>1 DEF StackInv, Frames
  <2> QED
    BY <2>2 DEF CallerFrame
<1>4. \A r \in Returns : r # None
  BY GraphAssumption
<1>5. \A m \in Nodes : m # None
  BY GraphAssumption
<1> HIDE DEF n, to
<1> DEFINE Good(d) == /\ Via(name, to, d) \in DOMAIN Target[stack[d].node]
                      /\ to[d] = Target[stack[d].node][Via(name, to, d)]
                      /\ \/ to[d] \in Returns
                         \/ to[d] \in Nodes /\ WorkflowOf[to[d]] = WorkflowOf[stack[d].node]
<1>6. ASSUME NEW d \in 1..n, Via(name, to, d) \in DOMAIN Target[stack[d].node],
             d # n => to[d + 1] \in Returns
      PROVE  Good(d) /\ to[d] # None
  <2>1. to[d] = Target[stack[d].node][Via(name, to, d)]
    BY <1>1, <1>2, <1>6 DEF Via, n
  <2>2. \/ to[d] \in Returns
        \/ to[d] \in Nodes /\ WorkflowOf[to[d]] = WorkflowOf[stack[d].node]
    BY <1>1, <1>6, <2>1, GraphAssumption
  <2> QED
    BY <1>4, <1>5, <1>6, <2>1, <2>2
<1>7. Good(n) /\ to[n] # None
  <2>1. Via(name, to, n) = name
    BY DEF Via, n
  <2> QED
    BY <1>1, <1>6, <2>1
\* A return of a Child is mapped by its caller.
<1>8. ASSUME NEW d \in 1..n, d # n, Good(d + 1), to[d + 1] \in Returns
      PROVE  Good(d) /\ to[d] # None
  <2>1. d + 1 \in 1..n /\ stack[d].node \in Nodes /\ stack[d + 1].node \in Nodes
    BY <1>1, <1>8
  <2>2. to[d + 1] \in DOMAIN Target[stack[d].node]
    <3>1. WorkflowOf[stack[d + 1].node] = Callee[stack[d].node] /\ Kind[stack[d].node] = "child"
      BY <1>3, <1>8
    <3> QED
      BY <1>8, <2>1, <3>1, GraphAssumption
  <2>3. Via(name, to, d) = to[d + 1]
    BY <1>8 DEF Via, n
  <2> QED
    BY <1>6, <1>8, <2>2, <2>3
<1> HIDE DEF Good
<1> DEFINE Bad == {d \in 1..n : to[d] # None /\ ~Good(d)}
<1>9. Bad = {}
  <2> SUFFICES ASSUME Bad # {} PROVE FALSE
    OBVIOUS
  <2>1. PICK d \in Bad : \A y \in Bad : y <= d
    <3>1. Bad \in SUBSET (1..n)
      OBVIOUS
    <3> HIDE DEF Bad
    <3> QED
      BY <1>1, <3>1, LargestNumber
  <2>2. d \in 1..n /\ d # n /\ to[d] # None /\ ~Good(d)
    BY <1>7, <2>1
  <2>3. to[d + 1] \in Returns
    BY <1>2, <2>2
  <2>4. d + 1 \in 1..n /\ ~(d + 1 <= d)
    BY <1>1, <2>2
  <2>5. Good(d + 1)
    BY <1>4, <2>1, <2>3, <2>4
  <2> QED
    BY <1>8, <2>2, <2>3, <2>5
<1> DEFINE L == {d \in 1..n : to[d] # None}
<1>10. PICK b \in L : \A y \in L : b <= y
  <2>1. L \in SUBSET Nat /\ n \in L
    BY <1>1, <1>7
  <2> HIDE DEF L
  <2> QED
    BY <2>1, LeastNumber
<1>11. b \in 1..n /\ to[b] # None /\ \A d \in 1..n : to[d] # None => d >= b
  BY <1>1, <1>10
<1> DEFINE Gaps == {d \in b..n : to[d] = None}
<1>12. Gaps = {}
  <2> SUFFICES ASSUME Gaps # {} PROVE FALSE
    OBVIOUS
  <2>1. PICK d \in Gaps : \A y \in Gaps : d <= y
    <3>1. Gaps \in SUBSET Nat
      BY <1>1, <1>11
    <3> HIDE DEF Gaps
    <3> QED
      BY <3>1, LeastNumber
  <2>2. d \in b..n /\ to[d] = None /\ d # b
    BY <1>11, <2>1
  <2>3. d - 1 \in b..n /\ d - 1 \in 1..n /\ d - 1 # n /\ d - 1 + 1 = d /\ ~(d <= d - 1)
    BY <1>1, <1>11, <2>2
  <2>4. to[d - 1] # None
    <3> HIDE DEF Gaps
    <3>1. d - 1 \notin Gaps
      BY <2>1, <2>3
    <3> QED
      BY <2>3, <3>1 DEF Gaps
  <2>5. to[d] \in Returns
    BY <1>2, <2>3, <2>4
  <2> QED
    BY <1>4, <2>2, <2>5
<1>13. \A d \in 1..n : to[d] # None <=> d >= b
  <2> SUFFICES ASSUME NEW d \in 1..n, d >= b PROVE to[d] # None
    BY <1>11
  <2>1. d \in b..n
    BY <1>1, <1>11
  <2> QED
    BY <1>12, <2>1
<1>14. \A d \in b..n : Good(d) /\ (d # n => to[d + 1] \in Returns)
  <2> SUFFICES ASSUME NEW d \in b..n PROVE Good(d) /\ (d # n => to[d + 1] \in Returns)
    OBVIOUS
  <2>1. d \in 1..n /\ d >= b
    BY <1>1, <1>11
  <2>2. to[d] # None
    BY <1>13, <2>1
  <2> QED
    BY <1>2, <1>9, <2>1, <2>2
<1>15. to[b] \in Returns => b = 1
  <2> SUFFICES ASSUME to[b] \in Returns, b # 1 PROVE FALSE
    OBVIOUS
  <2>1. b - 1 \in 1..n /\ b - 1 # n /\ b - 1 + 1 = b /\ ~(b - 1 >= b) /\ b \in b..n
    BY <1>1, <1>11
  <2>2. to[b - 1] # None
    BY <1>8, <1>14, <2>1
  <2> QED
    BY <1>13, <2>1, <2>2
<1> QED
  BY <1>11, <1>13, <1>14, <1>15 DEF Leaves, Good, n, to

\* What a work order x is when its frame, the d-th, is left.
LeaveAs(x, d, name, to, succ, text) ==
  [x EXCEPT !.phase = "exited", !.succ = succ, !.returned = decisionOf(to[d], Via(name, to, d)),
            !.terminal = IF d = Len(stack) THEN None ELSE stack[d + 1].exec, !.text = text]

\* The write of advanceKnownResult, that leaves the frames from b on.
Advance(e, name, text, b) ==
  LET to   == LeftWith(name)
      ends == to[b] \in Returns
      next == Len(execs) + 1
  IN  /\ Leaves(name, to, b) /\ version' = version + 1
      /\ execs' = [i \in DOMAIN execs' |-> execs'[i]]
      /\ \A i \in DOMAIN execs :
           (\A d \in b..Len(stack) : stack[d].exec # i) => execs'[i] = execs[i]
      /\ \A d \in b..Len(stack) :
           execs'[stack[d].exec] =
             LeaveAs(IF d = Len(stack) THEN e ELSE execs[stack[d].exec], d, name, to,
                     IF ends THEN None ELSE next, text)
      /\ ends => /\ status' = "completed" /\ stack' = <<>> /\ current' = stack[b].exec
                 /\ DOMAIN execs' = DOMAIN execs
      /\ ~ends => /\ status' = "running" /\ current' = next
                  /\ stack' = SubSeq(stack, 1, b - 1) \o <<Frame(to[b], next)>>
                  /\ DOMAIN execs' = 1..next
                  /\ execs'[next] = newExecution(to[b], text, next, stack[b].exec)

LEMMA AdvanceKnown ==
  ASSUME StackInv, Live, NEW name \in DOMAIN Target[cur.node], NEW e, NEW text,
         advanceKnownResult(e, name, text)
  PROVE  \E b \in 1..Len(stack) : Advance(e, name, text, b)
<1> DEFINE to     == LeftWith(name)
           n      == Len(stack)
           left   == {d \in 1..n : to[d] # None}
           bottom == CHOOSE d \in left : \A k \in left : d <= k
           ends   == to[bottom] \in Returns
           next   == Len(execs) + 1
           Visits == {execs[stack[d].exec].visit : d \in left}
           last   == CHOOSE v \in Visits : \A w \in Visits : w <= v
           Leave(x, d) ==
             [x EXCEPT !.phase = "exited", !.succ = IF ends THEN None ELSE next,
                       !.returned = decisionOf(to[d], IF d = n THEN name ELSE to[d + 1]),
                       !.terminal = IF d = n THEN None ELSE stack[d + 1].exec,
                       !.text = text]
           exited == [i \in DOMAIN execs |->
                        IF \E d \in left : stack[d].exec = i
                        THEN Leave(IF i = current THEN e ELSE execs[i],
                                   CHOOSE d \in left : stack[d].exec = i)
                        ELSE execs[i]]
<1>1. /\ version' = version + 1
      /\ ends => /\ status' = "completed" /\ stack' = <<>> /\ current' = stack[bottom].exec
                 /\ execs' = exited
      /\ ~ends => /\ status' = "running" /\ current' = next
                  /\ stack' = SubSeq(stack, 1, bottom - 1) \o <<Frame(to[bottom], next)>>
                  /\ execs' = exited \o <<newExecution(to[bottom], text, last + 1, stack[bottom].exec)>>
  <2> HIDE DEF ends, exited, next, last, bottom, to
  <2> QED
    BY DEF advanceKnownResult, ends, exited, next, last, bottom, to
<1>2. PICK b \in 1..n : Leaves(name, to, b)
  BY LeftWithLeaves
<1>3. /\ n \in Nat /\ n >= 1 /\ DOMAIN stack = 1..n /\ Len(execs) \in Nat /\ current = Len(execs)
      /\ DOMAIN execs = 1..Len(execs) /\ stack[n].exec = current
      /\ \A d \in 1..n : stack[d].exec \in DOMAIN execs
      /\ \A d, k \in 1..n : d < k => stack[d].exec < stack[k].exec
      /\ \A i \in DOMAIN execs : execs[i].visit = i
  BY StackFacts, LiveFacts DEF StackInv, Frames, History, Entry
<1>4. \A d, k \in 1..n : stack[d].exec = stack[k].exec => d = k
  <2> SUFFICES ASSUME NEW d \in 1..n, NEW k \in 1..n, stack[d].exec = stack[k].exec, d # k PROVE FALSE
    OBVIOUS
  <2>1. stack[d].exec \in Nat
    BY <1>3
  <2> HIDE DEF n
  <2>2. d < k \/ k < d
    BY <1>3
  <2> QED
    BY <1>3, <2>1, <2>2
<1> HIDE DEF to
<1>5. left = b..n
  <2>1. \A d \in 1..n : to[d] # None <=> d >= b
    BY <1>2 DEF Leaves
  <2> HIDE DEF n
  <2> QED
    BY <1>2, <1>3, <2>1
<1>6. bottom = b
  <2>1. b \in left /\ \A k \in left : b <= k
    BY <1>3, <1>5
  <2>2. bottom \in left /\ \A k \in left : bottom <= k
    BY <2>1
  <2> HIDE DEF bottom, left
  <2> QED
    BY <1>3, <1>5, <2>1, <2>2
<1> HIDE DEF bottom
<1>7. last = Len(execs)
  <2>1. Visits = {stack[d].exec : d \in b..n}
    <3>1. \A d \in b..n : execs[stack[d].exec].visit = stack[d].exec
      BY <1>3
    <3> HIDE DEF left
    <3> QED
      BY <1>5, <3>1
  <2>2. Len(execs) \in Visits
    <3>1. n \in b..n /\ stack[n].exec = Len(execs)
      BY <1>2, <1>3
    <3> HIDE DEF Visits
    <3> QED
      BY <2>1, <3>1
  <2>3. \A v \in Visits : v \in Nat /\ v <= Len(execs)
    BY <1>3, <2>1
  <2> HIDE DEF Visits
  <2>4. last \in Visits /\ \A w \in Visits : w <= last
    BY <2>2, <2>3
  <2> HIDE DEF last
  <2> QED
    BY <1>3, <2>2, <2>3, <2>4
<1> HIDE DEF last
<1>8. DOMAIN exited = DOMAIN execs /\ Len(exited) = Len(execs)
  BY <1>3
<1>9. \A i \in DOMAIN execs : (\A d \in b..n : stack[d].exec # i) => exited[i] = execs[i]
  <2> HIDE DEF left, Leave
  <2> QED
    BY <1>5
<1>10. ASSUME NEW d \in b..n
       PROVE  exited[stack[d].exec] =
                LeaveAs(IF d = n THEN e ELSE execs[stack[d].exec], d, name, to,
                        IF ends THEN None ELSE next, text)
  <2> DEFINE i == stack[d].exec
  <2>1. d \in 1..n /\ i \in DOMAIN execs
    BY <1>2, <1>3
  <2>2. d \in left /\ (CHOOSE k \in left : stack[k].exec = i) = d
    <3>1. \A k \in left : k \in 1..n
      OBVIOUS
    <3>2. d \in left
      BY <1>5
    <3> HIDE DEF left
    <3> QED
      BY <1>4, <2>1, <3>1, <3>2
  <2>3. i = current <=> d = n
    BY <1>3, <1>4, <2>1
  <2> HIDE DEF left
  <2>4. exited[i] = Leave(IF d = n THEN e ELSE execs[i], d)
    <3> HIDE DEF Leave
    <3> QED
      BY <2>1, <2>2, <2>3
  <2> QED
    BY <2>4 DEF LeaveAs, Via
<1>16. exited = [i \in DOMAIN exited |-> exited[i]]
  <2> HIDE DEF Leave, left
  <2> QED
    OBVIOUS
<1> HIDE DEF exited, Leave
<1>11. ASSUME ~ends
       PROVE  /\ DOMAIN execs' = 1..next /\ \A i \in DOMAIN execs : execs'[i] = exited[i]
              /\ execs' = [i \in DOMAIN execs' |-> execs'[i]]
              /\ execs'[next] = newExecution(to[b], text, next, stack[b].exec)
  <2> DEFINE new == newExecution(to[bottom], text, last + 1, stack[bottom].exec)
  <2>1. execs' = exited \o <<new>>
    BY <1>1, <1>11
  <2> HIDE DEF new
  <2>2. Len(<<new>>) = 1 /\ <<new>>[1] = new
    OBVIOUS
  <2> DEFINE S == {exited[i] : i \in DOMAIN execs} \cup {new}
  <2>3. /\ Len(exited \o <<new>>) = Len(execs) + 1 /\ exited \o <<new>> \in Seq(S)
        /\ \A i \in 1..(Len(execs) + 1) :
             (exited \o <<new>>)[i] = IF i <= Len(execs) THEN exited[i] ELSE <<new>>[i - Len(execs)]
    <3>1. <<new>> \in Seq(S)
      OBVIOUS
    <3>2. exited \in Seq(S)
      <4>1. exited \in [1..Len(execs) -> S]
        BY <1>3, <1>8 DEF exited
      <4> HIDE DEF S
      <4> QED
        BY <1>3, <4>1, IsASeq
    <3> HIDE DEF S
    <3> QED
      BY <1>3, <1>8, <2>2, <3>1, <3>2, ConcatProperties
  <2>8. execs' = [i \in DOMAIN execs' |-> execs'[i]]
    <3>1. execs' \in Seq(S)
      BY <2>1, <2>3
    <3> HIDE DEF S
    <3>2. execs' \in [1..Len(execs') -> S]
      BY <3>1, LenProperties
    <3> QED
      BY <3>2
  <2> HIDE DEF S
  <2>4. \A i \in 1..(Len(execs) + 1) : execs'[i] = IF i <= Len(execs) THEN exited[i]
                                                   ELSE <<new>>[i - Len(execs)]
    BY <2>1, <2>3
  <2>5. DOMAIN execs' = 1..next
    BY <2>1, <2>3, LenProperties
  <2>6. execs'[next] = new
    <3>1. next \in 1..(Len(execs) + 1) /\ ~(next <= Len(execs)) /\ next - Len(execs) = 1
      BY <1>3
    <3> QED
      BY <2>2, <2>4, <3>1
  <2>7. \A i \in DOMAIN execs : execs'[i] = exited[i]
    BY <1>3, <2>4
  <2> QED
    BY <1>6, <1>7, <2>5, <2>6, <2>7, <2>8 DEF new
<1>12. \A i \in DOMAIN execs : execs'[i] = exited[i]
  BY <1>1, <1>11
<1>13. ends => DOMAIN execs' = DOMAIN execs
  BY <1>1, <1>8
<1> HIDE DEF ends
<1>14. \A d \in b..n : execs'[stack[d].exec] =
                LeaveAs(IF d = n THEN e ELSE execs[stack[d].exec], d, name, to,
                        IF ends THEN None ELSE next, text)
  <2> SUFFICES ASSUME NEW d \in b..n
               PROVE  execs'[stack[d].exec] = exited[stack[d].exec]
    BY <1>10
  <2>1. d \in 1..n
    BY <1>2, <1>3
  <2> QED
    BY <1>3, <1>12, <2>1
<1>15. \A i \in DOMAIN execs : (\A d \in b..n : stack[d].exec # i) => execs'[i] = execs[i]
  BY <1>9, <1>12
<1> QED
  BY <1>1, <1>2, <1>6, <1>11, <1>13, <1>14, <1>15, <1>16 DEF Advance, ends, to

\* What stays of a work order, and what it has led to.
LEMMA LeaveFields ==
  ASSUME NEW x \in WorkOrders, NEW d \in DOMAIN stack, NEW name, NEW to, NEW b, Leaves(name, to, b),
         d \in b..Len(stack), NEW succ \in Nat \cup {None}, NEW text \in Texts,
         x.node = stack[d].node, d # Len(stack) => stack[d + 1].exec \in Nat
  PROVE  LET y == LeaveAs(x, d, name, to, succ, text)
         IN  /\ y \in WorkOrders /\ y.node = x.node /\ y.input = x.input /\ y.visit = x.visit
             /\ y.pred = x.pred /\ y.judge = x.judge /\ y.program = x.program /\ y.child = x.child
             /\ y.restart = x.restart /\ y.phase = "exited" /\ y.text = text
             /\ y.terminal = IF d = Len(stack) THEN None ELSE stack[d + 1].exec
             /\ ExitOf(y) = to[d]
<1> DEFINE via == Via(name, to, d)
           dec == decisionOf(to[d], via)
           ter == IF d = Len(stack) THEN None ELSE stack[d + 1].exec
<1>1. /\ via \in DOMAIN Target[x.node] /\ to[d] = Target[x.node][via] /\ x.node \in Nodes
      /\ to[d] \in Returns \/ to[d] \notin Returns
  BY DEF Leaves, WorkOrders
<1>2. dec \in [kind : {"return", "result"}, name : Names] /\ ter \in Nat \cup {None}
  BY <1>1 DEF decisionOf, Names
<1>3. IF dec.kind = "return" THEN dec.name = to[d] ELSE Target[x.node][dec.name] = to[d]
  BY <1>1 DEF decisionOf
<1>4. PICK y : y = LeaveAs(x, d, name, to, succ, text)
  OBVIOUS
<1>5. y = [x EXCEPT !.phase = "exited", !.succ = succ, !.returned = dec, !.terminal = ter, !.text = text]
  BY <1>4 DEF LeaveAs
<1> HIDE DEF via, dec, ter
<1>6. /\ y \in WorkOrders /\ y.node = x.node /\ y.input = x.input /\ y.visit = x.visit
      /\ y.pred = x.pred /\ y.judge = x.judge /\ y.program = x.program /\ y.child = x.child
      /\ y.restart = x.restart /\ y.phase = "exited" /\ y.text = text /\ y.terminal = ter
      /\ y.returned = dec
  BY <1>2, <1>5 DEF WorkOrders
<1>7. ExitOf(y) = to[d]
  BY <1>3, <1>6 DEF ExitOf
<1> QED
  BY <1>4, <1>6, <1>7 DEF ter

\* The work order that is left may be settled at the same time.
Closes(e, text) ==
  /\ e \in WorkOrders /\ text \in Texts
  /\ e.node = cur.node /\ e.input = cur.input /\ e.visit = cur.visit /\ e.pred = cur.pred
  /\ e.child = cur.child /\ ~e.restart
  /\ e.program # None => e.program.id <= version
  /\ e.judge # "none" => Kind[e.node] = "task"
  /\ Kind[e.node] = "program" => text \in {e.input, [by |-> current, inv |-> e.program.id]}
  /\ Kind[e.node] = "task" => text.by = current
  /\ Kind[e.node] # "child"

LEMMA AdvanceFields ==
  ASSUME StackInv, Live, NEW name, NEW e, NEW text, Closes(e, text),
         NEW b \in 1..Len(stack), Advance(e, name, text, b)
  PROVE  LET to == LeftWith(name)
         IN  /\ \A d \in b..Len(stack) :
                  LET x == IF d = Len(stack) THEN e ELSE execs[stack[d].exec]
                      y == execs'[stack[d].exec]
                  IN  /\ y \in WorkOrders /\ y.node = x.node /\ y.input = x.input /\ y.visit = x.visit
                      /\ y.pred = x.pred /\ y.judge = x.judge /\ y.program = x.program
                      /\ y.child = x.child /\ y.restart = x.restart /\ y.phase = "exited"
                      /\ y.text = text /\ ExitOf(y) = to[d]
                      /\ y.terminal = IF d = Len(stack) THEN None ELSE stack[d + 1].exec
                      /\ y.node = stack[d].node
             /\ \A i \in DOMAIN execs :
                  /\ execs'[i] \in WorkOrders
                  /\ execs'[i].node = execs[i].node /\ execs'[i].input = execs[i].input
                  /\ execs'[i].visit = execs[i].visit /\ execs'[i].pred = execs[i].pred
                  /\ execs'[i].child = execs[i].child
                  /\ execs[i].phase = "exited" => execs'[i] = execs[i]
<1> DEFINE to == LeftWith(name)
           n == Len(stack)
           succ == IF to[b] \in Returns THEN None ELSE Len(execs) + 1
           Base(d) == IF d = n THEN e ELSE execs[stack[d].exec]
<1>1. /\ n \in Nat /\ n >= 1 /\ DOMAIN stack = 1..n /\ Len(execs) \in Nat
      /\ stack[n].exec = current /\ stack[n].node = cur.node /\ cur.phase # "exited"
      /\ \A i \in DOMAIN execs : execs[i] \in WorkOrders
      /\ \A d \in 1..n : stack[d].exec \in DOMAIN execs /\ stack[d].exec \in Nat
                         /\ stack[d].node = execs[stack[d].exec].node
  BY StackFacts, LiveFacts DEF StackInv, Frames
<1>2. /\ Leaves(name, to, b) /\ succ \in Nat \cup {None}
      /\ \A d \in b..n : execs'[stack[d].exec] = LeaveAs(Base(d), d, name, to, succ, text)
      /\ \A i \in DOMAIN execs : (\A d \in b..n : stack[d].exec # i) => execs'[i] = execs[i]
  <2>1. succ \in Nat \cup {None}
    <3> HIDE DEF to
    <3> QED
      BY <1>1
  <2>2. /\ Leaves(name, to, b)
        /\ \A i \in DOMAIN execs : (\A d \in b..n : stack[d].exec # i) => execs'[i] = execs[i]
    BY DEF Advance
  <2>3. \A d \in b..n : execs'[stack[d].exec] = LeaveAs(Base(d), d, name, to, succ, text)
    BY DEF Advance
  <2> QED
    BY <2>1, <2>2, <2>3
<1>3. \A d \in 1..n : d # n => execs[stack[d].exec].phase = "working"
  <2> SUFFICES ASSUME NEW d \in 1..n, d # n PROVE execs[stack[d].exec].phase = "working"
    OBVIOUS
  <2>1. d < n /\ d \in DOMAIN stack
    <3> HIDE DEF n
    <3> QED
      BY <1>1
  <2> QED
    BY <2>1 DEF StackInv, Frames, CallerFrame
<1> HIDE DEF to, succ, n
<1>4. ASSUME NEW d \in b..n
      PROVE  LET x == Base(d)
                 y == execs'[stack[d].exec]
             IN  /\ y \in WorkOrders /\ y.node = x.node /\ y.input = x.input /\ y.visit = x.visit
                 /\ y.pred = x.pred /\ y.judge = x.judge /\ y.program = x.program
                 /\ y.child = x.child /\ y.restart = x.restart /\ y.phase = "exited"
                 /\ y.text = text /\ ExitOf(y) = to[d]
                 /\ y.terminal = IF d = n THEN None ELSE stack[d + 1].exec
                 /\ y.node = stack[d].node
  <2>1. d \in 1..n
    BY <1>1 DEF n
  <2>2. Base(d) \in WorkOrders /\ Base(d).node = stack[d].node
    BY <1>1, <2>1 DEF Closes
  <2>3. d # n => stack[d + 1].exec \in Nat
    <3>1. d # n => d + 1 \in 1..n
      BY <1>1, <2>1
    <3> QED
      BY <1>1, <3>1
  <2>4. execs'[stack[d].exec] = LeaveAs(Base(d), d, name, to, succ, text) /\ text \in Texts
    BY <1>2 DEF Closes
  <2> HIDE DEF Base
  <2>5. d \in DOMAIN stack /\ d \in b..Len(stack)
    BY <1>1, <2>1 DEF n
  <2> QED
    BY <1>2, <2>2, <2>3, <2>4, <2>5, LeaveFields DEF n
<1>5. ASSUME NEW d \in b..n
      PROVE  LET x == execs[stack[d].exec]
             IN  /\ Base(d).node = x.node /\ Base(d).input = x.input /\ Base(d).visit = x.visit
                 /\ Base(d).pred = x.pred /\ Base(d).child = x.child /\ x.phase # "exited"
  <2>1. d \in 1..n
    BY <1>1 DEF n
  <2>2. CASE d = n
    <3>1. execs[stack[d].exec] = cur
      BY <1>1, <2>2 DEF cur
    <3> QED
      BY <1>1, <2>2, <3>1 DEF Closes
  <2>3. CASE d # n
    BY <1>3, <2>1, <2>3
  <2> QED
    BY <2>2, <2>3
<1> HIDE DEF Base
<1>6. ASSUME NEW i \in DOMAIN execs
      PROVE  /\ execs'[i] \in WorkOrders
             /\ execs'[i].node = execs[i].node /\ execs'[i].input = execs[i].input
             /\ execs'[i].visit = execs[i].visit /\ execs'[i].pred = execs[i].pred
             /\ execs'[i].child = execs[i].child
             /\ execs[i].phase = "exited" => execs'[i] = execs[i]
  <2>1. CASE \A d \in b..n : stack[d].exec # i
    BY <1>1, <1>2, <2>1
  <2>2. CASE \E d \in b..n : stack[d].exec = i
    <3>1. PICK d \in b..n : stack[d].exec = i
      BY <2>2
    <3> QED
      BY <1>4, <1>5, <3>1
  <2> QED
    BY <2>1, <2>2
<1> QED
  BY <1>4, <1>6 DEF Base, n, to

LEMMA AdvanceInv ==
  ASSUME StackInv, Live, NEW name, NEW e, NEW text, Closes(e, text), NEW b \in 1..Len(stack),
         Advance(e, name, text, b), calls' \subseteq CallRecords
  PROVE  StackInv'
<1> DEFINE to == LeftWith(name)
           n == Len(stack)
           N == Len(execs)
           next == N + 1
           ends == to[b] \in Returns
           new == newExecution(to[b], text, next, stack[b].exec)
           O(d) == stack[d].exec
<1>1. /\ n \in Nat /\ n >= 1 /\ DOMAIN stack = 1..n /\ N \in Nat /\ DOMAIN execs = 1..N
      /\ current = N /\ O(n) = current /\ version \in Nat
      /\ \A d \in 1..n : O(d) \in DOMAIN execs /\ stack[d].node = execs[O(d)].node
                         /\ stack[d] \in [node : Nodes, exec : Nat]
      /\ \A d, k \in 1..n : d < k => O(d) < O(k)
      /\ stack \in Seq([node : Nodes, exec : Nat])
  BY StackFacts, LiveFacts DEF StackInv, Frames, StackTypes
<1>2. /\ \A d \in b..n :
           LET x == IF d = n THEN e ELSE execs[O(d)]
               y == execs'[O(d)]
           IN  /\ y \in WorkOrders /\ y.node = x.node /\ y.input = x.input /\ y.visit = x.visit
               /\ y.pred = x.pred /\ y.judge = x.judge /\ y.program = x.program
               /\ y.child = x.child /\ y.restart = x.restart /\ y.phase = "exited"
               /\ y.text = text /\ ExitOf(y) = to[d]
               /\ y.terminal = IF d = n THEN None ELSE O(d + 1)
               /\ y.node = stack[d].node
      /\ \A i \in DOMAIN execs :
           /\ execs'[i] \in WorkOrders
           /\ execs'[i].node = execs[i].node /\ execs'[i].input = execs[i].input
           /\ execs'[i].visit = execs[i].visit /\ execs'[i].pred = execs[i].pred
           /\ execs'[i].child = execs[i].child
           /\ execs[i].phase = "exited" => execs'[i] = execs[i]
  BY AdvanceFields
<1>3. /\ Leaves(name, to, b) /\ version' = version + 1
      /\ execs' = [i \in DOMAIN execs' |-> execs'[i]]
      /\ \A i \in DOMAIN execs : (\A d \in b..n : O(d) # i) => execs'[i] = execs[i]
      /\ ends => /\ status' = "completed" /\ stack' = <<>> /\ current' = O(b)
                 /\ DOMAIN execs' = DOMAIN execs
      /\ ~ends => /\ status' = "running" /\ current' = next
                  /\ stack' = SubSeq(stack, 1, b - 1) \o <<Frame(to[b], next)>>
                  /\ DOMAIN execs' = 1..next /\ execs'[next] = new
  BY DEF Advance
<1>4. /\ e \in WorkOrders /\ text \in Texts /\ ~e.restart /\ e.node = cur.node
      /\ e.program # None => e.program.id <= version
      /\ e.judge # "none" => Kind[e.node] = "task"
      /\ Kind[e.node] = "program" => text \in {e.input, [by |-> current, inv |-> e.program.id]}
      /\ Kind[e.node] = "task" => text.by = current
      /\ Kind[e.node] # "child"
  BY DEF Closes
<1>5. /\ \A i \in DOMAIN execs : Entry(i) /\ Left(i)
      /\ \A d \in 1..n : d < n => CallerFrame(d)
  BY <1>1 DEF StackInv, History, Frames
<1>6. /\ ends => b = 1
      /\ ~ends => to[b] \in Nodes /\ WorkflowOf[to[b]] = WorkflowOf[stack[b].node]
      /\ \A d \in b..n : d # n => to[d] = Target[stack[d].node][to[d + 1]]
  <2>1. b \in b..n /\ (ends => b = 1)
    BY <1>1, <1>3 DEF Leaves
  <2>2. ~ends => to[b] \in Nodes /\ WorkflowOf[to[b]] = WorkflowOf[stack[b].node]
    BY <1>3, <2>1 DEF Leaves
  <2>3. \A d \in b..n : d # n => to[d] = Target[stack[d].node][to[d + 1]]
    BY <1>3 DEF Leaves, Via
  <2> QED
    BY <2>1, <2>2, <2>3
<1> HIDE DEF to, n, N, ends, O
<1>7. /\ b \in 1..n /\ \A d \in b..n : d \in 1..n
      /\ \A d \in b..n : d # n => d + 1 \in b..n
  <2>1. b \in 1..n
    BY DEF n
  <2> QED
    BY <1>1, <2>1
<1>8. ~ends => /\ new \in WorkOrders /\ new.node = to[b] /\ new.phase = "ready" /\ new.input = text
               /\ new.visit = next /\ new.pred = O(b) /\ new.child = None /\ new.terminal = None
               /\ new.judge = "none" /\ new.program = None /\ ~new.restart
  <2> SUFFICES ASSUME ~ends PROVE new \in WorkOrders
    BY DEF newExecution, O
  <2>1. O(b) \in Nat
    BY <1>1, <1>7
  <2> QED
    BY <1>1, <1>4, <1>6, <2>1 DEF newExecution, WorkOrders, O
<1> HIDE DEF new
<1>9. /\ DOMAIN execs \subseteq DOMAIN execs'
      /\ \A i \in DOMAIN execs' : i \in DOMAIN execs \/ (~ends /\ i = next)
  BY <1>1, <1>3
<1>10. execs' \in Seq(WorkOrders)
  <2>1. \A i \in DOMAIN execs' : execs'[i] \in WorkOrders
    BY <1>2, <1>3, <1>8, <1>9
  <2>2. \E m \in Nat : DOMAIN execs' = 1..m
    <3>1. N \in Nat /\ next \in Nat
      BY <1>1
    <3>2. DOMAIN execs' = 1..N \/ DOMAIN execs' = 1..next
      BY <1>1, <1>3
    <3> HIDE DEF next
    <3> QED
      BY <3>1, <3>2
  <2>3. PICK m \in Nat : DOMAIN execs' = 1..m
    BY <2>2
  <2>4. execs' \in [1..m -> WorkOrders]
    BY <1>3, <2>1, <2>3
  <2> QED
    BY <2>4, IsASeq
\* The stack keeps its lower frames; the next work order is on top.
<1>16. ~ends => /\ stack' \in Seq([node : Nodes, exec : Nat]) /\ Len(stack') = b
                /\ DOMAIN stack' = 1..b
                /\ \A d \in 1..(b - 1) : stack'[d] = stack[d]
                /\ stack'[b] = Frame(to[b], next)
  <2> SUFFICES ASSUME ~ends
               PROVE  /\ stack' \in Seq([node : Nodes, exec : Nat]) /\ Len(stack') = b
                      /\ \A d \in 1..(b - 1) : stack'[d] = stack[d]
                      /\ stack'[b] = Frame(to[b], next)
    BY LenProperties
  <2> DEFINE S == [node : Nodes, exec : Nat]
             low == SubSeq(stack, 1, b - 1)
             top == <<Frame(to[b], next)>>
  <2>1. /\ low \in Seq(S) /\ Len(low) = b - 1 /\ \A d \in 1..(b - 1) : low[d] = stack[d]
    <3>1. b - 1 \in Nat /\ b - 1 <= Len(stack) /\ b - 1 \in 0..Len(stack)
      <4>1. b - 1 \in Nat /\ b - 1 <= n /\ b - 1 \in 0..n
        BY <1>1, <1>7
      <4> QED
        BY <4>1 DEF n
    <3> HIDE DEF S
    <3>2. /\ low \in Seq(S)
          /\ Len(low) = IF 1 <= b - 1 THEN b - 1 - 1 + 1 ELSE 0
          /\ \A d \in 1..(b - 1 - 1 + 1) : low[d] = stack[1 + d - 1]
      BY <1>1, <1>7, <3>1, SubSeqProperties DEF S
    <3> QED
      BY <1>1, <1>7, <3>1, <3>2
  <2>2. top \in Seq(S) /\ Len(top) = 1 /\ top[1] = Frame(to[b], next)
    BY <1>1, <1>6 DEF Frame
  <2>3. stack' = low \o top
    BY <1>3
  <2> HIDE DEF S, low, top
  <2> DEFINE m == b - 1
  <2>4. m \in Nat /\ m + 1 = b
    BY <1>1, <1>7
  <2>5. /\ stack' \in Seq(S) /\ Len(stack') = m + 1
        /\ \A d \in 1..(m + 1) : stack'[d] = IF d <= m THEN low[d] ELSE top[d - m]
    <3>1. Len(low) = m /\ low \in Seq(S)
      BY <2>1
    <3> HIDE DEF m
    <3>2. /\ low \o top \in Seq(S) /\ Len(low \o top) = Len(low) + Len(top)
          /\ \A d \in 1..(Len(low) + Len(top)) :
               (low \o top)[d] = IF d <= Len(low) THEN low[d] ELSE top[d - Len(low)]
      BY <2>2, <3>1, ConcatProperties
    <3> QED
      BY <2>2, <2>3, <3>1, <3>2
  <2>6. \A d \in 1..m : low[d] = stack[d]
    BY <2>1
  <2> HIDE DEF m
  <2>7. \A d \in 1..m : stack'[d] = stack[d]
    BY <2>4, <2>5, <2>6
  <2>8. stack'[m + 1] = Frame(to[b], next)
    <3>1. m + 1 \in 1..(m + 1) /\ ~(m + 1 <= m) /\ m + 1 - m = 1
      BY <2>4
    <3>2. stack'[m + 1] = top[m + 1 - m]
      BY <2>4, <2>5, <3>1
    <3>3. top[m + 1 - m] = top[1]
      BY <3>1, Zenon
    <3>4. stack'[m + 1] = top[1]
      BY <3>2, <3>3, Zenon
    <3> QED
      BY <2>2, <3>4, Zenon
  <2> QED
    BY <2>4, <2>5, <2>7, <2>8 DEF S, m
<1>11. ASSUME NEW i \in DOMAIN execs
       PROVE  Entry(i)'
  <2> DEFINE f == execs[i]
             g == execs'[i]
  <2>1. /\ g.visit = f.visit /\ g.child = f.child /\ g.node = f.node /\ g.input = f.input
        /\ g.pred = f.pred
    BY <1>2
  <2>2. Entry(i)
    BY <1>5
  <2>3. g.child # None =>
           /\ Kind[g.node] = "child" /\ g.child \in DOMAIN execs' /\ g.child > i
           /\ execs'[g.child].node = StartNode[Callee[g.node]] /\ execs'[g.child].input = g.input
    <3> SUFFICES ASSUME f.child # None
                 PROVE  /\ Kind[f.node] = "child" /\ f.child \in DOMAIN execs' /\ f.child > i
                        /\ execs'[f.child].node = StartNode[Callee[f.node]]
                        /\ execs'[f.child].input = f.input
      BY <2>1
    <3>1. /\ Kind[f.node] = "child" /\ f.child \in DOMAIN execs /\ f.child > i
          /\ execs[f.child].node = StartNode[Callee[f.node]] /\ execs[f.child].input = f.input
      BY <2>2 DEF Entry
    <3> HIDE DEF f
    <3> QED
      BY <1>2, <1>9, <3>1
  <2>4. g.pred # None =>
           /\ g.pred \in DOMAIN execs' /\ g.pred < i /\ execs'[g.pred].phase = "exited"
           /\ g.node = ExitOf(execs'[g.pred]) /\ g.input = execs'[g.pred].text
    <3> SUFFICES ASSUME f.pred # None
                 PROVE  /\ f.pred \in DOMAIN execs' /\ f.pred < i /\ execs'[f.pred].phase = "exited"
                        /\ f.node = ExitOf(execs'[f.pred]) /\ f.input = execs'[f.pred].text
      BY <2>1
    <3>1. /\ f.pred \in DOMAIN execs /\ f.pred < i /\ execs[f.pred].phase = "exited"
          /\ f.node = ExitOf(execs[f.pred]) /\ f.input = execs[f.pred].text
      BY <2>2 DEF Entry
    <3> HIDE DEF f
    <3>2. execs'[f.pred] = execs[f.pred]
      BY <1>2, <3>1
    <3> QED
      BY <1>9, <3>1, <3>2
  <2>5. f.visit = i
    BY <2>2 DEF Entry
  <2> QED
    BY <2>1, <2>3, <2>4, <2>5 DEF Entry
<1>12. ASSUME ~ends, NEW i, i = next
       PROVE  Entry(i)'
  <2>1. /\ execs'[i] = new /\ new.visit = next /\ new.child = None /\ new.pred = O(b)
        /\ new.node = to[b] /\ new.input = text
    BY <1>3, <1>8, <1>12
  <2>2. b \in b..n
    BY <1>1, <1>7
  <2>3. O(b) \in DOMAIN execs' /\ O(b) < next
    BY <1>1, <1>7, <1>9
  <2>4. execs'[O(b)].phase = "exited" /\ ExitOf(execs'[O(b)]) = to[b] /\ execs'[O(b)].text = text
    BY <1>2, <2>2
  <2> QED
    BY <1>12, <2>1, <2>3, <2>4 DEF Entry
<1>13. \A i \in DOMAIN execs : execs[i].restart => i = current
  BY <1>5 DEF Left
<1>14. ASSUME NEW d \in b..n, NEW i, i = O(d)
       PROVE  Left(i)'
  <2> DEFINE y == execs'[i]
             x == IF d = n THEN e ELSE execs[O(d)]
  <2>1. /\ y.node = x.node /\ y.input = x.input /\ y.judge = x.judge /\ y.program = x.program
        /\ y.child = x.child /\ y.restart = x.restart /\ y.phase = "exited"
        /\ y.text = text /\ ExitOf(y) = to[d] /\ y.terminal = IF d = n THEN None ELSE O(d + 1)
        /\ y.node = stack[d].node
    BY <1>2, <1>14
  <2>2. CASE d = n
    <3>1. y.terminal = None /\ x = e /\ O(d) = current
      BY <1>1, <2>1, <2>2
    <3>2. y.judge # "none" => Kind[y.node] = "task"
      BY <1>4, <2>1, <3>1
    <3>3. y.program # None => y.program.id <= version'
      <4>1. e.program # None => e.program.id \in Nat
        BY <1>4 DEF WorkOrders, Invocations
      <4> QED
        BY <1>1, <1>3, <1>4, <2>1, <3>1, <4>1
    <3>4. /\ y.text \in Texts /\ Kind[y.node] # "child"
          /\ Kind[y.node] = "program" => y.text \in {y.input, [by |-> i, inv |-> y.program.id]}
          /\ Kind[y.node] = "task" => y.text.by = i
      BY <1>4, <1>14, <2>1, <3>1
    <3>5. ~y.restart /\ y.phase = "exited"
      BY <1>4, <2>1, <3>1
    <3> HIDE DEF x
    <3> QED
      BY <3>1, <3>2, <3>3, <3>4, <3>5 DEF Left
  <2>3. CASE d # n
    <3>1. d \in 1..n /\ d + 1 \in b..n /\ d < n
      BY <1>1, <1>7, <2>3
    <3>2. /\ Kind[x.node] = "child" /\ x.child # None /\ x.child <= O(d + 1) /\ x.phase = "working"
          /\ WorkflowOf[stack[d + 1].node] = Callee[x.node]
      BY <1>5, <2>3, <3>1 DEF CallerFrame, O
    <3>3. Left(O(d)) /\ O(d) \in DOMAIN execs /\ O(d) # current
      <4>1. O(d) < O(n)
        BY <1>1, <3>1
      <4> QED
        BY <1>1, <1>5, <3>1, <4>1
    <3>4. /\ y.terminal = O(d + 1) /\ O(d + 1) \in DOMAIN execs' /\ O(d + 1) # None
      <4>1. O(d + 1) \in DOMAIN execs /\ O(d + 1) \in Nat
        BY <1>1, <1>7, <3>1
      <4> QED
        BY <1>9, <2>1, <2>3, <4>1, GraphAssumption
    <3>5. /\ execs'[O(d + 1)].phase = "exited" /\ execs'[O(d + 1)].text = text
          /\ execs'[O(d + 1)].node = stack[d + 1].node /\ ExitOf(execs'[O(d + 1)]) = to[d + 1]
      BY <1>2, <3>1
    <3>6. to[d] = Target[y.node][to[d + 1]]
      BY <1>6, <2>1, <2>3
    <3>7. x = execs[O(d)]
      BY <2>3
    <3> HIDE DEF x, y
    <3>8. y.judge = "none" /\ ~y.restart
      BY <1>13, <2>1, <3>2, <3>3, <3>7 DEF Left
    <3>9. y.program # None => y.program.id <= version'
      <4>1. x.program # None => x.program.id \in Nat
        <5>1. x \in WorkOrders
          BY <3>3, <3>7, StackFacts
        <5> QED
          BY <5>1 DEF WorkOrders, Invocations
      <4>2. x.program # None => x.program.id <= version
        BY <3>3, <3>7 DEF Left
      <4> QED
        BY <1>1, <1>3, <2>1, <4>1, <4>2
    <3>10. Kind[y.node] = "child" /\ y.child # None /\ y.child <= O(d + 1)
           /\ WorkflowOf[stack[d + 1].node] = Callee[y.node]
      BY <2>1, <3>2
    <3>11. y.text \in Texts /\ y.text = text /\ ExitOf(y) = to[d] /\ y.phase = "exited"
      BY <1>4, <2>1
    <3> QED
      BY <3>4, <3>5, <3>6, <3>8, <3>9, <3>10, <3>11 DEF Left, y
  <2> QED
    BY <2>2, <2>3
<1>15. ASSUME NEW i \in DOMAIN execs, \A d \in b..n : O(d) # i
       PROVE  Left(i)'
  <2> DEFINE f == execs[i]
  <2>1. execs'[i] = f
    BY <1>3, <1>15
  <2>2. Left(i) /\ f \in WorkOrders
    BY <1>5, StackFacts
  <2>3. i # current /\ ~f.restart
    <3>1. n \in b..n
      BY <1>1, <1>7
    <3> QED
      BY <1>1, <1>13, <1>15, <3>1
  <2>4. f.terminal # None =>
           /\ f.terminal \in DOMAIN execs' /\ execs'[f.terminal] = execs[f.terminal]
    <3> SUFFICES ASSUME f.terminal # None
                 PROVE  f.terminal \in DOMAIN execs' /\ execs'[f.terminal] = execs[f.terminal]
      OBVIOUS
    <3>1. f.terminal \in DOMAIN execs /\ execs[f.terminal].phase = "exited"
      BY <2>2 DEF Left
    <3> HIDE DEF f
    <3> QED
      BY <1>2, <1>9, <3>1
  <2>5. f.program # None => f.program.id <= version'
    <3>1. f.program # None => f.program.id \in Nat /\ f.program.id <= version
      BY <2>2 DEF Left, WorkOrders, Invocations
    <3> QED
      BY <1>1, <1>3, <3>1
  <2>6. f.phase # "exited" => \E d \in DOMAIN stack' : stack'[d].exec = i
    <3> SUFFICES ASSUME f.phase # "exited" PROVE \E d \in DOMAIN stack' : stack'[d].exec = i
      OBVIOUS
    <3>1. PICK d \in 1..n : O(d) = i
      <4>1. status # "terminated"
        BY DEF Live
      <4> QED
        BY <1>1, <2>2, <4>1 DEF Left, O
    <3>2. ~(d >= b)
      <4>1. d >= b => d \in b..n
        BY <1>1, <1>7
      <4> QED
        BY <1>15, <3>1, <4>1
    <3>3. ~ends /\ d \in 1..(b - 1)
      BY <1>1, <1>6, <1>7, <3>2
    <3> QED
      BY <1>3, <1>16, <3>1, <3>3 DEF O
  <2> QED
    BY <2>1, <2>2, <2>3, <2>4, <2>5, <2>6 DEF Left
<1>17. ASSUME ~ends, NEW i, i = next
       PROVE  Left(i)'
  <2>1. \E d \in DOMAIN stack' : stack'[d].exec = next
    <3>1. b \in DOMAIN stack' /\ stack'[b].exec = next
      BY <1>1, <1>7, <1>16, <1>17 DEF Frame
    <3> QED
      BY <3>1
  <2>2. execs'[i] = new
    BY <1>3, <1>17
  <2> QED
    BY <1>8, <1>17, <2>1, <2>2 DEF Left
<1>18. History'
  <2>1. \A i \in DOMAIN execs : Left(i)'
    BY <1>14, <1>15
  <2> QED
    BY <1>9, <1>11, <1>12, <1>17, <2>1 DEF History
<1>19. Frames'
  <2>1. CASE ends
    <3>1. stack' = <<>> /\ status' = "completed"
      BY <1>3, <2>1
    <3> QED
      BY <3>1 DEF Frames
  <2>2. CASE ~ends
    <3>1. /\ \A d \in 1..(b - 1) : stack'[d] = stack[d] /\ O(d) < next /\ d \in 1..n
          /\ stack'[b].node = to[b] /\ stack'[b].exec = next
      <4>1. \A d \in 1..(b - 1) : d \in 1..n
        BY <1>1, <1>7
      <4>2. \A d \in 1..n : O(d) < next
        BY <1>1
      <4>3. Frame(to[b], next).node = to[b] /\ Frame(to[b], next).exec = next
        BY DEF Frame
      <4> QED
        BY <1>16, <2>2, <4>1, <4>2, <4>3
    <3>2. \A d \in DOMAIN stack' : d \in 1..(b - 1) \/ d = b
      <4>1. b \in Nat /\ DOMAIN stack' = 1..b
        BY <1>1, <1>7, <1>16, <2>2
      <4> QED
        BY <4>1
    <3>3. \A d \in DOMAIN stack' : /\ stack'[d].exec \in DOMAIN execs'
                                   /\ stack'[d].node = execs'[stack'[d].exec].node
      <4>1. ASSUME NEW d \in 1..(b - 1)
            PROVE  /\ stack'[d].exec \in DOMAIN execs'
                   /\ stack'[d].node = execs'[stack'[d].exec].node
        BY <1>1, <1>2, <1>9, <3>1 DEF O
      <4>2. stack'[b].exec \in DOMAIN execs' /\ stack'[b].node = execs'[stack'[b].exec].node
        BY <1>1, <1>3, <1>8, <2>2, <3>1
      <4> QED
        BY <3>2, <4>1, <4>2
    <3>4. ASSUME NEW d \in DOMAIN stack', NEW k \in DOMAIN stack', d < k
          PROVE  stack'[d].exec < stack'[k].exec
      <4>1. d \in 1..(b - 1)
        BY <1>1, <1>7, <1>16, <2>2, <3>4
      <4>2. CASE k = b
        BY <3>1, <4>1, <4>2 DEF O
      <4>3. CASE k \in 1..(b - 1)
        BY <1>1, <3>1, <3>4, <4>1, <4>3 DEF O
      <4> QED
        BY <3>2, <4>2, <4>3
    <3>5. ASSUME NEW d \in DOMAIN stack', d < Len(stack')
          PROVE  CallerFrame(d)'
      <4>1. d \in 1..(b - 1) /\ d \in 1..n /\ d < n /\ stack'[d] = stack[d]
        BY <1>1, <1>7, <1>16, <2>2, <3>1, <3>5
      <4>2. CallerFrame(d) /\ d + 1 \in 1..n
        BY <1>1, <1>5, <4>1
      <4> DEFINE f == execs[O(d)]
      <4>3. execs'[O(d)] = f
        <5>1. \A k \in b..n : O(d) # O(k)
          <6> SUFFICES ASSUME NEW k \in b..n PROVE O(d) < O(k) /\ O(d) \in Nat
            BY <1>1, <1>7
          <6> QED
            BY <1>1, <1>7, <4>1
        <5> QED
          BY <1>1, <1>3, <4>1, <5>1
      <4>4. /\ Kind[f.node] = "child" /\ f.phase = "working" /\ f.child # None /\ f.terminal = None
            /\ f.child <= O(d + 1) /\ WorkflowOf[stack[d + 1].node] = Callee[f.node]
        BY <4>2 DEF CallerFrame, O
      <4>5. f.child <= stack'[d + 1].exec /\ WorkflowOf[stack'[d + 1].node] = Callee[f.node]
        <5>1. CASE d + 1 = b
          <6>1. stack'[d + 1].exec = next /\ O(d + 1) < next /\ WorkflowOf[to[b]] = Callee[f.node]
            BY <1>1, <1>6, <1>7, <2>2, <3>1, <4>4, <5>1
          <6>2. f.child \in Nat
            <7>1. f \in WorkOrders
              BY <1>1, <4>1, StackFacts
            <7> QED
              BY <4>4, <7>1 DEF WorkOrders
          <6>3. O(d + 1) \in Nat
            BY <1>1, <4>2
          <6>4. stack'[d + 1].node = to[b]
            BY <3>1, <5>1
          <6> HIDE DEF f
          <6> QED
            BY <1>1, <4>4, <6>1, <6>2, <6>3, <6>4
        <5>2. CASE d + 1 # b
          <6>1. d + 1 \in 1..(b - 1)
            BY <1>1, <1>7, <4>1, <5>2
          <6> QED
            BY <3>1, <4>4, <6>1 DEF O
        <5> QED
          BY <5>1, <5>2
      <4> QED
        BY <4>1, <4>3, <4>4, <4>5 DEF CallerFrame, O
    <3>6. /\ current' = next /\ current' = Len(execs') /\ stack' # <<>> /\ Top'.exec = current'
      <4>1. Len(execs') = next
        BY <1>1, <1>3, <1>10, <2>2, LenProperties
      <4>2. stack' # <<>>
        BY <1>1, <1>7, <1>16, <2>2
      <4> QED
        BY <1>3, <1>16, <2>2, <3>1, <4>1, <4>2 DEF Top
    <3>7. cur' = new
      BY <1>3, <2>2 DEF cur
    <3> QED
      BY <1>3, <1>8, <2>2, <3>3, <3>4, <3>5, <3>6, <3>7 DEF Frames
  <2> QED
    BY <2>1, <2>2
<1>20. StackTypes'
  <2>1. stack' \in Seq([node : Nodes, exec : Nat])
    <3>1. ends => stack' \in Seq([node : Nodes, exec : Nat])
      BY <1>3
    <3> QED
      BY <1>16, <3>1
  <2>2. current' \in DOMAIN execs'
    BY <1>1, <1>3, <1>7
  <2>3. status' \in {"running", "blocked", "completed", "terminated"} /\ version' \in Nat
    BY <1>1, <1>3
  <2> QED
    BY <1>10, <2>1, <2>2, <2>3 DEF StackTypes
<1> QED
  BY <1>18, <1>19, <1>20 DEF StackInv

-----------------------------------------------------------------------------
(* Writes that leave no work order and enter none.                         *)

Kept(i) ==
  LET e == execs[i]
      f == execs'[i]
  IN  /\ f.node = e.node /\ f.input = e.input /\ f.visit = e.visit /\ f.pred = e.pred
      /\ f.text = e.text /\ f.child = e.child /\ f.terminal = e.terminal /\ f.returned = e.returned
      /\ f.phase = "exited" <=> e.phase = "exited"
      /\ e.child # None => f.phase = e.phase
      /\ e.phase = "exited" => f.program = e.program
      /\ f.judge # "none" => e.judge # "none"
      /\ f.program # None => f.program.id <= version'
      /\ f.restart => i = current /\ status' = "blocked" /\ turns' = {}

LEMMA KeptInv ==
  ASSUME StackInv, UNCHANGED <<stack, current>>, execs' \in Seq(WorkOrders),
         DOMAIN execs' = DOMAIN execs, \A i \in DOMAIN execs : Kept(i),
         status' \in {"running", "blocked", "completed", "terminated"}, version' \in Nat,
         calls' \subseteq CallRecords,
         status' \in {"running", "blocked"} => Live,
         status' = "completed" => status = "completed",
         status' # "terminated" => status # "terminated"
  PROVE  StackInv'
<1>1. /\ StackTypes /\ Frames /\ \A i \in DOMAIN execs : Entry(i) /\ Left(i)
      /\ Len(stack) \in Nat /\ DOMAIN stack = 1..Len(stack) /\ DOMAIN execs = 1..Len(execs)
      /\ Len(execs) \in Nat
      /\ current \in DOMAIN execs
  BY StackFacts DEF StackInv, History
<1>2. StackTypes'
  BY <1>1 DEF StackTypes
<1>3. \A i \in DOMAIN execs : execs[i].phase = "exited" => ExitOf(execs'[i]) = ExitOf(execs[i])
  BY DEF Kept, ExitOf
<1>4. ASSUME NEW i \in DOMAIN execs
      PROVE  Entry(i)'
  <2> DEFINE e == execs[i]
             f == execs'[i]
  <2>1. /\ f.node = e.node /\ f.input = e.input /\ f.visit = e.visit /\ f.pred = e.pred /\ f.child = e.child
    BY DEF Kept
  <2>2. Entry(i)
    BY <1>1
  <2>3. e.child # None =>
           /\ Kind[e.node] = "child" /\ e.child \in DOMAIN execs /\ e.child > i
           /\ execs'[e.child].node = StartNode[Callee[e.node]] /\ execs'[e.child].input = e.input
    <3> SUFFICES ASSUME e.child # None
                 PROVE  /\ Kind[e.node] = "child" /\ e.child \in DOMAIN execs /\ e.child > i
                        /\ execs'[e.child].node = StartNode[Callee[e.node]]
                        /\ execs'[e.child].input = e.input
      OBVIOUS
    <3>1. /\ Kind[e.node] = "child" /\ e.child \in DOMAIN execs /\ e.child > i
          /\ execs[e.child].node = StartNode[Callee[e.node]] /\ execs[e.child].input = e.input
      BY <2>2 DEF Entry
    <3>2. execs'[e.child].node = execs[e.child].node /\ execs'[e.child].input = execs[e.child].input
      BY <3>1 DEF Kept
    <3> QED
      BY <3>1, <3>2
  <2>4. e.pred # None =>
           /\ e.pred \in DOMAIN execs /\ e.pred < i /\ execs'[e.pred].phase = "exited"
           /\ e.node = ExitOf(execs'[e.pred]) /\ e.input = execs'[e.pred].text
    <3> SUFFICES ASSUME e.pred # None
                 PROVE  /\ e.pred \in DOMAIN execs /\ e.pred < i /\ execs'[e.pred].phase = "exited"
                        /\ e.node = ExitOf(execs'[e.pred]) /\ e.input = execs'[e.pred].text
      OBVIOUS
    <3>1. /\ e.pred \in DOMAIN execs /\ e.pred < i /\ execs[e.pred].phase = "exited"
          /\ e.node = ExitOf(execs[e.pred]) /\ e.input = execs[e.pred].text
      BY <2>2 DEF Entry
    <3>2. execs'[e.pred].phase = "exited" /\ execs'[e.pred].text = execs[e.pred].text
      BY <3>1 DEF Kept
    <3> QED
      BY <1>3, <3>1, <3>2
  <2>5. e.visit = i
    BY <2>2 DEF Entry
  <2> HIDE DEF e, f
  <2>6. DOMAIN execs' = DOMAIN execs
    OBVIOUS
  <2> QED
    BY <2>1, <2>3, <2>4, <2>5, <2>6 DEF Entry, e, f
<1>5. ASSUME NEW i \in DOMAIN execs
      PROVE  Left(i)'
  <2> DEFINE e == execs[i]
             f == execs'[i]
  <2>1. /\ f.node = e.node /\ f.input = e.input /\ f.text = e.text /\ f.child = e.child
        /\ f.terminal = e.terminal /\ (f.phase = "exited" <=> e.phase = "exited")
        /\ e.phase = "exited" => f.program = e.program
        /\ f.judge # "none" => e.judge # "none"
        /\ f.program # None => f.program.id <= version'
        /\ f.restart => i = current /\ status' = "blocked" /\ turns' = {}
    BY DEF Kept
  <2>2. Left(i)
    BY <1>1
  <2>3. e.terminal # None =>
           /\ Kind[e.node] = "child" /\ e.phase = "exited" /\ e.child # None
           /\ e.terminal \in DOMAIN execs /\ e.child <= e.terminal
           /\ execs'[e.terminal].phase = "exited"
           /\ WorkflowOf[execs'[e.terminal].node] = Callee[e.node]
           /\ ExitOf(f) = Target[e.node][ExitOf(execs'[e.terminal])]
           /\ e.text = execs'[e.terminal].text
    <3> SUFFICES ASSUME e.terminal # None
                 PROVE  /\ Kind[e.node] = "child" /\ e.phase = "exited" /\ e.child # None
                        /\ e.terminal \in DOMAIN execs /\ e.child <= e.terminal
                        /\ execs'[e.terminal].phase = "exited"
                        /\ WorkflowOf[execs'[e.terminal].node] = Callee[e.node]
                        /\ ExitOf(f) = Target[e.node][ExitOf(execs'[e.terminal])]
                        /\ e.text = execs'[e.terminal].text
      OBVIOUS
    <3>1. /\ Kind[e.node] = "child" /\ e.phase = "exited" /\ e.child # None
          /\ e.terminal \in DOMAIN execs /\ e.child <= e.terminal
          /\ execs[e.terminal].phase = "exited"
          /\ WorkflowOf[execs[e.terminal].node] = Callee[e.node]
          /\ ExitOf(e) = Target[e.node][ExitOf(execs[e.terminal])]
          /\ e.text = execs[e.terminal].text
      BY <2>2 DEF Left
    <3>2. /\ execs'[e.terminal].phase = "exited" /\ execs'[e.terminal].node = execs[e.terminal].node
          /\ execs'[e.terminal].text = execs[e.terminal].text
      BY <3>1 DEF Kept
    <3>3. ExitOf(f) = ExitOf(e) /\ ExitOf(execs'[e.terminal]) = ExitOf(execs[e.terminal])
      BY <1>3, <3>1
    <3> QED
      BY <3>1, <3>2, <3>3
  <2>4. /\ e.phase = "exited" =>
             /\ e.text \in Texts
             /\ Kind[e.node] = "child" => e.terminal # None
             /\ Kind[e.node] = "program" => e.text \in {e.input, [by |-> i, inv |-> e.program.id]}
             /\ Kind[e.node] = "task" => e.text.by = i
        /\ e.judge # "none" => Kind[e.node] = "task" /\ e.phase = "exited"
    BY <2>2 DEF Left
  <2>5. e.phase # "exited" /\ status' # "terminated" => \E d \in DOMAIN stack' : stack'[d].exec = i
    BY <2>2 DEF Left
  <2>6. DOMAIN execs' = DOMAIN execs /\ current' = current
    OBVIOUS
  <2>7. f.terminal # None =>
           /\ Kind[f.node] = "child" /\ f.phase = "exited" /\ f.child # None
           /\ f.terminal \in DOMAIN execs' /\ f.child <= f.terminal
           /\ execs'[f.terminal].phase = "exited"
           /\ WorkflowOf[execs'[f.terminal].node] = Callee[f.node]
           /\ ExitOf(f) = Target[f.node][ExitOf(execs'[f.terminal])]
           /\ f.text = execs'[f.terminal].text
    <3> HIDE DEF e, f
    <3> QED
      BY <2>1, <2>3, <2>6
  <2>8. /\ f.phase = "exited" =>
             /\ f.text \in Texts
             /\ Kind[f.node] = "child" => f.terminal # None
             /\ Kind[f.node] = "program" => f.text \in {f.input, [by |-> i, inv |-> f.program.id]}
             /\ Kind[f.node] = "task" => f.text.by = i
        /\ f.judge # "none" => Kind[f.node] = "task" /\ f.phase = "exited"
        /\ f.phase # "exited" /\ status' # "terminated" => \E d \in DOMAIN stack' : stack'[d].exec = i
    <3> HIDE DEF e, f
    <3> QED
      BY <2>1, <2>4, <2>5
  <2> QED
    BY <2>1, <2>6, <2>7, <2>8 DEF Left
<1>6. Frames'
  <2>1. \A d \in DOMAIN stack : /\ stack[d].exec \in DOMAIN execs
                                /\ stack[d].node = execs'[stack[d].exec].node
    BY <1>1 DEF Frames, Kept
  <2>2. ASSUME NEW d \in DOMAIN stack, d < Len(stack)
        PROVE  CallerFrame(d)'
    <3>1. CallerFrame(d) /\ stack[d].exec \in DOMAIN execs
      BY <1>1, <2>2 DEF Frames
    <3>2. Kept(stack[d].exec)
      BY <3>1
    <3> QED
      BY <3>1, <3>2 DEF CallerFrame, Kept
  <2>3. status' \in {"running", "blocked"} =>
          /\ current' = Len(execs') /\ stack' # <<>> /\ Top'.exec = current'
          /\ cur'.phase # "exited" /\ cur'.child = None /\ cur'.terminal = None
    <3> SUFFICES ASSUME Live
                 PROVE  /\ current = Len(execs') /\ stack # <<>> /\ Top.exec = current
                        /\ execs'[current].phase # "exited" /\ execs'[current].child = None
                        /\ execs'[current].terminal = None
      BY DEF Top, cur
    <3>1. Len(execs') = Len(execs)
      BY <1>1, LenProperties
    <3>2. /\ current = Len(execs) /\ stack # <<>> /\ Top.exec = current
          /\ cur.phase # "exited" /\ cur.child = None /\ cur.terminal = None
      BY <1>1 DEF Frames, Live
    <3>3. Kept(current)
      BY <1>1
    <3> QED
      BY <3>1, <3>2, <3>3 DEF Kept, cur
  <2>4. /\ \A d, k \in DOMAIN stack : d < k => stack[d].exec < stack[k].exec
        /\ status' = "completed" => stack = <<>>
    BY <1>1 DEF Frames
  <2> QED
    BY <2>1, <2>2, <2>3, <2>4 DEF Frames
<1>7. History'
  BY <1>4, <1>5 DEF History
<1> QED
  BY <1>2, <1>6, <1>7 DEF StackInv

LEMMA RowKeptInv ==
  ASSUME StackInv, UNCHANGED rowVars, calls' \subseteq CallRecords, turns' \subseteq turns
  PROVE  StackInv'
<1>1. UNCHANGED <<status, version, stack, current, execs>>
  BY DEF rowVars
<1>2. \A i \in DOMAIN execs : Kept(i)
  <2> SUFFICES ASSUME NEW i \in DOMAIN execs PROVE Kept(i)
    OBVIOUS
  <2>1. Left(i)
    BY DEF StackInv, History
  <2>2. /\ execs[i].program # None => execs[i].program.id <= version
        /\ execs[i].restart => i = current /\ status = "blocked" /\ turns = {}
    BY <2>1 DEF Left
  <2> QED
    BY <1>1, <2>2 DEF Kept
<1> QED
  BY <1>1, <1>2, KeptInv DEF StackInv, StackTypes, Live

LEMMA PutInv ==
  ASSUME StackInv, Live, NEW st \in {"running", "blocked", "terminated"}, NEW e \in WorkOrders,
         Put(st, e), calls' \subseteq CallRecords,
         e.node = cur.node, e.input = cur.input, e.visit = cur.visit, e.pred = cur.pred,
         e.text = cur.text, e.child = cur.child, e.terminal = cur.terminal,
         e.returned = cur.returned, e.judge = cur.judge, e.phase # "exited",
         e.program # None => e.program.id <= version + 1,
         e.restart => st = "blocked" /\ turns' = {}
  PROVE  StackInv'
<1>1. /\ status' = st /\ version' = version + 1 /\ execs' = [execs EXCEPT ![current] = e]
      /\ UNCHANGED <<stack, current>>
  BY DEF Put
<1>2. /\ current \in DOMAIN execs /\ execs \in Seq(WorkOrders) /\ version \in Nat
      /\ cur.phase # "exited" /\ cur.child = None
      /\ \A i \in DOMAIN execs : Left(i) /\ execs[i] \in WorkOrders
  BY StackFacts, LiveFacts DEF StackInv, StackTypes, History
<1>3. execs' \in Seq(WorkOrders) /\ DOMAIN execs' = DOMAIN execs
  BY <1>1, <1>2, ExceptSeq
<1>4. ASSUME NEW i \in DOMAIN execs PROVE Kept(i)
  <2>1. CASE i = current
    <3>1. execs'[i] = e /\ execs[i] = cur
      BY <1>1, <1>2, <2>1 DEF cur
    <3> QED
      BY <1>1, <1>2, <2>1, <3>1 DEF Kept
  <2>2. CASE i # current
    <3>1. execs'[i] = execs[i]
      BY <1>1, <2>2
    <3>2. /\ execs[i].program # None => execs[i].program.id <= version /\ execs[i].program.id \in Nat
          /\ ~execs[i].restart
      BY <1>2, <2>2 DEF Left, WorkOrders, Invocations
    <3> QED
      BY <1>1, <1>2, <3>1, <3>2 DEF Kept
  <2> QED
    BY <2>1, <2>2
<1>5. status # "terminated"
  BY DEF Live
<1> QED
  BY <1>1, <1>2, <1>3, <1>4, <1>5, KeptInv

-----------------------------------------------------------------------------
(* Entering a Child.                                                       *)

\* Of the work orders there were, only the caller, a Child Node's, has changed.
EntersKeeps ==
  \A i \in DOMAIN execs : /\ i \in DOMAIN execs' /\ execs'[i].node = execs[i].node
                          /\ execs'[i].judge = execs[i].judge
                          /\ execs'[i].phase = execs[i].phase \/ Kind[execs[i].node] = "child"

LEMMA EntersInv ==
  ASSUME StackInv, NEW c, EntersChild(c), calls' \subseteq CallRecords
  PROVE  StackInv' /\ cur'.phase = "ready" /\ cur'.pred = None /\ EntersKeeps
<1> DEFINE n == Len(stack)
           N == Len(execs)
           first == N + 1
           callee == Callee[cur.node]
           start == StartNode[callee]
           e == [cur EXCEPT !.phase = "working", !.child = first]
           old == [execs EXCEPT ![current] = e]
           new == newExecution(start, cur.input, cur.visit + 1, None)
           top == Frame(start, first)
<1>1. /\ status = "running" /\ Kind[cur.node] = "child" /\ version' = version + 1
      /\ status' = "running" /\ current' = first /\ stack' = Append(stack, top)
      /\ UNCHANGED turns
  BY DEF EntersChild, Drives
<1>2. execs' = Append(old, new)
  <2>1. execs' = Append([execs EXCEPT ![current].phase = "working", ![current].child = first], new)
    BY DEF EntersChild
  <2>2. [execs EXCEPT ![current].phase = "working", ![current].child = first] = old
    <3>1. current \in DOMAIN execs /\ execs[current] \in WorkOrders
      BY StackFacts
    <3> QED
      BY <3>1, StackFacts DEF cur, WorkOrders
  <2> QED
    BY <2>1, <2>2
<1>3. /\ n \in Nat /\ n >= 1 /\ DOMAIN stack = 1..n /\ N \in Nat /\ DOMAIN execs = 1..N
      /\ current = N /\ N >= 1 /\ stack[n].exec = current /\ stack[n].node = cur.node
      /\ version \in Nat /\ cur \in WorkOrders /\ cur.phase # "exited" /\ cur.child = None
      /\ cur.terminal = None /\ cur = execs[current] /\ current \in DOMAIN execs
      /\ stack \in Seq([node : Nodes, exec : Nat]) /\ execs \in Seq(WorkOrders)
      /\ \A i \in DOMAIN execs : Entry(i) /\ Left(i) /\ execs[i] \in WorkOrders
      /\ \A d \in 1..n : stack[d].exec \in DOMAIN execs /\ stack[d].node = execs[stack[d].exec].node
      /\ \A d, k \in 1..n : d < k => stack[d].exec < stack[k].exec
      /\ \A d \in 1..n : d < n => CallerFrame(d)
  <2>1. Live /\ StackTypes /\ History /\ Frames
    BY <1>1 DEF Live, StackInv
  <2>2. stack \in Seq([node : Nodes, exec : Nat]) /\ execs \in Seq(WorkOrders)
    BY <2>1 DEF StackTypes
  <2>3. \A i \in DOMAIN execs : Entry(i) /\ Left(i)
    BY <2>1 DEF History
  <2>4. /\ n \in Nat /\ n >= 1 /\ DOMAIN stack = 1..n /\ N \in Nat /\ DOMAIN execs = 1..N
        /\ current = N /\ stack[n].exec = current /\ stack[n].node = cur.node
        /\ version \in Nat /\ cur \in WorkOrders /\ cur.phase # "exited" /\ cur.child = None
        /\ cur.terminal = None /\ cur = execs[current] /\ current \in DOMAIN execs
        /\ \A i \in DOMAIN execs : execs[i] \in WorkOrders
    BY <2>1, StackFacts, LiveFacts DEF cur
  <2>5. N >= 1
    BY <2>4
  <2>6. /\ \A d \in 1..n : stack[d].exec \in DOMAIN execs /\ stack[d].node = execs[stack[d].exec].node
        /\ \A d, k \in 1..n : d < k => stack[d].exec < stack[k].exec
        /\ \A d \in 1..n : d < n => CallerFrame(d)
    BY <2>1, <2>4 DEF Frames
  <2> QED
    BY <2>2, <2>3, <2>4, <2>5, <2>6
<1>4. callee \in Workflows /\ start \in Nodes /\ WorkflowOf[start] = callee
  <2>1. cur.node \in Nodes
    BY <1>3 DEF WorkOrders
  <2> QED
    BY <1>1, <2>1, GraphAssumption
<1>5. /\ e \in WorkOrders /\ e.node = cur.node /\ e.input = cur.input /\ e.visit = cur.visit
      /\ e.pred = cur.pred /\ e.text = cur.text /\ e.child = first /\ e.terminal = None
      /\ e.judge = cur.judge /\ e.program = cur.program /\ e.restart = cur.restart
      /\ e.phase = "working"
  <2>1. first \in Nat \cup {None}
    BY <1>3
  <2> HIDE DEF first
  <2>2. PICK f : f = e
    OBVIOUS
  <2>3. /\ f \in WorkOrders /\ f.node = cur.node /\ f.input = cur.input /\ f.visit = cur.visit
        /\ f.pred = cur.pred /\ f.text = cur.text /\ f.child = first /\ f.terminal = cur.terminal
        /\ f.judge = cur.judge /\ f.program = cur.program /\ f.restart = cur.restart
        /\ f.phase = "working"
    BY <1>3, <2>1, <2>2 DEF WorkOrders
  <2> QED
    BY <1>3, <2>2, <2>3
<1>6. cur.visit = N /\ cur.judge = "none" /\ ~cur.restart
      /\ (cur.program # None => cur.program.id <= version)
  BY <1>1, <1>3 DEF Entry, Left
<1>7. /\ new \in WorkOrders /\ new.node = start /\ new.input = cur.input /\ new.visit = first
      /\ new.pred = None /\ new.child = None /\ new.terminal = None /\ new.judge = "none"
      /\ new.program = None /\ ~new.restart /\ new.phase = "ready"
  BY <1>3, <1>4, <1>6 DEF newExecution, WorkOrders
<1>8. top \in [node : Nodes, exec : Nat] /\ top.node = start /\ top.exec = first
  BY <1>3, <1>4 DEF Frame
<1> HIDE DEF n, N, new, e, start, callee, top
<1>9. /\ stack' \in Seq([node : Nodes, exec : Nat]) /\ Len(stack') = n + 1 /\ DOMAIN stack' = 1..(n + 1)
      /\ \A d \in 1..n : stack'[d] = stack[d]
      /\ stack'[n + 1] = top
  BY <1>1, <1>3, <1>8, AppendProperties, LenProperties DEF n
<1>10. /\ execs' \in Seq(WorkOrders) /\ Len(execs') = first /\ DOMAIN execs' = 1..first
       /\ \A i \in 1..N : i # current => execs'[i] = execs[i]
       /\ execs'[current] = e /\ execs'[first] = new
  <2>1. old \in Seq(WorkOrders) /\ Len(old) = N
    BY <1>3, <1>5, ExceptSeq DEF N
  <2>2. old[current] = e /\ \A i \in 1..N : i # current => old[i] = execs[i]
    BY <1>3
  <2> HIDE DEF old
  <2> QED
    BY <1>2, <1>3, <1>7, <2>1, <2>2, AppendProperties, LenProperties
<1>11. /\ \A i \in DOMAIN execs : /\ i \in DOMAIN execs' /\ execs'[i].node = execs[i].node
                                  /\ execs'[i].input = execs[i].input
                                  /\ execs'[i].visit = execs[i].visit /\ execs'[i].pred = execs[i].pred
                                  /\ execs[i].phase = "exited" => execs'[i] = execs[i]
       /\ \A i \in DOMAIN execs' : i \in DOMAIN execs \/ i = first
  <2>1. /\ \A i \in 1..N : i \in 1..first
        /\ \A i \in 1..first : i \in 1..N \/ i = first
    BY <1>3
  <2> HIDE DEF first
  <2> QED
    BY <1>3, <1>5, <1>10, <2>1
<1>12. ASSUME NEW i \in DOMAIN execs
       PROVE  Entry(i)'
  <2> DEFINE f == execs[i]
             g == execs'[i]
  <2>1. /\ g.visit = f.visit /\ g.node = f.node /\ g.input = f.input /\ g.pred = f.pred /\ Entry(i)
    BY <1>3, <1>11
  <2>2. g.child # None =>
           /\ Kind[g.node] = "child" /\ g.child \in DOMAIN execs' /\ g.child > i
           /\ execs'[g.child].node = StartNode[Callee[g.node]] /\ execs'[g.child].input = g.input
    <3>1. CASE i = current
      <4>1. g.child = first /\ first \in DOMAIN execs' /\ first > i /\ g.node = cur.node
            /\ g.input = cur.input
        BY <1>3, <1>5, <1>10, <3>1
      <4>2. execs'[first].node = StartNode[Callee[cur.node]] /\ execs'[first].input = cur.input
        BY <1>7, <1>10 DEF start, callee
      <4> HIDE DEF first, g
      <4> QED
        BY <1>1, <4>1, <4>2
    <3>2. CASE i # current
      <4>1. g = f
        BY <1>3, <1>10, <3>2
      <4>2. f.child # None =>
              /\ Kind[f.node] = "child" /\ f.child \in DOMAIN execs /\ f.child > i
              /\ execs[f.child].node = StartNode[Callee[f.node]] /\ execs[f.child].input = f.input
        BY <2>1 DEF Entry
      <4> HIDE DEF f
      <4> QED
        BY <1>11, <4>1, <4>2
    <3> QED
      BY <3>1, <3>2
  <2>3. f.pred # None =>
           /\ f.pred \in DOMAIN execs' /\ f.pred < i /\ execs'[f.pred].phase = "exited"
           /\ f.node = ExitOf(execs'[f.pred]) /\ f.input = execs'[f.pred].text
    <3>1. f.pred # None =>
           /\ f.pred \in DOMAIN execs /\ f.pred < i /\ execs[f.pred].phase = "exited"
           /\ f.node = ExitOf(execs[f.pred]) /\ f.input = execs[f.pred].text
      BY <2>1 DEF Entry
    <3> HIDE DEF f
    <3> QED
      BY <1>11, <3>1
  <2>4. f.visit = i
    BY <2>1 DEF Entry
  <2> QED
    BY <2>1, <2>2, <2>3, <2>4 DEF Entry
<1>13. ASSUME NEW i \in DOMAIN execs
       PROVE  Left(i)'
  <2> DEFINE f == execs[i]
             g == execs'[i]
  <2>1. Left(i) /\ f \in WorkOrders
    BY <1>3
  <2>2. CASE i = current
    <3>1. g = e /\ \E d \in DOMAIN stack' : stack'[d].exec = i
      <4>1. n \in DOMAIN stack' /\ stack'[n].exec = i
        BY <1>3, <1>9, <2>2
      <4> QED
        BY <1>10, <2>2, <4>1
    <3>2. cur.program # None => cur.program.id \in Nat
      BY <1>3 DEF WorkOrders, Invocations
    <3>3. e.program # None => e.program.id <= version'
      BY <1>1, <1>3, <1>5, <1>6, <3>2
    <3> QED
      BY <1>5, <1>6, <3>1, <3>3 DEF Left
  <2>3. CASE i # current
    <3>1. g = f /\ ~f.restart
      BY <1>1, <1>3, <1>10, <2>1, <2>3 DEF Left
    <3>2. f.terminal # None => f.terminal \in DOMAIN execs' /\ execs'[f.terminal] = execs[f.terminal]
      <4>1. f.terminal # None => f.terminal \in DOMAIN execs /\ execs[f.terminal].phase = "exited"
        BY <2>1 DEF Left
      <4> HIDE DEF f
      <4> QED
        BY <1>11, <4>1
    <3>3. f.program # None => f.program.id <= version'
      <4>1. f.program # None => f.program.id \in Nat /\ f.program.id <= version
        BY <2>1 DEF Left, WorkOrders, Invocations
      <4> QED
        BY <1>1, <1>3, <4>1
    <3>4. f.phase # "exited" => \E d \in DOMAIN stack' : stack'[d].exec = i
      <4> SUFFICES ASSUME f.phase # "exited" PROVE \E d \in DOMAIN stack' : stack'[d].exec = i
        OBVIOUS
      <4>1. PICK d \in 1..n : stack[d].exec = i
        BY <1>1, <1>3, <2>1 DEF Left
      <4>2. d \in 1..(n + 1)
        BY <1>3
      <4> QED
        BY <1>9, <4>1, <4>2
    <3> QED
      BY <2>1, <3>1, <3>2, <3>3, <3>4 DEF Left
  <2> QED
    BY <2>2, <2>3
<1>14. ASSUME NEW i, i = first
       PROVE  Entry(i)' /\ Left(i)'
  <2>1. execs'[i] = new
    BY <1>10, <1>14
  <2>2. \E d \in DOMAIN stack' : stack'[d].exec = i
    <3>1. n + 1 \in DOMAIN stack' /\ stack'[n + 1].exec = i
      BY <1>3, <1>8, <1>9, <1>14
    <3> QED
      BY <3>1
  <2> QED
    BY <1>7, <1>14, <2>1, <2>2 DEF Entry, Left
<1>15. History'
  BY <1>11, <1>12, <1>13, <1>14 DEF History
<1>16. Frames'
  <2>1. \A d \in DOMAIN stack' : d \in 1..n \/ d = n + 1
    BY <1>3, <1>9
  <2>2. ASSUME NEW d \in DOMAIN stack'
        PROVE  stack'[d].exec \in DOMAIN execs' /\ stack'[d].node = execs'[stack'[d].exec].node
    <3>1. CASE d = n + 1
      <4>1. first \in DOMAIN execs'
        BY <1>3, <1>10
      <4> QED
        BY <1>7, <1>8, <1>9, <1>10, <3>1, <4>1
    <3>2. CASE d \in 1..n
      BY <1>3, <1>9, <1>11, <3>2
    <3> QED
      BY <2>1, <3>1, <3>2
  <2>3. ASSUME NEW d \in DOMAIN stack', NEW k \in DOMAIN stack', d < k
        PROVE  stack'[d].exec < stack'[k].exec
    <3>1. d \in 1..n
      BY <1>3, <1>9, <2>3
    <3>2. CASE k = n + 1
      <4>1. stack'[d].exec \in 1..N /\ stack'[k].exec = first
        BY <1>3, <1>8, <1>9, <3>1, <3>2
      <4> QED
        BY <1>3, <4>1
    <3>3. CASE k \in 1..n
      BY <1>3, <1>9, <2>3, <3>1, <3>3
    <3> QED
      BY <2>1, <3>2, <3>3
  <2>4. ASSUME NEW d \in DOMAIN stack', d < Len(stack')
        PROVE  CallerFrame(d)'
    <3>1. d \in 1..n /\ stack'[d] = stack[d]
      BY <1>3, <1>9, <2>4
    <3>2. CASE d = n
      <4>1. stack'[d].exec = current /\ stack'[d + 1] = top
        BY <1>3, <1>9, <3>1, <3>2
      <4>2. execs'[stack'[d].exec] = e
        BY <1>10, <4>1
      <4>3. e.child # None /\ e.child <= stack'[d + 1].exec
        <5>1. first \in Nat /\ first <= first
          BY <1>3
        <5> HIDE DEF first
        <5> QED
          BY <1>5, <1>8, <4>1, <5>1, GraphAssumption
      <4>4. Kind[e.node] = "child" /\ WorkflowOf[stack'[d + 1].node] = Callee[e.node]
        BY <1>1, <1>4, <1>5, <1>8, <4>1 DEF callee
      <4> QED
        BY <1>5, <4>2, <4>3, <4>4 DEF CallerFrame
    <3>3. CASE d # n
      <4>1. d < n /\ d + 1 \in 1..n
        BY <1>3, <3>1, <3>3
      <4>2. CallerFrame(d) /\ stack'[d + 1] = stack[d + 1]
        BY <1>3, <1>9, <3>1, <4>1
      <4>3. stack[d].exec # current
        <5>1. stack[d].exec < stack[n].exec
          BY <1>3, <3>1, <4>1
        <5> QED
          BY <1>3, <3>1, <5>1
      <4>4. execs'[stack[d].exec] = execs[stack[d].exec]
        BY <1>3, <1>10, <3>1, <4>3
      <4> QED
        BY <3>1, <4>2, <4>4 DEF CallerFrame
    <3> QED
      BY <3>2, <3>3
  <2>5. /\ current' = Len(execs') /\ stack' # <<>> /\ Top'.exec = current' /\ cur' = new
    BY <1>1, <1>3, <1>8, <1>9, <1>10 DEF Top, cur
  <2> QED
    BY <1>1, <1>7, <2>2, <2>3, <2>4, <2>5 DEF Frames
<1>17. StackTypes'
  <2>1. current' \in DOMAIN execs' /\ version' \in Nat
    BY <1>1, <1>3, <1>10
  <2> QED
    BY <1>1, <1>9, <1>10, <2>1 DEF StackTypes
<1>18. cur' = new
  BY <1>1, <1>10 DEF cur
<1>19. \A i \in DOMAIN execs : /\ execs'[i].judge = execs[i].judge
                               /\ execs'[i].phase = execs[i].phase \/ Kind[execs[i].node] = "child"
  BY <1>1, <1>3, <1>5, <1>10
<1>20. EntersKeeps
  BY <1>11, <1>19 DEF EntersKeeps
<1> QED
  BY <1>7, <1>15, <1>16, <1>17, <1>18, <1>20 DEF StackInv

-----------------------------------------------------------------------------
(* The steps keep what stack and history say of each other.                *)

LEMMA CurFacts ==
  ASSUME StackInv, Live
  PROVE  /\ cur \in WorkOrders /\ cur = execs[current] /\ current \in DOMAIN execs /\ version \in Nat
         /\ cur.program # None => cur.program \in Invocations /\ cur.program.id \in Nat
                                  /\ cur.program.id <= version /\ cur.program.id <= version + 1
         /\ cur.restart => status = "blocked" /\ turns = {}
         /\ cur.judge = "none" /\ cur.phase # "exited"
         /\ cur.pred # None => /\ cur.pred \in DOMAIN execs /\ cur.pred # current
                               /\ cur.pred < current /\ execs[cur.pred].phase = "exited"
<1>1. /\ cur \in WorkOrders /\ cur = execs[current] /\ current \in DOMAIN execs /\ version \in Nat
      /\ cur.phase # "exited" /\ Entry(current) /\ Left(current) /\ DOMAIN execs = 1..Len(execs)
  BY StackFacts, LiveFacts DEF cur, StackInv, History
<1>2. cur.program # None => cur.program \in Invocations /\ cur.program.id \in Nat
  BY <1>1 DEF WorkOrders, Invocations
<1>3. /\ cur.program # None => cur.program.id <= version
      /\ cur.restart => status = "blocked" /\ turns = {}
      /\ cur.judge = "none"
  BY <1>1 DEF Left
<1>4. cur.pred # None => /\ cur.pred \in DOMAIN execs /\ cur.pred < current
                         /\ execs[cur.pred].phase = "exited"
  BY <1>1 DEF Entry
<1>5. cur.program # None => cur.program.id <= version + 1
  BY <1>1, <1>2, <1>3
<1>6. cur.pred # None => cur.pred # current
  BY <1>1, <1>4
<1> QED
  BY <1>1, <1>2, <1>3, <1>4, <1>5, <1>6

LEMMA CallsAreRecords ==
  ASSUME StackInv
  PROVE  /\ calls \subseteq CallRecords
         /\ \A op \in {"drive", "steer", "probe", "cwd", "run"} : Call(op) \in CallRecords
<1>1. version + 1 \in Nat /\ current \in Nat
  BY StackFacts
<1>2. calls \subseteq CallRecords
  BY DEF StackInv, StackTypes
<1> QED
  BY <1>1, <1>2 DEF Call, CallRecords

\* The current work order is written as it is.
LEMMA PutCurInv ==
  ASSUME StackInv, Live, NEW st \in {"running", "blocked", "terminated"}, Put(st, cur),
         calls' \subseteq CallRecords, cur.restart => st = "blocked" /\ turns' = {}
  PROVE  StackInv'
BY CurFacts, PutInv

LEMMA DrivesInv ==
  ASSUME StackInv, NEW c \in calls, DispatchesRole(c) \/ ReadiesProgram(c) \/ EntersChild(c)
  PROVE  StackInv'
<1>1. Live /\ status = "running" /\ UNCHANGED turns
  BY DEF DispatchesRole, ReadiesProgram, EntersChild, Drives, Live
<1>2. cur \in WorkOrders /\ ~cur.restart
  BY <1>1, CurFacts
<1>3. CASE DispatchesRole(c)
  <2> DEFINE e == [cur EXCEPT !.phase = "working"]
  <2>1. Put("running", e) /\ calls' \subseteq CallRecords
    BY <1>3, CallsAreRecords DEF DispatchesRole, Goes
  <2>2. /\ e \in WorkOrders /\ e.node = cur.node /\ e.input = cur.input /\ e.visit = cur.visit
        /\ e.pred = cur.pred /\ e.text = cur.text /\ e.child = cur.child /\ e.terminal = cur.terminal
        /\ e.returned = cur.returned /\ e.judge = cur.judge /\ e.phase # "exited"
        /\ e.program = cur.program /\ ~e.restart
    BY <1>2 DEF WorkOrders
  <2> HIDE DEF e
  <2> QED
    BY <1>1, <2>1, <2>2, CurFacts, PutInv
<1>4. CASE ReadiesProgram(c)
  <2>1. Put("running", cur) /\ calls' \subseteq CallRecords
    BY <1>4, CallsAreRecords DEF ReadiesProgram, GoesOn
  <2> QED
    BY <1>1, <1>2, <2>1, PutCurInv
<1>5. CASE EntersChild(c)
  <2>1. calls' \subseteq CallRecords
    BY <1>5, CallsAreRecords DEF EntersChild, GoesOn
  <2> QED
    BY <1>5, <2>1, EntersInv
<1> QED
  BY <1>3, <1>4, <1>5

LEMMA AnswersInv ==
  ASSUME StackInv, CallsInv, NEW c \in calls,
         \/ \E fails \in BOOLEAN : Steers(c, fails)
         \/ \E safe \in BOOLEAN : TransferSettles(c, safe)
         \/ ProgramStarts(c) \/ ProgramFaults(c) \/ ProgramErrs(c) \/ ResultIsStale(c)
  PROVE  StackInv'
<1>1. c \in CallRecords /\ calls \subseteq CallRecords /\ version \in Nat /\ Timely(c)
  BY CallsAreRecords, StackFacts DEF CallsInv
<1>2. ASSUME blockRow(cur), Live, calls' \subseteq CallRecords, UNCHANGED turns PROVE StackInv'
  <2>1. Put("blocked", cur)
    BY <1>2 DEF blockRow
  <2>2. cur.restart => turns' = {}
    BY <1>2, CurFacts
  <2> QED
    BY <1>2, <2>1, <2>2, PutCurInv
<1>3. ASSUME NEW fails \in BOOLEAN, Steers(c, fails) PROVE StackInv'
  <2>1. calls' \subseteq CallRecords /\ UNCHANGED turns
    BY <1>1, <1>3 DEF Steers, Goes
  <2>2. CASE fails /\ StillAt(c)
    <3>1. blockRow(cur) /\ Live
      BY <1>1, <1>3, <2>2 DEF Steers, StillAt, Timely, Live
    <3> QED
      BY <1>2, <2>1, <3>1
  <2>3. CASE ~(fails /\ StillAt(c))
    BY <1>3, <2>1, <2>3, RowKeptInv DEF Steers
  <2> QED
    BY <2>2, <2>3
<1>4. ASSUME NEW safe \in BOOLEAN, TransferSettles(c, safe) PROVE StackInv'
  <2>1. CASE version # c.at
    <3>1. calls' \subseteq CallRecords /\ turns' \subseteq turns /\ UNCHANGED rowVars
      BY <1>1, <1>4, <2>1 DEF TransferSettles, Goes
    <3> QED
      BY <3>1, RowKeptInv
  <2>2. CASE version = c.at /\ ~safe
    <3>1. calls' \subseteq CallRecords /\ UNCHANGED turns /\ blockRow(cur) /\ Live
      BY <1>1, <1>4, <2>2 DEF TransferSettles, Goes, Timely, Live
    <3> QED
      BY <1>2, <3>1
  <2>3. CASE version = c.at /\ safe
    <3> DEFINE j == c.exec
    <3>1. /\ c.op = "probe" /\ version' = version + 1 /\ UNCHANGED <<status, stack, current, turns>>
          /\ execs' = [execs EXCEPT ![j].judge = "settled"]
      BY <1>4, <2>3 DEF TransferSettles
    <3>2. calls' \subseteq CallRecords
      BY <1>4, <2>3, CallsAreRecords DEF TransferSettles, GoesOn
    <3>3. j \in DOMAIN execs /\ execs[j].judge # "none"
      BY <3>1 DEF CallsInv, Probes
    <3>4. /\ execs \in Seq(WorkOrders) /\ \A i \in DOMAIN execs : execs[i] \in WorkOrders /\ Left(i)
      BY StackFacts DEF StackInv, StackTypes, History
    <3> DEFINE e == [execs[j] EXCEPT !.judge = "settled"]
    <3>5. /\ e \in WorkOrders /\ e.node = execs[j].node /\ e.input = execs[j].input
          /\ e.visit = execs[j].visit /\ e.pred = execs[j].pred /\ e.text = execs[j].text
          /\ e.child = execs[j].child /\ e.terminal = execs[j].terminal
          /\ e.returned = execs[j].returned /\ e.phase = execs[j].phase
          /\ e.program = execs[j].program /\ e.restart = execs[j].restart
      BY <3>3, <3>4 DEF WorkOrders
    <3>6. execs' = [execs EXCEPT ![j] = e]
      BY <3>1
    <3> HIDE DEF j, e
    <3>7. execs' \in Seq(WorkOrders) /\ DOMAIN execs' = DOMAIN execs
      BY <3>3, <3>4, <3>5, <3>6, ExceptSeq
    <3>8. ASSUME NEW i \in DOMAIN execs PROVE Kept(i)
      <4>1. /\ execs[i].program # None => execs[i].program.id <= version' /\ execs[i].program.id \in Nat
            /\ execs[i].restart => i = current /\ status' = "blocked" /\ turns' = {}
        BY <1>1, <3>1, <3>4 DEF Left, WorkOrders, Invocations
      <4>2. CASE i = j
        <5>1. execs'[i] = e
          BY <3>3, <3>6, <4>2
        <5> QED
          BY <3>3, <3>5, <4>1, <4>2, <5>1 DEF Kept
      <4>3. CASE i # j
        <5>1. execs'[i] = execs[i]
          BY <3>6, <4>3
        <5> QED
          BY <4>1, <5>1 DEF Kept
      <4> QED
        BY <4>2, <4>3
    <3> QED
      BY <1>1, <3>1, <3>2, <3>7, <3>8, KeptInv DEF StackInv, StackTypes, Live
  <2> QED
    BY <2>1, <2>2, <2>3
<1>5. CASE ProgramStarts(c)
  <2>1. [c EXCEPT !.op = "run"] \in CallRecords
    BY <1>1 DEF CallRecords
  <2>2. calls' \subseteq CallRecords /\ turns' \subseteq turns /\ UNCHANGED rowVars
    BY <1>1, <1>5, <2>1 DEF ProgramStarts
  <2> QED
    BY <2>2, RowKeptInv
<1>6. CASE ProgramFaults(c)
  <2>1. calls' \subseteq CallRecords /\ UNCHANGED turns
    BY <1>1, <1>6 DEF ProgramFaults, Goes
  <2>2. CASE IsInvoked(c)
    BY <1>2, <1>6, <2>1, <2>2 DEF ProgramFaults, IsInvoked, Live
  <2>3. CASE ~IsInvoked(c)
    BY <1>6, <2>1, <2>3, RowKeptInv DEF ProgramFaults
  <2> QED
    BY <2>2, <2>3
<1>7. CASE ProgramErrs(c)
  <2> DEFINE e == [cur EXCEPT !.phase = "settling", !.program.result = "ERROR"]
  <2>1. /\ calls' \subseteq CallRecords /\ UNCHANGED turns /\ Put("blocked", e) /\ Live
        /\ cur.program # None
    BY <1>1, <1>7 DEF ProgramErrs, Goes, IsInvoked, blockRow, Live
  <2>2. cur \in WorkOrders /\ cur.program \in Invocations
    BY <2>1, CurFacts
  <2>3. /\ e \in WorkOrders /\ e.node = cur.node /\ e.input = cur.input /\ e.visit = cur.visit
        /\ e.pred = cur.pred /\ e.text = cur.text /\ e.child = cur.child /\ e.terminal = cur.terminal
        /\ e.returned = cur.returned /\ e.judge = cur.judge /\ e.phase # "exited"
        /\ e.program.id = cur.program.id /\ e.restart = cur.restart
    BY <2>2 DEF WorkOrders, Invocations
  <2> HIDE DEF e
  <2> QED
    BY <2>1, <2>3, CurFacts, PutInv
<1>8. CASE ResultIsStale(c)
  <2>1. calls' \subseteq CallRecords /\ turns' \subseteq turns /\ UNCHANGED rowVars
    BY <1>1, <1>8 DEF ResultIsStale, Goes
  <2> QED
    BY <2>1, RowKeptInv
<1> QED
  BY <1>3, <1>4, <1>5, <1>6, <1>7, <1>8

LEMMA TransferFacts ==
  ASSUME StackInv, Live, cur.pred # None, TransferJudge(cur.pred) # None
  PROVE  LET j == TransferJudge(cur.pred)
         IN  /\ j \in DOMAIN execs /\ j # current /\ execs[j].judge # "none"
             /\ execs[j].phase = "exited"
<1> DEFINE j == TransferJudge(cur.pred)
<1>1. Onward(execs) /\ cur.pred \in DOMAIN execs
  BY StackFacts, CurFacts
<1>2. j = JudgeOf(execs, cur.pred)
  BY TransferJudgeIs
<1>3. j \in DOMAIN execs /\ execs[j].judge # "none"
  BY <1>1, <1>2, JudgeOfIsAJudge
<1>4. execs[j].phase = "exited"
  BY <1>3 DEF StackInv, History, Left
<1>5. j # current
  BY <1>3, CurFacts
<1> QED
  BY <1>3, <1>4, <1>5

LEMMA CommandsInv ==
  ASSUME StackInv, RunsProgram \/ ManagerBlocks \/ Resumes \/ SetsRoleModel \/ Resets \/ Restarts
  PROVE  StackInv'
<1>1. /\ calls \subseteq CallRecords
      /\ \A op \in {"drive", "steer", "probe", "cwd", "run"} : Call(op) \in CallRecords
  BY CallsAreRecords
<1>2. CASE RunsProgram
  <2> DEFINE e == [cur EXCEPT !.phase = "working", !.restart = FALSE,
                              !.program = [id |-> version + 1, result |-> None]]
  <2>1. Put("running", e) /\ Live /\ calls' \subseteq CallRecords
    BY <1>1, <1>2 DEF RunsProgram, Invokes, Live
  <2>2. cur \in WorkOrders /\ version + 1 \in Nat
    BY <2>1, CurFacts
  <2>3. [id |-> version + 1, result |-> None] \in Invocations
    BY <2>2 DEF Invocations
  <2>4. /\ e \in WorkOrders /\ e.node = cur.node /\ e.input = cur.input /\ e.visit = cur.visit
        /\ e.pred = cur.pred /\ e.text = cur.text /\ e.child = cur.child /\ e.terminal = cur.terminal
        /\ e.returned = cur.returned /\ e.judge = cur.judge /\ e.phase # "exited"
        /\ e.program.id = version + 1 /\ e.restart = FALSE
    <3> PICK p : p = [id |-> version + 1, result |-> None]
      OBVIOUS
    <3>1. p \in Invocations /\ p.id = version + 1
      BY <2>3
    <3> PICK f : f = [cur EXCEPT !.phase = "working", !.restart = FALSE, !.program = p]
      OBVIOUS
    <3>2. /\ f \in WorkOrders /\ f.node = cur.node /\ f.input = cur.input /\ f.visit = cur.visit
          /\ f.pred = cur.pred /\ f.text = cur.text /\ f.child = cur.child /\ f.terminal = cur.terminal
          /\ f.returned = cur.returned /\ f.judge = cur.judge /\ f.phase = "working"
          /\ f.program = p /\ f.restart = FALSE
      BY <2>2, <3>1 DEF WorkOrders
    <3>3. f = e
      OBVIOUS
    <3> HIDE DEF e
    <3> QED
      BY <3>1, <3>2, <3>3
  <2> HIDE DEF e
  <2>5. e.program # None => e.program.id <= version + 1
    BY <2>2, <2>4
  <2> QED
    BY <2>1, <2>4, <2>5, PutInv
<1>3. CASE ManagerBlocks
  <2>1. Put("blocked", cur) /\ Live /\ calls' = calls /\ turns' = turns
    BY <1>3 DEF ManagerBlocks, blockRow, Live
  <2> QED
    BY <1>1, <2>1, CurFacts, PutCurInv
<1>4. CASE SetsRoleModel
  <2>1. Put(status, cur) /\ Live /\ calls' = calls /\ turns' = turns /\ status \in {"running", "blocked"}
    BY <1>4 DEF SetsRoleModel, Live
  <2> QED
    BY <1>1, <2>1, CurFacts, PutCurInv
<1>5. CASE Resets
  <2> DEFINE e == [cur EXCEPT !.restart = FALSE]
  <2>1. Put("terminated", e) /\ Live /\ calls' = calls /\ turns' = turns
    BY <1>5 DEF Resets, Live
  <2>2. cur \in WorkOrders
    BY <2>1, CurFacts
  <2>3. /\ e \in WorkOrders /\ e.node = cur.node /\ e.input = cur.input /\ e.visit = cur.visit
        /\ e.pred = cur.pred /\ e.text = cur.text /\ e.child = cur.child /\ e.terminal = cur.terminal
        /\ e.returned = cur.returned /\ e.judge = cur.judge /\ e.phase = cur.phase
        /\ e.program = cur.program /\ e.restart = FALSE
    BY <2>2 DEF WorkOrders
  <2> HIDE DEF e
  <2> QED
    BY <1>1, <2>1, <2>3, CurFacts, PutInv
<1>6. CASE Restarts
  <2>1. calls' \subseteq CallRecords /\ turns' = {}
    BY <1>6 DEF Restarts
  <2>2. CASE status \in {"running", "blocked"} /\ ~cur.restart
    <3> DEFINE e == [cur EXCEPT !.restart = TRUE]
    <3>1. Put("blocked", e) /\ Live
      BY <1>6, <2>2 DEF Restarts, Live
    <3>2. cur \in WorkOrders
      BY <3>1, CurFacts
    <3>3. /\ e \in WorkOrders /\ e.node = cur.node /\ e.input = cur.input /\ e.visit = cur.visit
          /\ e.pred = cur.pred /\ e.text = cur.text /\ e.child = cur.child
          /\ e.terminal = cur.terminal /\ e.returned = cur.returned /\ e.judge = cur.judge
          /\ e.phase = cur.phase /\ e.program = cur.program
      BY <3>2 DEF WorkOrders
    <3> HIDE DEF e
    <3> QED
      BY <2>1, <3>1, <3>3, CurFacts, PutInv
  <2>3. CASE ~(status \in {"running", "blocked"} /\ ~cur.restart)
    <3>1. UNCHANGED rowVars
      BY <1>6, <2>3 DEF Restarts
    <3> QED
      BY <2>1, <3>1, RowKeptInv
  <2> QED
    BY <2>2, <2>3
<1>7. CASE Resumes
  <2> DEFINE jtr == JudgeToRecover
             e == [cur EXCEPT !.phase = "ready", !.restart = FALSE]
  <2>1. /\ status = "blocked" /\ Live /\ status' = "running" /\ version' = version + 1
        /\ UNCHANGED <<stack, current, turns>> /\ calls' \subseteq CallRecords
    BY <1>1, <1>7 DEF Resumes, Live
  <2>2. execs' = [i \in DOMAIN execs |->
                    IF i = current THEN e
                    ELSE IF i = jtr THEN [execs[i] EXCEPT !.judge = "settled"] ELSE execs[i]]
    BY <1>7 DEF Resumes
  <2>3. jtr \in DOMAIN execs => execs[jtr].judge # "none"
    <3>1. CASE jtr = None
      <4>1. None \notin DOMAIN execs
        BY StackFacts, GraphAssumption
      <4> QED
        BY <3>1, <4>1
    <3>2. CASE jtr # None
      <4>1. cur.pred # None /\ jtr = TransferJudge(cur.pred)
        BY <3>2 DEF JudgeToRecover
      <4> QED
        BY <2>1, <3>2, <4>1, TransferFacts
    <3> QED
      BY <3>1, <3>2
  <2>4. /\ e \in WorkOrders /\ e.node = cur.node /\ e.input = cur.input /\ e.visit = cur.visit
        /\ e.pred = cur.pred /\ e.text = cur.text /\ e.child = cur.child
        /\ e.terminal = cur.terminal /\ e.returned = cur.returned /\ e.judge = cur.judge
        /\ e.phase = "ready" /\ e.program = cur.program /\ e.restart = FALSE
    <3>1. cur \in WorkOrders
      BY <2>1, CurFacts
    <3> QED
      BY <3>1 DEF WorkOrders
  <2> HIDE DEF e, jtr
  <2>5. /\ Len(execs) \in Nat /\ DOMAIN execs = 1..Len(execs) /\ version \in Nat /\ cur = execs[current]
        /\ current \in DOMAIN execs /\ cur.phase # "exited" /\ cur.child = None
        /\ \A i \in DOMAIN execs : execs[i] \in WorkOrders /\ Left(i)
    BY <2>1, StackFacts, LiveFacts, CurFacts DEF StackInv, History
  <2>6. ASSUME NEW i \in DOMAIN execs
        PROVE  execs'[i] \in WorkOrders /\ Kept(i)
    <3>1. /\ execs[i].program # None => execs[i].program.id <= version' /\ execs[i].program.id \in Nat
          /\ i # current => ~execs[i].restart
      BY <2>1, <2>5 DEF Left, WorkOrders, Invocations
    <3>2. CASE i = current
      <4>1. execs'[i] = e /\ execs[i] = cur
        BY <2>2, <2>5, <3>2
      <4> QED
        BY <2>4, <2>5, <3>1, <3>2, <4>1 DEF Kept
    <3>3. CASE i # current /\ i = jtr
      <4> DEFINE f == [execs[i] EXCEPT !.judge = "settled"]
      <4>1. execs'[i] = f
        BY <2>2, <3>3
      <4>2. execs[i] \in WorkOrders /\ execs[i].judge # "none"
        BY <2>3, <2>5, <3>3
      <4>3. /\ f \in WorkOrders /\ f.node = execs[i].node /\ f.input = execs[i].input
            /\ f.visit = execs[i].visit /\ f.pred = execs[i].pred /\ f.text = execs[i].text
            /\ f.child = execs[i].child /\ f.terminal = execs[i].terminal
            /\ f.returned = execs[i].returned /\ f.phase = execs[i].phase
            /\ f.program = execs[i].program /\ f.restart = execs[i].restart
        BY <4>2 DEF WorkOrders
      <4> HIDE DEF f
      <4> QED
        BY <3>1, <3>3, <4>1, <4>2, <4>3 DEF Kept
    <3>4. CASE i # current /\ i # jtr
      <4>1. execs'[i] = execs[i]
        BY <2>2, <3>4
      <4> QED
        BY <2>5, <3>1, <3>4, <4>1 DEF Kept
    <3> QED
      BY <3>2, <3>3, <3>4
  <2>7. DOMAIN execs' = DOMAIN execs /\ execs' = [i \in 1..Len(execs) |-> execs'[i]]
    BY <2>2, <2>5
  <2>8. execs' \in Seq(WorkOrders)
    BY <2>5, <2>6, <2>7, IsASeq
  <2>9. version' \in Nat
    BY <2>1, <2>5
  <2> QED
    BY <2>1, <2>6, <2>7, <2>8, <2>9, KeptInv
<1> QED
  BY <1>2, <1>3, <1>4, <1>5, <1>6, <1>7

LEMMA OnwardFact == StackInv => Onward(execs)
BY StackFacts

\* What the write that leaves work orders does to their Judges: a hand-over
\* from a Program has none to wait for, however many callers it leaves.
LEMMA AdvanceJudges ==
  ASSUME StackInv, Live, NEW name, NEW e, NEW text, Closes(e, text), NEW b \in 1..Len(stack),
         Advance(e, name, text, b), StackInv'
  PROVE  /\ version' = version + 1 /\ status' \in {"running", "completed"}
         /\ \A i \in DOMAIN execs : i \in DOMAIN execs'
         /\ \A i \in DOMAIN execs : i # current => execs'[i].judge = execs[i].judge
         /\ \A i \in DOMAIN execs : execs'[i].phase \in {execs[i].phase, "exited"}
         /\ execs'[current].judge = e.judge
         /\ status' = "running" => /\ cur'.phase = "ready"
                                   /\ Kind[cur.node] = "program" => Settled'
<1> DEFINE n == Len(stack)
           to == LeftWith(name)
           O(d) == stack[d].exec
           next == Len(execs) + 1
<1>1. /\ n \in Nat /\ n >= 1 /\ DOMAIN stack = 1..n /\ O(n) = current /\ stack[n].node = cur.node
      /\ Len(execs) \in Nat /\ DOMAIN execs = 1..Len(execs)
      /\ \A d \in 1..n : O(d) \in DOMAIN execs /\ stack[d].node = execs[O(d)].node
      /\ b \in 1..n
  BY StackFacts, LiveFacts DEF StackInv, Frames
<1>2. /\ version' = version + 1 /\ status' \in {"running", "completed"}
      /\ \A i \in DOMAIN execs : (\A d \in b..n : O(d) # i) => execs'[i] = execs[i]
      /\ \A i \in DOMAIN execs : i \in DOMAIN execs'
  <2>1. CASE to[b] \in Returns
    BY <2>1 DEF Advance
  <2>2. CASE to[b] \notin Returns
    <3>1. DOMAIN execs' = 1..next /\ status' = "running"
      BY <2>2 DEF Advance
    <3>2. \A i \in 1..Len(execs) : i \in 1..next
      BY <1>1
    <3> HIDE DEF next
    <3> QED
      BY <1>1, <3>1, <3>2 DEF Advance
  <2> QED
    BY <2>1, <2>2
<1>3. \A d \in b..n :
        /\ execs'[O(d)].judge = IF d = n THEN e.judge ELSE execs[O(d)].judge
        /\ execs'[O(d)].terminal = IF d = n THEN None ELSE O(d + 1)
        /\ execs'[O(d)].node = stack[d].node
        /\ execs'[O(d)].phase = "exited"
  <2>1. /\ \A d \in b..n :
             LET x == IF d = n THEN e ELSE execs[O(d)]
                 y == execs'[O(d)]
             IN  /\ y \in WorkOrders /\ y.node = x.node /\ y.input = x.input /\ y.visit = x.visit
                 /\ y.pred = x.pred /\ y.judge = x.judge /\ y.program = x.program
                 /\ y.child = x.child /\ y.restart = x.restart /\ y.phase = "exited"
                 /\ y.text = text /\ ExitOf(y) = to[d]
                 /\ y.terminal = IF d = n THEN None ELSE O(d + 1)
                 /\ y.node = stack[d].node
        /\ \A i \in DOMAIN execs :
             /\ execs'[i] \in WorkOrders
             /\ execs'[i].node = execs[i].node /\ execs'[i].input = execs[i].input
             /\ execs'[i].visit = execs[i].visit /\ execs'[i].pred = execs[i].pred
             /\ execs'[i].child = execs[i].child
             /\ execs[i].phase = "exited" => execs'[i] = execs[i]
    BY AdvanceFields
  <2> SUFFICES ASSUME NEW d \in b..n
               PROVE  /\ execs'[O(d)].judge = IF d = n THEN e.judge ELSE execs[O(d)].judge
                      /\ execs'[O(d)].terminal = IF d = n THEN None ELSE O(d + 1)
                      /\ execs'[O(d)].node = stack[d].node
                      /\ execs'[O(d)].phase = "exited"
    OBVIOUS
  <2> HIDE DEF O, n, to
  <2>2. CASE d = n
    BY <2>1, <2>2
  <2>3. CASE d # n
    BY <2>1, <2>3
  <2> QED
    BY <2>2, <2>3
<1> HIDE DEF O, n, to, next
<1>4. execs'[current].judge = e.judge
  <2>1. n \in b..n
    BY <1>1
  <2> QED
    BY <1>1, <1>3, <2>1
<1>5. ASSUME NEW i \in DOMAIN execs, i # current PROVE execs'[i].judge = execs[i].judge
  <2>1. CASE \E d \in b..n : O(d) = i
    BY <1>1, <1>3, <1>5, <2>1
  <2>2. CASE \A d \in b..n : O(d) # i
    BY <1>2, <2>2
  <2> QED
    BY <2>1, <2>2
<1>6. ASSUME status' = "running"
      PROVE  /\ cur'.phase = "ready" /\ cur'.pred = O(b)
  <2>1. to[b] \notin Returns
    BY <1>6 DEF Advance, to
  <2>2. current' = next /\ execs'[next] = newExecution(to[b], text, next, O(b))
    BY <2>1 DEF Advance, to, next, O
  <2> QED
    BY <2>2 DEF cur, newExecution
<1>7. ASSUME status' = "running", Kind[cur.node] = "program"
      PROVE  Settled'
  <2> DEFINE E == execs'
  <2>1. Onward(E)
    <3>1. (StackInv => Onward(execs))'
      BY OnwardFact, PTL
    <3> QED
      BY <3>1 DEF Onward
  <2>2. \A i \in DOMAIN E : E[i].judge # "none" => Kind[E[i].node] = "task"
    BY DEF StackInv, History, Left
  <2>3. \A d \in b..n : O(d) \in DOMAIN E /\ E[O(d)].judge = "none"
    <3> SUFFICES ASSUME NEW d \in b..n PROVE O(d) \in DOMAIN E /\ E[O(d)].judge = "none"
      OBVIOUS
    <3>1. d \in 1..n
      BY <1>1
    <3>2. Kind[stack[d].node] # "task"
      <4>1. CASE d = n
        BY <1>1, <1>7, <4>1
      <4>2. CASE d # n
        <5>1. d < n
          BY <1>1, <3>1, <4>2
        <5>2. CallerFrame(d)
          BY <1>1, <3>1, <5>1 DEF StackInv, Frames, n
        <5> QED
          BY <1>1, <3>1, <5>2 DEF CallerFrame, O
      <4> QED
        BY <4>1, <4>2
    <3> QED
      BY <1>1, <1>2, <1>3, <2>2, <3>1, <3>2
  <2> HIDE DEF E
  <2> DEFINE Bad == {d \in b..n : JudgeOf(E, O(d)) # None}
  <2>4. Bad = {}
    <3> SUFFICES ASSUME Bad # {} PROVE FALSE
      OBVIOUS
    <3>1. PICK d \in Bad : \A k \in Bad : k <= d
      <4>1. Bad \in SUBSET (1..n)
        BY <1>1
      <4> HIDE DEF Bad
      <4> QED
        BY <1>1, <4>1, LargestNumber
    <3>2. d \in b..n /\ JudgeOf(E, O(d)) = IF E[O(d)].terminal = None THEN None
                                           ELSE JudgeOf(E, E[O(d)].terminal)
      BY <2>1, <2>3, <3>1, JudgeOfUnfolds
    <3>3. CASE d = n
      BY <1>3, <3>1, <3>2, <3>3 DEF E
    <3>4. CASE d # n
      <4>1. d + 1 \in b..n /\ ~(d + 1 <= d)
        BY <1>1, <3>2, <3>4
      <4>2. E[O(d)].terminal = O(d + 1)
        BY <1>3, <3>2, <3>4 DEF E
      <4>3. JudgeOf(E, O(d + 1)) = None
        BY <3>1, <4>1
      <4> QED
        BY <3>1, <3>2, <4>2, <4>3
    <3> QED
      BY <3>3, <3>4
  <2>5. b \in b..n
    BY <1>1
  <2>6. JudgeOf(E, O(b)) = None
    BY <2>4, <2>5
  <2>7. TransferJudge(cur.pred)' = JudgeOf(E, cur'.pred)
    BY DEF TransferJudge, JudgeOf, E, cur
  <2> QED
    BY <1>6, <1>7, <2>6, <2>7 DEF Settled
<1>8. \A i \in DOMAIN execs : execs'[i].phase \in {execs[i].phase, "exited"}
  BY <1>2, <1>3
<1> QED
  BY <1>2, <1>4, <1>5, <1>6, <1>7, <1>8

\* The current work order is settled as e and left.
Ending(e, name, text) ==
  /\ name \in DOMAIN Target[cur.node] /\ advanceKnownResult(e, name, text)
  /\ Closes(e, text) /\ Live

LEMMA EndingInv ==
  ASSUME StackInv, NEW e, NEW name, NEW text, Ending(e, name, text), calls' \subseteq CallRecords
  PROVE  /\ StackInv' /\ version' = version + 1 /\ status' \in {"running", "completed"}
         /\ \A i \in DOMAIN execs : i \in DOMAIN execs' /\ execs'[i].node = execs[i].node
         /\ \A i \in DOMAIN execs : execs'[i].phase \in {execs[i].phase, "exited"}
         /\ \A i \in DOMAIN execs : i # current => execs'[i].judge = execs[i].judge
         /\ execs'[current].judge = e.judge
         /\ status' = "running" => /\ cur'.phase = "ready"
                                   /\ Kind[cur.node] = "program" => Settled'
<1>1. Live /\ Closes(e, text) /\ name \in DOMAIN Target[cur.node] /\ advanceKnownResult(e, name, text)
  BY DEF Ending
<1>2. PICK b \in 1..Len(stack) : Advance(e, name, text, b)
  BY <1>1, AdvanceKnown
<1>3. StackInv'
  BY <1>1, <1>2, AdvanceInv
<1>4. \A i \in DOMAIN execs : execs'[i].node = execs[i].node
  BY <1>1, <1>2, AdvanceFields
<1> QED
  BY <1>1, <1>2, <1>3, <1>4, AdvanceJudges

LEMMA AcceptEnds ==
  ASSUME StackInv, NEW name \in DOMAIN Target[cur.node], TaskAccepted(name)
  PROVE  \E e, text : /\ Ending(e, name, text) /\ e.judge = "open" /\ Kind[cur.node] = "task"
                      /\ status = "running" /\ cur.phase = "working" /\ calls' = calls
<1> DEFINE e == [cur EXCEPT !.judge = "open"]
           text == [by |-> current, inv |-> 0]
<1>1. /\ status = "running" /\ Live /\ Kind[cur.node] = "task" /\ cur.phase = "working"
      /\ advanceKnownResult(e, name, text) /\ calls' = calls
  BY DEF TaskAccepted, Live
<1>2. /\ cur \in WorkOrders /\ current \in Nat /\ ~cur.restart
      /\ cur.program # None => cur.program.id <= version
  BY <1>1, CurFacts, StackFacts
<1>3. /\ e \in WorkOrders /\ e.node = cur.node /\ e.input = cur.input /\ e.visit = cur.visit
      /\ e.pred = cur.pred /\ e.child = cur.child /\ e.restart = cur.restart
      /\ e.program = cur.program /\ e.judge = "open"
  BY <1>2 DEF WorkOrders
<1>4. text \in Texts /\ text.by = current
  BY <1>2 DEF Texts
<1> HIDE DEF e, text
<1>5. Closes(e, text)
  BY <1>1, <1>2, <1>3, <1>4 DEF Closes
<1> QED
  BY <1>1, <1>3, <1>5 DEF Ending

LEMMA ProgramLeaves ==
  ASSUME StackInv, Live, Kind[cur.node] = "program", cur.program # None, NEW e, NEW text,
         NEW result \in {"PASS", "FAIL"},
         \/ e = [cur EXCEPT !.program.result = result] /\ ~cur.restart
         \/ e = [cur EXCEPT !.program.result = result, !.restart = FALSE],
         text = cur.input \/ text = [by |-> current, inv |-> cur.program.id],
         advanceKnownResult(e, result, text)
  PROVE  Ending(e, result, text) /\ e.judge = "none"
<1>1. /\ cur \in WorkOrders /\ current \in Nat /\ cur.program \in Invocations /\ cur.program.id \in Nat
      /\ cur.program.id <= version /\ cur.judge = "none"
  BY CurFacts, StackFacts
<1>2. result \in DOMAIN Target[cur.node]
  <2>1. cur.node \in Nodes
    BY <1>1 DEF WorkOrders
  <2> QED
    BY <2>1, GraphAssumption
<1>3. /\ e \in WorkOrders /\ e.node = cur.node /\ e.input = cur.input /\ e.visit = cur.visit
      /\ e.pred = cur.pred /\ e.child = cur.child /\ ~e.restart /\ e.program.id = cur.program.id
      /\ e.judge = cur.judge
  <2> DEFINE p == [cur.program EXCEPT !.result = result]
  <2>1. p \in Invocations /\ p.id = cur.program.id
    BY <1>1 DEF Invocations
  <2> HIDE DEF p
  <2>2. CASE e = [cur EXCEPT !.program.result = result] /\ ~cur.restart
    <3>1. e = [cur EXCEPT !.program = p]
      BY <1>1, <2>2 DEF p, WorkOrders
    <3> QED
      BY <1>1, <2>1, <2>2, <3>1 DEF WorkOrders
  <2>3. CASE e = [cur EXCEPT !.program.result = result, !.restart = FALSE]
    <3>1. e = [cur EXCEPT !.program = p, !.restart = FALSE]
      BY <1>1, <2>3 DEF p, WorkOrders
    <3> QED
      BY <1>1, <2>1, <3>1 DEF WorkOrders
  <2> QED
    BY <2>2, <2>3
<1>4. text \in Texts /\ text \in {e.input, [by |-> current, inv |-> e.program.id]}
  <2>1. cur.input \in Texts
    BY <1>1 DEF WorkOrders
  <2>2. [by |-> current, inv |-> cur.program.id] \in Texts
    BY <1>1 DEF Texts
  <2> QED
    BY <1>3, <2>1, <2>2
<1>5. Closes(e, text)
  BY <1>1, <1>3, <1>4 DEF Closes
<1> QED
  BY <1>1, <1>2, <1>3, <1>5 DEF Ending

LEMMA ProgramEndsSo ==
  ASSUME StackInv, CallsInv, NEW c \in calls, NEW result \in {"PASS", "FAIL"}, NEW own \in BOOLEAN,
         ProgramEnds(c, result, own)
  PROVE  /\ \E e, text : Ending(e, result, text) /\ e.judge = "none"
         /\ Kind[cur.node] = "program"
<1> DEFINE text == IF own THEN [by |-> c.exec, inv |-> c.at] ELSE cur.input
<1>1. /\ status = "running" /\ Live /\ current = c.exec /\ cur.program # None
      /\ cur.program.id = c.at /\ c.op = "run"
      /\ advanceKnownResult([cur EXCEPT !.program.result = result], result, text)
  BY DEF ProgramEnds, IsInvoked, StillAt, Live
<1>2. Kind[cur.node] = "program"
  BY <1>1 DEF CallsInv, Timely, cur
<1>3. ~cur.restart
  BY <1>1, CurFacts
<1>4. text = cur.input \/ text = [by |-> current, inv |-> cur.program.id]
  BY <1>1
<1> HIDE DEF text
<1> QED
  BY <1>1, <1>2, <1>3, <1>4, ProgramLeaves

LEMMA ResolvesSo ==
  ASSUME StackInv, NEW result \in {"PASS", "FAIL"}, ResolvesProgram(result)
  PROVE  /\ \E e, text : Ending(e, result, text) /\ e.judge = "none"
         /\ Kind[cur.node] = "program"
<1>1. /\ Live /\ Kind[cur.node] = "program" /\ cur.program # None
      /\ advanceKnownResult([cur EXCEPT !.program.result = result, !.restart = FALSE], result, cur.input)
  BY DEF ResolvesProgram, Live
<1> QED
  BY <1>1, ProgramLeaves

LEMMA StackInit == Init => StackInv
<1> SUFFICES ASSUME Init PROVE StackInv
  OBVIOUS
<1> DEFINE start == StartNode[Root]
           new == newExecution(start, RootInput, 1, None)
           top == Frame(start, 1)
           first == [op |-> "drive", at |-> 1, exec |-> 1]
<1>1. /\ status = "running" /\ version = 1 /\ current = 1 /\ stack = <<top>> /\ execs = <<new>>
      /\ calls = {first} /\ turns = {}
  BY DEF Init
<1>2. start \in Nodes
  BY GraphAssumption
<1>3. top \in [node : Nodes, exec : Nat] /\ top.node = start /\ top.exec = 1
  BY <1>2 DEF Frame
<1>4. RootInput \in Texts
  BY DEF RootInput, Texts
<1>5. /\ new \in WorkOrders /\ new.node = start /\ new.visit = 1 /\ new.pred = None
      /\ new.child = None /\ new.terminal = None /\ new.judge = "none" /\ new.program = None
      /\ new.restart = FALSE /\ new.phase = "ready"
  BY <1>2, <1>4 DEF newExecution, WorkOrders
<1>6. first \in CallRecords
  BY DEF CallRecords
<1> HIDE DEF start, new, top, first
<1>7. /\ Len(stack) = 1 /\ DOMAIN stack = {1} /\ stack[1] = top
      /\ stack \in Seq([node : Nodes, exec : Nat])
      /\ Len(execs) = 1 /\ DOMAIN execs = {1} /\ execs[1] = new /\ execs \in Seq(WorkOrders)
  BY <1>1, <1>3, <1>5
<1>8. StackTypes
  BY <1>1, <1>6, <1>7 DEF StackTypes
<1>9. History
  <2>1. Entry(1) /\ Left(1)
    BY <1>1, <1>3, <1>5, <1>7 DEF Entry, Left
  <2> QED
    BY <1>7, <2>1 DEF History
<1>10. Frames
  BY <1>1, <1>3, <1>5, <1>7 DEF Frames, Top, cur
<1> QED
  BY <1>8, <1>9, <1>10 DEF StackInv

LEMMA StackStep ==
  ASSUME StackInv, CallsInv, [Next]_vars
  PROVE  StackInv'
<1>1. calls \subseteq CallRecords /\ \A op \in {"drive", "cwd"} : Call(op) \in CallRecords
  BY CallsAreRecords
<1>2. CASE \E c \in calls : FollowsAtOnce(c)
  BY <1>2, DrivesInv, AnswersInv DEF FollowsAtOnce
<1>3. ASSUME NEW c \in calls, Answered(c) PROVE StackInv'
  <2>1. ASSUME NEW result \in {"PASS", "FAIL"}, NEW own \in BOOLEAN, ProgramEnds(c, result, own)
        PROVE  StackInv'
    <3>1. calls' \subseteq CallRecords
      BY <1>1, <2>1 DEF ProgramEnds, Goes, GoesOn
    <3> QED
      BY <2>1, <3>1, ProgramEndsSo, EndingInv
  <2> QED
    BY <1>3, <2>1, AnswersInv DEF Answered
<1>4. ASSUME NEW name \in DOMAIN Target[cur.node], TaskAccepted(name) PROVE StackInv'
  <2>1. calls' \subseteq CallRecords
    BY <1>1, <1>4 DEF TaskAccepted
  <2> QED
    BY <1>4, <2>1, AcceptEnds, EndingInv
<1>5. ASSUME NEW i \in turns, JudgeTurnEnds(i) PROVE StackInv'
  <2>1. UNCHANGED rowVars /\ turns' \subseteq turns
    BY <1>5 DEF JudgeTurnEnds
  <2>2. calls' \subseteq CallRecords
    <3>1. version \in Nat
      BY StackFacts
    <3>2. i \in Nat
      BY StackFacts DEF CallsInv, TurnsAreOpen
    <3> QED
      BY <1>1, <1>5, <3>1, <3>2 DEF JudgeTurnEnds, CallRecords
  <2> QED
    BY <2>1, <2>2, RowKeptInv
<1>6. CASE Commanded
  <2>1. ASSUME NEW result \in {"PASS", "FAIL"}, ResolvesProgram(result) PROVE StackInv'
    <3>1. calls' \subseteq CallRecords
      BY <1>1, <2>1 DEF ResolvesProgram
    <3> QED
      BY <2>1, <3>1, ResolvesSo, EndingInv
  <2> QED
    BY <1>6, <2>1, CommandsInv DEF Commanded
<1>7. CASE Restarts
  BY <1>7, CommandsInv
<1>8. CASE UNCHANGED vars
  <2>1. UNCHANGED <<rowVars, calls, turns>>
    BY <1>8 DEF vars
  <2> QED
    BY <1>1, <2>1, RowKeptInv
<1> QED
  BY <1>2, <1>3, <1>4, <1>5, <1>6, <1>7, <1>8 DEF Next

-----------------------------------------------------------------------------
(* What the suspended handlers and the Judges rely on is kept as well.     *)

\* A later write does not touch which Judge a hand-over waits for.
LEMMA SettledKept ==
  ASSUME StackInv, Settled, UNCHANGED current, DOMAIN execs' = DOMAIN execs,
         execs'[current].pred = cur.pred,
         \A i \in DOMAIN execs : /\ execs'[i].terminal = execs[i].terminal
                                 /\ execs'[i].judge = "none" <=> execs[i].judge = "none"
                                 /\ execs[i].judge = "settled" => execs'[i].judge = "settled"
  PROVE  Settled'
<1>1. TransferJudge(cur.pred)' = JudgeOf(execs', cur.pred)
  BY DEF TransferJudge, JudgeOf, cur
<1>2. JudgeOf(execs', cur.pred) = JudgeOf(execs, cur.pred)
  BY JudgeOfKept
<1>3. TransferJudge(cur.pred)' = TransferJudge(cur.pred) /\ cur'.pred = cur.pred
  BY <1>1, <1>2, TransferJudgeIs DEF cur
<1>4. cur.pred # None /\ TransferJudge(cur.pred) # None => TransferJudge(cur.pred) \in DOMAIN execs
  <2>1. cur.pred # None => cur.pred \in DOMAIN execs
    BY StackFacts DEF StackInv, History, Entry, cur
  <2> QED
    BY <2>1, StackFacts, TransferJudgeIs, JudgeOfIsAJudge
<1> QED
  BY <1>3, <1>4 DEF Settled

LEMMA RowSame ==
  ASSUME UNCHANGED rowVars
  PROVE  /\ Settled' <=> Settled
         /\ TransferJudge(cur.pred)' = TransferJudge(cur.pred)
         /\ Dispatched' <=> Dispatched
<1>1. UNCHANGED <<status, version, stack, current, execs>> /\ cur' = cur
  BY DEF rowVars, cur
<1>2. TransferJudge(cur.pred)' = JudgeOf(execs, cur.pred)
  BY <1>1 DEF TransferJudge, JudgeOf
<1>3. TransferJudge(cur.pred)' = TransferJudge(cur.pred)
  BY <1>2, TransferJudgeIs
<1>4. Settled' <=> Settled
  BY <1>1, <1>3 DEF Settled
<1> QED
  BY <1>1, <1>3, <1>4 DEF Dispatched, Live

LEMMA CallsRowKept ==
  ASSUME StackInv, CallsInv, UNCHANGED rowVars, turns' \subseteq turns,
         \A c \in calls' :
           \/ c \in calls
           \/ c.op = "run" /\ Timely(c)
           \/ /\ c.op = "probe" /\ c.at = version /\ status = "running"
              /\ c.exec \in DOMAIN execs \ turns' /\ execs[c.exec].judge # "none"
              /\ cur.pred # None /\ c.exec = TransferJudge(cur.pred)
  PROVE  CallsInv'
<1>1. UNCHANGED <<status, version, stack, current, execs>> /\ cur' = cur
  BY DEF rowVars, cur
<1>2. /\ Settled' <=> Settled
      /\ TransferJudge(cur.pred)' = TransferJudge(cur.pred)
      /\ Dispatched' <=> Dispatched
  BY RowSame
<1>3. ASSUME NEW c \in calls' PROVE Timely(c)'
  <2>1. version \in Nat
    BY StackFacts
  <2>2. Timely(c) \/ (c.op = "probe" /\ c.at = version /\ status = "running")
    BY DEF CallsInv
  <2> QED
    BY <1>1, <2>1, <2>2 DEF Timely
<1>4. ASSUME NEW c \in calls', c.op = "drive" PROVE Settled'
  BY <1>2, <1>4 DEF CallsInv
<1>5. ASSUME NEW c \in calls', c.op = "probe" PROVE Probes(c)'
  <2>1. CASE c \in calls
    <3>1. Probes(c)
      BY <1>5, <2>1 DEF CallsInv
    <3> QED
      BY <1>1, <1>2, <3>1 DEF Probes
  <2>2. CASE c \notin calls
    BY <1>1, <1>2, <1>5, <2>2 DEF Probes
  <2> QED
    BY <2>1, <2>2
<1>6. TurnsAreOpen' /\ Dispatched'
  BY <1>1, <1>2 DEF TurnsAreOpen, CallsInv
<1> QED
  BY <1>3, <1>4, <1>5, <1>6 DEF CallsInv

LEMMA CallsKept ==
  ASSUME StackInv, CallsInv, version' = version + 1, cur.judge = "none",
         \A i \in DOMAIN execs : /\ i \in DOMAIN execs' /\ execs'[i].node = execs[i].node
                                 /\ execs[i].judge # "none" => execs'[i].judge # "none",
         \A i \in turns' : /\ i \in turns \cup {current}
                           /\ i \in DOMAIN execs' /\ execs'[i].judge = "open",
         \A c \in calls' :
           \/ c \in calls
           \/ c = Call("drive")
           \/ c = Call("steer") /\ status' = "running"
           \/ c = Call("cwd") /\ Kind[cur.node] = "program",
         \A c \in calls' : c.op = "drive" => Settled',
         Dispatched'
  PROVE  CallsInv'
<1>1. version \in Nat /\ current \in DOMAIN execs /\ cur = execs[current] /\ calls \subseteq CallRecords
  BY StackFacts, CallsAreRecords DEF cur
<1>2. \A op : Call(op).op = op /\ Call(op).at = version + 1 /\ Call(op).exec = current
  BY DEF Call
<1>3. ASSUME NEW c \in calls' PROVE Timely(c)'
  <2>1. CASE c \in calls
    <3>1. Timely(c) /\ c.at \in Nat
      BY <1>1, <2>1 DEF CallsInv, CallRecords
    <3>2. c.at <= version' /\ c.at # version'
      BY <1>1, <3>1 DEF Timely
    <3> QED
      BY <3>1, <3>2 DEF Timely
  <2>2. CASE c \notin calls
    <3>1. c.at = version' /\ c.at <= version' /\ c.exec = current
      BY <1>1, <1>2, <2>2
    <3>2. /\ c.op \in {"drive", "steer", "cwd"} /\ (c.op = "steer" => status' = "running")
          /\ c.op = "cwd" => Kind[cur.node] = "program"
      BY <1>2, <2>2
    <3>3. current \in DOMAIN execs' /\ execs'[current].node = cur.node
      BY <1>1
    <3> QED
      BY <3>1, <3>2, <3>3 DEF Timely
  <2> QED
    BY <2>1, <2>2
<1>4. ASSUME NEW c \in calls', c.op = "probe" PROVE Probes(c)'
  <2>1. c \in calls
    BY <1>2, <1>4
  <2>2. Probes(c) /\ Timely(c) /\ c.at \in Nat
    BY <1>1, <1>4, <2>1 DEF CallsInv, CallRecords
  <2>3. c.at # version'
    BY <1>1, <2>2 DEF Timely
  <2>4. c.exec \in DOMAIN execs' /\ execs'[c.exec].judge # "none" /\ c.exec \notin turns'
    BY <1>1, <2>2 DEF Probes
  <2> QED
    BY <2>3, <2>4 DEF Probes
<1>5. TurnsAreOpen'
  BY DEF TurnsAreOpen
<1> QED
  BY <1>3, <1>4, <1>5 DEF CallsInv

\* The same of a write of the current work order.
LEMMA CallsPut ==
  ASSUME StackInv, CallsInv, Live, NEW st, NEW e, Put(st, e), turns' \subseteq turns,
         e.node = cur.node, e.pred = cur.pred, e.terminal = cur.terminal, e.judge = cur.judge,
         \A c \in calls' :
           \/ c \in calls
           \/ c = Call("steer") /\ status' = "running"
           \/ c = Call("cwd") /\ Kind[cur.node] = "program",
         st \in {"running", "blocked"} /\ e.phase = "working" =>
           /\ Kind[cur.node] = "task" => Settled
           /\ Kind[cur.node] = "program" => e.program # None
  PROVE  CallsInv' /\ (Settled => Settled') /\ version' = version + 1 /\ cur' = e
<1>1. /\ status' = st /\ version' = version + 1 /\ execs' = [execs EXCEPT ![current] = e]
      /\ UNCHANGED <<stack, current>>
  BY DEF Put
<1>2. current \in DOMAIN execs /\ cur = execs[current] /\ cur.judge = "none"
  BY CurFacts
<1>3. DOMAIN execs' = DOMAIN execs /\ cur' = e /\ execs'[current] = e
  BY <1>1, <1>2 DEF cur
<1>4. \A i \in DOMAIN execs : /\ execs'[i].terminal = execs[i].terminal
                              /\ execs'[i].judge = execs[i].judge /\ execs'[i].node = execs[i].node
  BY <1>1, <1>2, <1>3
<1>5. Settled => Settled'
  BY <1>1, <1>3, <1>4, SettledKept
<1>6. Dispatched'
  BY <1>1, <1>3, <1>5 DEF Dispatched, Live
<1>7. \A i \in turns' : i \in turns /\ i \in DOMAIN execs' /\ execs'[i].judge = "open"
  BY <1>3, <1>4 DEF CallsInv, TurnsAreOpen
<1>8. \A c \in calls' : c.op = "drive" => Settled'
  BY <1>5 DEF CallsInv, Call
<1>9. CallsInv'
  BY <1>1, <1>2, <1>3, <1>4, <1>6, <1>7, <1>8, CallsKept
<1> QED
  BY <1>1, <1>3, <1>5, <1>9

LEMMA DrivesCalls ==
  ASSUME StackInv, CallsInv, NEW c \in calls, DispatchesRole(c) \/ ReadiesProgram(c) \/ EntersChild(c)
  PROVE  CallsInv'
<1>1. /\ Live /\ status = "running" /\ cur.phase = "ready" /\ UNCHANGED turns /\ Settled /\ cur.judge = "none"
  <2>1. Live /\ status = "running" /\ cur.phase = "ready" /\ UNCHANGED turns /\ c.op = "drive"
    BY DEF DispatchesRole, ReadiesProgram, EntersChild, Drives, Live
  <2> QED
    BY <2>1, CurFacts DEF CallsInv
<1>2. cur \in WorkOrders
  BY StackFacts
<1>3. CASE DispatchesRole(c)
  <2> DEFINE e == [cur EXCEPT !.phase = "working"]
  <2>1. Put("running", e) /\ calls' \subseteq calls /\ Kind[cur.node] = "task"
    BY <1>3 DEF DispatchesRole, Goes
  <2>2. /\ e.node = cur.node /\ e.pred = cur.pred /\ e.terminal = cur.terminal
        /\ e.judge = cur.judge
    BY <1>2 DEF WorkOrders
  <2> HIDE DEF e
  <2> QED
    BY <1>1, <2>1, <2>2, CallsPut
<1>4. CASE ReadiesProgram(c)
  <2>1. Put("running", cur) /\ calls' \subseteq calls \cup {Call("steer")} /\ status' = "running"
    BY <1>4 DEF ReadiesProgram, GoesOn, Put
  <2> QED
    BY <1>1, <2>1, CallsPut
<1>5. CASE EntersChild(c)
  <2>1. calls' \subseteq calls \cup {Call("drive")} /\ version' = version + 1
    BY <1>5 DEF EntersChild, GoesOn
  <2>2. calls' \subseteq CallRecords
    BY <2>1, CallsAreRecords
  <2>3. cur'.phase = "ready" /\ cur'.pred = None /\ EntersKeeps
    BY <1>5, <2>2, EntersInv
  <2>4. Settled' /\ Dispatched'
    BY <2>3 DEF Settled, Dispatched
  <2>5. \A i \in turns' : i \in turns /\ i \in DOMAIN execs' /\ execs'[i].judge = "open"
    BY <1>1, <2>3 DEF CallsInv, TurnsAreOpen, EntersKeeps
  <2>6. \A i \in DOMAIN execs : /\ i \in DOMAIN execs' /\ execs'[i].node = execs[i].node
                                /\ execs[i].judge # "none" => execs'[i].judge # "none"
    BY <2>3 DEF EntersKeeps
  <2> QED
    BY <1>1, <2>1, <2>4, <2>5, <2>6, CallsKept
<1> QED
  BY <1>3, <1>4, <1>5

LEMMA AnswersCalls ==
  ASSUME StackInv, CallsInv, NEW c \in calls,
         \/ \E fails \in BOOLEAN : Steers(c, fails)
         \/ \E safe \in BOOLEAN : TransferSettles(c, safe)
         \/ ProgramStarts(c) \/ ProgramFaults(c) \/ ProgramErrs(c) \/ ResultIsStale(c)
  PROVE  CallsInv'
<1>1. c \in CallRecords /\ version \in Nat /\ Timely(c) /\ Dispatched
  BY CallsAreRecords, StackFacts DEF CallsInv
<1>2. ASSUME blockRow(cur), Live, calls' \subseteq calls, UNCHANGED turns PROVE CallsInv'
  <2>1. Put("blocked", cur)
    BY <1>2 DEF blockRow
  <2> QED
    BY <1>1, <1>2, <2>1, CallsPut DEF Dispatched
<1>3. ASSUME UNCHANGED rowVars, calls' \subseteq calls, UNCHANGED turns PROVE CallsInv'
  BY <1>3, CallsRowKept
<1>4. ASSUME NEW fails \in BOOLEAN, Steers(c, fails) PROVE CallsInv'
  <2>1. calls' \subseteq calls /\ UNCHANGED turns
    BY <1>4 DEF Steers, Goes
  <2>2. CASE fails /\ StillAt(c)
    <3>1. blockRow(cur) /\ Live
      BY <1>1, <1>4, <2>2 DEF Steers, StillAt, Timely, Live
    <3> QED
      BY <1>2, <2>1, <3>1
  <2>3. CASE ~(fails /\ StillAt(c))
    BY <1>3, <1>4, <2>1, <2>3 DEF Steers
  <2> QED
    BY <2>2, <2>3
<1>5. ASSUME NEW safe \in BOOLEAN, TransferSettles(c, safe) PROVE CallsInv'
  <2>1. CASE version # c.at
    BY <1>3, <1>5, <2>1 DEF TransferSettles, Goes
  <2>2. CASE version = c.at /\ ~safe
    <3>1. calls' \subseteq calls /\ UNCHANGED turns /\ blockRow(cur) /\ Live
      BY <1>1, <1>5, <2>2 DEF TransferSettles, Goes, Timely, Live
    <3> QED
      BY <1>2, <3>1
  <2>3. CASE version = c.at /\ safe
    <3> DEFINE j == c.exec
    <3>1. /\ c.op = "probe" /\ version' = version + 1 /\ UNCHANGED <<status, stack, current, turns>>
          /\ execs' = [execs EXCEPT ![j].judge = "settled"]
          /\ calls' \subseteq calls \cup {Call("drive")}
      BY <1>5, <2>3 DEF TransferSettles, GoesOn
    <3>2. /\ j \in DOMAIN execs /\ execs[j].judge # "none" /\ j \notin turns
          /\ cur.pred # None /\ j = TransferJudge(cur.pred) /\ status = "running"
      BY <1>1, <2>3, <3>1 DEF CallsInv, Probes, Timely
    <3>3. /\ \A i \in DOMAIN execs : execs[i] \in WorkOrders
          /\ Live /\ cur.judge = "none" /\ cur = execs[current] /\ current \in DOMAIN execs
      BY <3>2, StackFacts, CurFacts DEF Live
    <3> HIDE DEF j
    <3>4. /\ DOMAIN execs' = DOMAIN execs /\ execs'[j].judge = "settled"
          /\ \A i \in DOMAIN execs : i # j => execs'[i] = execs[i]
          /\ execs'[j].node = execs[j].node /\ execs'[j].terminal = execs[j].terminal
      BY <3>1, <3>2, <3>3 DEF WorkOrders
    <3>5. cur' = cur
      BY <3>1, <3>2, <3>3, <3>4 DEF cur
    <3>6. Settled'
      <4>1. TransferJudge(cur.pred)' = JudgeOf(execs', cur.pred)
        BY <3>5 DEF TransferJudge, JudgeOf
      <4>2. JudgeOf(execs', cur.pred) = JudgeOf(execs, cur.pred)
        <5>1. \A i \in DOMAIN execs : /\ execs'[i].terminal = execs[i].terminal
                                      /\ execs'[i].judge = "none" <=> execs[i].judge = "none"
          BY <3>2, <3>4
        <5> QED
          BY <3>4, <5>1, JudgeOfKept
      <4>3. TransferJudge(cur.pred)' = j
        BY <3>2, <4>1, <4>2, TransferJudgeIs
      <4> QED
        BY <3>4, <4>3 DEF Settled
    <3>7. Dispatched'
      BY <1>1, <3>1, <3>3, <3>5, <3>6 DEF Dispatched, Live
    <3>8. /\ \A i \in DOMAIN execs : /\ i \in DOMAIN execs' /\ execs'[i].node = execs[i].node
                                     /\ execs[i].judge # "none" => execs'[i].judge # "none"
          /\ \A i \in turns' : i \in turns /\ i \in DOMAIN execs' /\ execs'[i].judge = "open"
      BY <3>1, <3>2, <3>4 DEF CallsInv, TurnsAreOpen
    <3> QED
      BY <3>1, <3>3, <3>6, <3>7, <3>8, CallsKept
  <2> QED
    BY <2>1, <2>2, <2>3
<1>6. CASE ProgramStarts(c)
  <2> DEFINE r == [c EXCEPT !.op = "run"]
  <2>1. UNCHANGED <<rowVars, turns>> /\ calls' \subseteq calls \cup {r} /\ c.op = "cwd"
    BY <1>6 DEF ProgramStarts
  <2>2. r.op = "run" /\ r.at = c.at /\ r.exec = c.exec
    BY <1>1 DEF CallRecords
  <2> HIDE DEF r
  <2>3. Timely(r)
    BY <1>1, <2>1, <2>2 DEF Timely
  <2> QED
    BY <2>1, <2>2, <2>3, CallsRowKept
<1>7. CASE ProgramFaults(c)
  <2>1. calls' \subseteq calls /\ UNCHANGED turns
    BY <1>7 DEF ProgramFaults, Goes
  <2>2. CASE IsInvoked(c)
    BY <1>2, <1>7, <2>1, <2>2 DEF ProgramFaults, IsInvoked, Live
  <2>3. CASE ~IsInvoked(c)
    BY <1>3, <1>7, <2>1, <2>3 DEF ProgramFaults
  <2> QED
    BY <2>2, <2>3
<1>8. CASE ProgramErrs(c)
  <2> DEFINE e == [cur EXCEPT !.phase = "settling", !.program.result = "ERROR"]
  <2>1. calls' \subseteq calls /\ UNCHANGED turns /\ Put("blocked", e) /\ Live
    BY <1>8 DEF ProgramErrs, Goes, IsInvoked, blockRow, Live
  <2>2. cur \in WorkOrders
    BY StackFacts
  <2>3. /\ e.node = cur.node /\ e.pred = cur.pred /\ e.terminal = cur.terminal
        /\ e.judge = cur.judge /\ e.phase = "settling"
    BY <2>2 DEF WorkOrders
  <2> HIDE DEF e
  <2> QED
    BY <2>1, <2>3, CallsPut
<1>9. CASE ResultIsStale(c)
  BY <1>3, <1>9 DEF ResultIsStale, Goes
<1> QED
  BY <1>4, <1>5, <1>6, <1>7, <1>8, <1>9

\* Nothing is driven when a work order is left: what is driven then is new.
LEMMA EndingCalls ==
  ASSUME StackInv, CallsInv, NothingToFollow, NEW e, NEW name, NEW text, Ending(e, name, text),
         calls' \subseteq CallRecords,
         \/ e.judge = "open" /\ turns' = turns \cup {current} /\ calls' = calls
         \/ /\ Kind[cur.node] = "program" /\ turns' = turns
            /\ calls' \subseteq calls \cup (IF status' = "running" THEN {Call("drive")} ELSE {})
  PROVE  CallsInv' /\ version' = version + 1 /\ (status' = "running" => cur'.phase = "ready")
<1>1. /\ version' = version + 1 /\ status' \in {"running", "completed"}
      /\ \A i \in DOMAIN execs : i \in DOMAIN execs' /\ execs'[i].node = execs[i].node
      /\ \A i \in DOMAIN execs : i # current => execs'[i].judge = execs[i].judge
      /\ execs'[current].judge = e.judge
      /\ status' = "running" => /\ cur'.phase = "ready"
                                /\ Kind[cur.node] = "program" => Settled'
  BY EndingInv
<1>2. cur.judge = "none" /\ cur = execs[current] /\ current \in DOMAIN execs
  BY CurFacts DEF Ending
<1>3. \A c \in calls : c.op # "drive"
  BY DEF NothingToFollow
<1>4. \A i \in turns : i \in DOMAIN execs /\ execs[i].judge = "open" /\ i # current
  BY <1>2 DEF CallsInv, TurnsAreOpen
<1>5. \A i \in turns' : i \in turns \cup {current} /\ i \in DOMAIN execs' /\ execs'[i].judge = "open"
  BY <1>1, <1>2, <1>4
<1>6. \A c \in calls' : c.op = "drive" => Settled'
  BY <1>1, <1>3
<1>7. Dispatched'
  BY <1>1 DEF Dispatched, Live
<1>8. \A i \in DOMAIN execs : execs[i].judge # "none" => execs'[i].judge # "none"
  BY <1>1, <1>2
<1>9. \A c \in calls' : c \in calls \/ c = Call("drive")
  OBVIOUS
<1>10. CallsInv'
  BY <1>1, <1>2, <1>5, <1>6, <1>7, <1>8, <1>9, CallsKept
<1> QED
  BY <1>1, <1>10

LEMMA CommandsCalls ==
  ASSUME StackInv, CallsInv, RunsProgram \/ ManagerBlocks \/ SetsRoleModel \/ Resets \/ Restarts
  PROVE  CallsInv'
<1>1. cur \in WorkOrders /\ Dispatched
  BY StackFacts DEF CallsInv
<1>2. CASE RunsProgram
  <2> DEFINE e == [cur EXCEPT !.phase = "working", !.restart = FALSE,
                              !.program = [id |-> version + 1, result |-> None]]
  <2>1. /\ Put("running", e) /\ Live /\ calls' \subseteq calls \cup {Call("cwd")}
        /\ UNCHANGED turns /\ Kind[cur.node] = "program"
    BY <1>2 DEF RunsProgram, Invokes, Live
  <2>2. [id |-> version + 1, result |-> None] # None
    <3>1. [id |-> version + 1, result |-> None] \in Invocations
      BY StackFacts DEF Invocations
    <3> QED
      BY <3>1, GraphAssumption
  <2>3. /\ e.node = cur.node /\ e.pred = cur.pred /\ e.terminal = cur.terminal
        /\ e.judge = cur.judge /\ e.program # None
    BY <1>1, <2>2 DEF WorkOrders
  <2>4. Kind[cur.node] # "task"
    BY <2>1
  <2> HIDE DEF e
  <2> QED
    BY <2>1, <2>3, <2>4, CallsPut
<1>3. CASE ManagerBlocks
  <2>1. Put("blocked", cur) /\ Live /\ UNCHANGED <<calls, turns>>
    BY <1>3 DEF ManagerBlocks, blockRow, Live
  <2> QED
    BY <1>1, <2>1, CallsPut DEF Dispatched
<1>4. CASE SetsRoleModel
  <2>1. Put(status, cur) /\ Live /\ UNCHANGED <<calls, turns>>
    BY <1>4 DEF SetsRoleModel, Live
  <2> QED
    BY <1>1, <2>1, CallsPut DEF Dispatched
<1>5. CASE Resets
  <2> DEFINE e == [cur EXCEPT !.restart = FALSE]
  <2>1. Put("terminated", e) /\ Live /\ UNCHANGED <<calls, turns>>
    BY <1>5 DEF Resets, Live
  <2>2. /\ e.node = cur.node /\ e.pred = cur.pred /\ e.terminal = cur.terminal
        /\ e.judge = cur.judge
    BY <1>1 DEF WorkOrders
  <2> HIDE DEF e
  <2> QED
    BY <2>1, <2>2, CallsPut
<1>6. CASE Restarts
  <2>1. calls' = {} /\ turns' = {}
    BY <1>6 DEF Restarts
  <2>2. CASE status \in {"running", "blocked"} /\ ~cur.restart
    <3> DEFINE e == [cur EXCEPT !.restart = TRUE]
    <3>1. Put("blocked", e) /\ Live
      BY <1>6, <2>2 DEF Restarts, Live
    <3>2. /\ e.node = cur.node /\ e.pred = cur.pred /\ e.terminal = cur.terminal
          /\ e.judge = cur.judge /\ e.phase = cur.phase /\ e.program = cur.program
      BY <1>1 DEF WorkOrders
    <3> HIDE DEF e
    <3> QED
      BY <1>1, <2>1, <3>1, <3>2, CallsPut DEF Dispatched
  <2>3. CASE ~(status \in {"running", "blocked"} /\ ~cur.restart)
    BY <1>6, <2>1, <2>3, CallsRowKept DEF Restarts
  <2> QED
    BY <2>2, <2>3
<1> QED
  BY <1>2, <1>3, <1>4, <1>5, <1>6

\* Resuming takes the Judge for settled, of a Role at work it was already.
LEMMA ResumesCalls ==
  ASSUME StackInv, CallsInv, Resumes
  PROVE  CallsInv'
<1> DEFINE j == JudgeToRecover
<1>1. /\ Live /\ version' = version + 1 /\ UNCHANGED <<stack, current, turns>> /\ MayResume
      /\ calls' = calls \cup {Call("drive")}
      /\ Kind[cur.node] = "task" \/ cur.phase = "ready"
      /\ cur.phase \in {"ready", "working"}
      /\ execs' = [i \in DOMAIN execs |->
                    IF i = current THEN [cur EXCEPT !.phase = "ready", !.restart = FALSE]
                    ELSE IF i = j THEN [execs[i] EXCEPT !.judge = "settled"] ELSE execs[i]]
  BY DEF Resumes, Live
<1>2. /\ \A i \in DOMAIN execs : execs[i] \in WorkOrders
      /\ cur \in WorkOrders /\ cur = execs[current] /\ current \in DOMAIN execs /\ cur.judge = "none"
      /\ cur.restart => turns = {}
  BY <1>1, StackFacts, CurFacts
<1>3. j # None => /\ cur.pred # None /\ j = TransferJudge(cur.pred) /\ cur.phase = "ready"
                  /\ j \in DOMAIN execs /\ j # current /\ execs[j].judge # "none"
  <2> SUFFICES ASSUME j # None
               PROVE  /\ cur.pred # None /\ j = TransferJudge(cur.pred) /\ cur.phase = "ready"
                      /\ j \in DOMAIN execs /\ j # current /\ execs[j].judge # "none"
    OBVIOUS
  <2>1. cur.pred # None /\ j = TransferJudge(cur.pred) /\ cur.phase = "ready"
    BY DEF JudgeToRecover
  <2> HIDE DEF j
  <2> QED
    BY <1>1, <2>1, TransferFacts
<1>4. j # None /\ execs[j].judge # "settled" => turns = {}
  BY <1>1, <1>2 DEF MayResume
<1>5. j = None => j \notin DOMAIN execs
  <2>1. None \notin DOMAIN execs
    BY StackFacts, GraphAssumption
  <2> HIDE DEF j
  <2> QED
    BY <2>1
<1>6. cur.phase = "ready" /\ cur.pred # None => j = TransferJudge(cur.pred)
  BY DEF JudgeToRecover
<1> HIDE DEF j
<1>7. /\ DOMAIN execs' = DOMAIN execs
      /\ \A i \in DOMAIN execs : i # current /\ i # j => execs'[i] = execs[i]
      /\ j \in DOMAIN execs => /\ execs'[j].judge = "settled" /\ execs'[j].node = execs[j].node
                               /\ execs'[j].terminal = execs[j].terminal
      /\ execs'[current].judge = "none" /\ execs'[current].node = cur.node
      /\ execs'[current].terminal = cur.terminal /\ execs'[current].pred = cur.pred
      /\ execs'[current].phase = "ready"
  <2>1. DOMAIN execs' = DOMAIN execs
    BY <1>1
  <2>2. \A i \in DOMAIN execs : i # current /\ i # j => execs'[i] = execs[i]
    BY <1>1
  <2>3. execs'[current] = [cur EXCEPT !.phase = "ready", !.restart = FALSE]
    BY <1>1, <1>2
  <2>4. j \in DOMAIN execs => execs'[j] = [execs[j] EXCEPT !.judge = "settled"] /\ execs[j] \in WorkOrders
    BY <1>1, <1>2, <1>3, <1>5
  <2> QED
    BY <1>2, <2>1, <2>2, <2>3, <2>4 DEF WorkOrders
<1>8. \A i \in DOMAIN execs : /\ execs'[i].terminal = execs[i].terminal
                              /\ execs'[i].judge = "none" <=> execs[i].judge = "none"
                              /\ execs[i].judge = "settled" => execs'[i].judge = "settled"
                              /\ execs'[i].node = execs[i].node
  <2> SUFFICES ASSUME NEW i \in DOMAIN execs
               PROVE  /\ execs'[i].terminal = execs[i].terminal
                      /\ execs'[i].judge = "none" <=> execs[i].judge = "none"
                      /\ execs[i].judge = "settled" => execs'[i].judge = "settled"
                      /\ execs'[i].node = execs[i].node
    OBVIOUS
  <2>1. CASE i = current
    BY <1>2, <1>7, <2>1
  <2>2. CASE i # current /\ i = j
    BY <1>3, <1>5, <1>7, <2>2
  <2>3. CASE i # current /\ i # j
    BY <1>7, <2>3
  <2> QED
    BY <2>1, <2>2, <2>3
<1>9. Settled'
  <2>1. CASE cur.phase = "ready"
    <3>1. TransferJudge(cur.pred)' = JudgeOf(execs', cur.pred) /\ cur'.pred = cur.pred
      BY <1>1, <1>7 DEF TransferJudge, JudgeOf, cur
    <3>2. JudgeOf(execs', cur.pred) = JudgeOf(execs, cur.pred)
      BY <1>7, <1>8, JudgeOfKept
    <3>3. TransferJudge(cur.pred)' = TransferJudge(cur.pred)
      BY <3>1, <3>2, TransferJudgeIs
    <3> QED
      BY <1>3, <1>6, <1>7, <2>1, <3>1, <3>3 DEF Settled
  <2>2. CASE cur.phase # "ready"
    <3>1. Settled
      BY <1>1, <2>2 DEF CallsInv, Dispatched
    <3> QED
      BY <1>1, <1>7, <1>8, <3>1, SettledKept
  <2> QED
    BY <2>1, <2>2
<1>10. Dispatched'
  BY <1>1, <1>7 DEF Dispatched, cur
<1>11. \A i \in turns' : i \in turns /\ i \in DOMAIN execs' /\ execs'[i].judge = "open"
  <2> SUFFICES ASSUME NEW i \in turns PROVE i \in DOMAIN execs /\ execs'[i].judge = "open"
    BY <1>1, <1>7
  <2>1. i \in DOMAIN execs /\ execs[i].judge = "open" /\ i # current
    BY <1>2 DEF CallsInv, TurnsAreOpen
  <2>2. i # j
    BY <1>4, <1>5, <2>1
  <2> QED
    BY <1>7, <2>1, <2>2
<1>12. \A i \in DOMAIN execs : /\ i \in DOMAIN execs' /\ execs'[i].node = execs[i].node
                               /\ execs[i].judge # "none" => execs'[i].judge # "none"
  BY <1>7, <1>8
<1> QED
  BY <1>1, <1>2, <1>9, <1>10, <1>11, <1>12, CallsKept

LEMMA CallsStep ==
  ASSUME StackInv, CallsInv, [Next]_vars
  PROVE  CallsInv'
<1>1. calls \subseteq CallRecords /\ \A op \in {"drive", "cwd"} : Call(op) \in CallRecords
  BY CallsAreRecords
<1>2. CASE \E c \in calls : FollowsAtOnce(c)
  BY <1>2, DrivesCalls, AnswersCalls DEF FollowsAtOnce
<1>3. ASSUME NothingToFollow, NEW c \in calls, Answered(c) PROVE CallsInv'
  <2>1. ASSUME NEW result \in {"PASS", "FAIL"}, NEW own \in BOOLEAN, ProgramEnds(c, result, own)
        PROVE  CallsInv'
    <3>1. /\ calls' \subseteq CallRecords /\ turns' = turns
          /\ calls' \subseteq calls \cup (IF status' = "running" THEN {Call("drive")} ELSE {})
      BY <1>1, <2>1 DEF ProgramEnds, Goes, GoesOn
    <3>2. PICK e, text : Ending(e, result, text) /\ e.judge = "none" /\ Kind[cur.node] = "program"
      BY <2>1, ProgramEndsSo
    <3> QED
      BY <1>3, <3>1, <3>2, EndingCalls
  <2> QED
    BY <1>3, <2>1, AnswersCalls DEF Answered
<1>4. ASSUME NothingToFollow, NEW name \in DOMAIN Target[cur.node], TaskAccepted(name) PROVE CallsInv'
  <2>1. turns' = turns \cup {current}
    BY <1>4 DEF TaskAccepted
  <2>2. PICK e, text : Ending(e, name, text) /\ e.judge = "open" /\ calls' = calls
    BY <1>4, AcceptEnds
  <2> QED
    BY <1>1, <1>4, <2>1, <2>2, EndingCalls
<1>5. ASSUME NEW i \in turns, JudgeTurnEnds(i) PROVE CallsInv'
  <2>1. UNCHANGED rowVars /\ turns' = turns \ {i} /\ i \in DOMAIN execs /\ execs[i].judge = "open"
    BY <1>5 DEF JudgeTurnEnds, CallsInv, TurnsAreOpen
  <2>2. \A c \in calls' :
           \/ c \in calls
           \/ /\ c.op = "probe" /\ c.at = version /\ status = "running" /\ c.exec = i
              /\ cur.pred # None /\ TransferJudge(cur.pred) = i
    BY <1>5 DEF JudgeTurnEnds
  <2> QED
    BY <2>1, <2>2, CallsRowKept
<1>6. ASSUME NothingToFollow, Commanded PROVE CallsInv'
  <2>1. ASSUME NEW result \in {"PASS", "FAIL"}, ResolvesProgram(result) PROVE CallsInv'
    <3>1. /\ calls' \subseteq CallRecords /\ turns' = turns
          /\ calls' \subseteq calls \cup (IF status' = "running" THEN {Call("drive")} ELSE {})
      BY <1>1, <2>1 DEF ResolvesProgram
    <3>2. PICK e, text : Ending(e, result, text) /\ e.judge = "none" /\ Kind[cur.node] = "program"
      BY <2>1, ResolvesSo
    <3> QED
      BY <1>6, <3>1, <3>2, EndingCalls
  <2> QED
    BY <1>6, <2>1, CommandsCalls, ResumesCalls DEF Commanded
<1>7. CASE Restarts
  BY <1>7, CommandsCalls
<1>8. CASE UNCHANGED vars
  <2>1. UNCHANGED <<rowVars, calls, turns>>
    BY <1>8 DEF vars
  <2> QED
    BY <2>1, CallsRowKept
<1> QED
  BY <1>2, <1>3, <1>4, <1>5, <1>6, <1>7, <1>8 DEF Next

-----------------------------------------------------------------------------
(* The Program that the row says is running.                               *)

\* A later write makes the invocation stale, unless it is another invocation.
LEMMA AwaitedLater ==
  ASSUME StackInv, version' = version + 1,
         \/ status' # "running"
         \/ cur'.phase # "working"
         \/ Kind[cur'.node] # "program"
         \/ Live /\ cur.program # None /\ cur'.program.id = cur.program.id
  PROVE  ProgramIsAwaited'
<1>1. version \in Nat
  BY StackFacts
<1>2. ASSUME Live, cur.program # None, cur'.program.id = cur.program.id
      PROVE  cur'.program.id # version'
  BY <1>1, <1>2, CurFacts
<1> QED
  BY <1>2 DEF ProgramIsAwaited

LEMMA AwaitedPut ==
  ASSUME StackInv, CallsInv, Live, NEW st, Put(st, cur)
  PROVE  ProgramIsAwaited'
<1>1. current \in DOMAIN execs /\ cur = execs[current] /\ execs' = [execs EXCEPT ![current] = cur]
      /\ current' = current /\ version' = version + 1
  BY CurFacts DEF Put
<1>2. cur' = cur
  BY <1>1 DEF cur
<1> QED
  BY <1>1, <1>2, AwaitedLater DEF CallsInv, Dispatched

\* The row is as it was, and so is the handler that awaits the Program.
LEMMA AwaitedStill ==
  ASSUME ProgramIsAwaited, UNCHANGED rowVars,
         \A c \in calls : c.op \in {"cwd", "run"} /\ status = "running" /\ cur.phase = "working"
                          /\ cur.program.id = version /\ c.at = version /\ c.exec = current
           => \E d \in calls' : d.op \in {"cwd", "run"} /\ d.at = version /\ d.exec = current
  PROVE  ProgramIsAwaited'
BY DEF ProgramIsAwaited, rowVars, cur

LEMMA AwaitedStep ==
  ASSUME StackInv, CallsInv, ProgramIsAwaited, [Next]_vars
  PROVE  ProgramIsAwaited'
<1>1. calls \subseteq CallRecords /\ \A op \in {"drive", "cwd"} : Call(op) \in CallRecords
  BY CallsAreRecords
<1>2. /\ version \in Nat /\ cur \in WorkOrders /\ current \in DOMAIN execs /\ cur = execs[current]
  BY StackFacts DEF cur
<1>3. ASSUME NEW c \in calls, c.op \notin {"cwd", "run"}, UNCHANGED rowVars, Goes(c)
      PROVE  ProgramIsAwaited'
  BY <1>3, AwaitedStill DEF Goes
<1>4. ASSUME NEW c \in calls, FollowsAtOnce(c) PROVE ProgramIsAwaited'
  <2>1. CASE DispatchesRole(c)
    <3>1. /\ version' = version + 1 /\ execs' = [execs EXCEPT ![current] = [cur EXCEPT !.phase = "working"]]
          /\ current' = current /\ Kind[cur.node] = "task"
      BY <2>1 DEF DispatchesRole, Put
    <3>2. cur'.node = cur.node
      BY <1>2, <3>1 DEF cur, WorkOrders
    <3> QED
      BY <3>1, <3>2, AwaitedLater
  <2>2. CASE ReadiesProgram(c)
    BY <2>2, AwaitedPut DEF ReadiesProgram, Drives, Live
  <2>3. CASE EntersChild(c)
    <3>1. calls' \subseteq calls \cup {Call("drive")} /\ version' = version + 1
      BY <2>3 DEF EntersChild, GoesOn
    <3>2. cur'.phase = "ready"
      BY <1>1, <2>3, <3>1, EntersInv
    <3> QED
      BY <3>1, <3>2, AwaitedLater
  <2>4. ASSUME NEW fails \in BOOLEAN, Steers(c, fails) PROVE ProgramIsAwaited'
    <3>1. CASE fails /\ StillAt(c)
      <4>1. Put("blocked", cur) /\ Live
        BY <2>4, <3>1 DEF Steers, StillAt, CallsInv, Timely, Live, blockRow
      <4> QED
        BY <4>1, AwaitedPut
    <3>2. CASE ~(fails /\ StillAt(c))
      BY <1>3, <2>4, <3>2 DEF Steers
    <3> QED
      BY <3>1, <3>2
  <2> QED
    BY <1>4, <2>1, <2>2, <2>3, <2>4 DEF FollowsAtOnce
<1>5. ASSUME NothingToFollow, NEW c \in calls, Answered(c) PROVE ProgramIsAwaited'
  <2>1. ASSUME NEW safe \in BOOLEAN, TransferSettles(c, safe) PROVE ProgramIsAwaited'
    <3>1. CASE version # c.at
      BY <1>3, <2>1, <3>1 DEF TransferSettles
    <3>2. CASE version = c.at /\ ~safe
      <4>1. Put("blocked", cur) /\ Live
        BY <2>1, <3>2 DEF TransferSettles, CallsInv, Timely, Live, blockRow
      <4> QED
        BY <4>1, AwaitedPut
    <3>3. CASE version = c.at /\ safe
      <4>1. /\ c.op = "probe" /\ version' = version + 1 /\ UNCHANGED <<status, current>>
            /\ execs' = [execs EXCEPT ![c.exec].judge = "settled"]
        BY <2>1, <3>3 DEF TransferSettles
      <4>2. c.exec \in DOMAIN execs /\ execs[c.exec].judge # "none" /\ status = "running"
        BY <3>3, <4>1 DEF CallsInv, Probes, Timely
      <4>3. c.exec # current /\ Live
        BY <4>2, CurFacts DEF Live
      <4>4. cur' = cur
        BY <1>2, <4>1, <4>3 DEF cur
      <4> QED
        BY <4>1, <4>3, <4>4, AwaitedLater DEF CallsInv, Dispatched
    <3> QED
      BY <3>1, <3>2, <3>3
  <2>2. CASE ProgramStarts(c)
    <3> DEFINE r == [c EXCEPT !.op = "run"]
    <3>1. /\ c.op = "cwd" /\ UNCHANGED rowVars
          /\ calls' = (calls \ {c}) \cup (IF IsInvoked(c) THEN {r} ELSE {})
      BY <2>2 DEF ProgramStarts
    <3>2. r.op = "run" /\ r.at = c.at /\ r.exec = c.exec
      BY <1>1 DEF CallRecords
    <3> HIDE DEF r
    <3>3. ASSUME NEW d \in calls, status = "running", cur.phase = "working", d.op \in {"cwd", "run"},
                 cur.program.id = version, d.at = version, d.exec = current
          PROVE  \E k \in calls' : k.op \in {"cwd", "run"} /\ k.at = version /\ k.exec = current
      <4>1. CASE d = c
        <5>1. Kind[cur.node] = "program" /\ cur.program # None
          BY <1>2, <3>3 DEF CallsInv, Timely, Dispatched, Live
        <5>2. IsInvoked(c)
          BY <3>3, <4>1, <5>1 DEF IsInvoked, StillAt
        <5> QED
          BY <3>1, <3>2, <3>3, <4>1, <5>2
      <4>2. CASE d # c
        BY <3>1, <3>3, <4>2
      <4> QED
        BY <4>1, <4>2
    <3> QED
      BY <3>1, <3>3, AwaitedStill
  <2>3. ASSUME ~IsInvoked(c), UNCHANGED rowVars, Goes(c) PROVE ProgramIsAwaited'
    <3>1. ASSUME NEW d \in calls, status = "running", cur.phase = "working", d.op \in {"cwd", "run"},
                 cur.program.id = version, d.at = version, d.exec = current
          PROVE  \E k \in calls' : k.op \in {"cwd", "run"} /\ k.at = version /\ k.exec = current
      <4>1. Kind[cur.node] = "program" /\ cur.program # None
        BY <1>2, <3>1 DEF CallsInv, Timely, Dispatched, Live
      <4>2. d # c
        BY <2>3, <3>1, <4>1 DEF IsInvoked, StillAt
      <4> QED
        BY <2>3, <3>1, <4>2 DEF Goes
    <3> QED
      BY <2>3, <3>1, AwaitedStill
  <2>4. CASE ProgramFaults(c)
    <3>1. CASE IsInvoked(c)
      BY <2>4, <3>1, AwaitedPut DEF ProgramFaults, blockRow, IsInvoked, Live
    <3>2. CASE ~IsInvoked(c)
      BY <2>3, <2>4, <3>2 DEF ProgramFaults
    <3> QED
      BY <3>1, <3>2
  <2>5. CASE ProgramErrs(c)
    <3>1. version' = version + 1 /\ status' = "blocked"
      BY <2>5 DEF ProgramErrs, blockRow, Put
    <3> QED
      BY <3>1, AwaitedLater
  <2>6. CASE ResultIsStale(c)
    BY <2>3, <2>6 DEF ResultIsStale
  <2>7. ASSUME NEW result \in {"PASS", "FAIL"}, NEW own \in BOOLEAN, ProgramEnds(c, result, own)
        PROVE  ProgramIsAwaited'
    <3>1. calls' \subseteq CallRecords
      BY <1>1, <2>7 DEF ProgramEnds, Goes, GoesOn
    <3>2. version' = version + 1 /\ (status' = "running" => cur'.phase = "ready")
      BY <2>7, <3>1, ProgramEndsSo, EndingInv
    <3> QED
      BY <3>2, AwaitedLater
  <2> QED
    BY <1>5, <2>1, <2>2, <2>4, <2>5, <2>6, <2>7 DEF Answered
<1>6. ASSUME NEW name \in DOMAIN Target[cur.node], TaskAccepted(name) PROVE ProgramIsAwaited'
  <2>1. calls' \subseteq CallRecords
    BY <1>1, <1>6 DEF TaskAccepted
  <2>2. version' = version + 1 /\ (status' = "running" => cur'.phase = "ready")
    BY <1>6, <2>1, AcceptEnds, EndingInv
  <2> QED
    BY <2>2, AwaitedLater
<1>7. ASSUME NEW i \in turns, JudgeTurnEnds(i) PROVE ProgramIsAwaited'
  <2>1. UNCHANGED rowVars /\ calls \subseteq calls'
    BY <1>7 DEF JudgeTurnEnds
  <2> QED
    BY <2>1, AwaitedStill
<1>8. ASSUME Commanded PROVE ProgramIsAwaited'
  <2>1. ASSUME NEW result \in {"PASS", "FAIL"}, ResolvesProgram(result) PROVE ProgramIsAwaited'
    <3>1. calls' \subseteq CallRecords
      BY <1>1, <2>1 DEF ResolvesProgram
    <3>2. version' = version + 1 /\ (status' = "running" => cur'.phase = "ready")
      BY <2>1, <3>1, ResolvesSo, EndingInv
    <3> QED
      BY <3>2, AwaitedLater
  <2>2. CASE RunsProgram
    <3>1. /\ version' = version + 1 /\ current' = current /\ Call("cwd") \in calls'
      BY <2>2 DEF RunsProgram, Invokes, Put
    <3>2. Call("cwd").op = "cwd" /\ Call("cwd").at = version' /\ Call("cwd").exec = current'
      BY <3>1 DEF Call
    <3> QED
      BY <3>1, <3>2 DEF ProgramIsAwaited
  <2>3. CASE ManagerBlocks
    BY <2>3, AwaitedPut DEF ManagerBlocks, blockRow, Live
  <2>4. CASE SetsRoleModel
    BY <2>4, AwaitedPut DEF SetsRoleModel, Live
  <2>5. CASE Resets
    <3>1. version' = version + 1 /\ status' = "terminated"
      BY <2>5 DEF Resets, Put
    <3> QED
      BY <3>1, AwaitedLater
  <2>6. CASE Resumes
    <3>1. /\ version' = version + 1 /\ current' = current
          /\ execs'[current] = [cur EXCEPT !.phase = "ready", !.restart = FALSE]
      BY <1>2, <2>6 DEF Resumes
    <3>2. cur'.phase = "ready"
      BY <1>2, <3>1 DEF cur, WorkOrders
    <3> QED
      BY <3>1, <3>2, AwaitedLater
  <2> QED
    BY <1>8, <2>1, <2>2, <2>3, <2>4, <2>5, <2>6 DEF Commanded
<1>9. CASE Restarts
  <2>1. CASE status \in {"running", "blocked"} /\ ~cur.restart
    <3>1. version' = version + 1 /\ status' = "blocked"
      BY <1>9, <2>1 DEF Restarts, Put
    <3> QED
      BY <3>1, AwaitedLater
  <2>2. CASE ~(status \in {"running", "blocked"} /\ ~cur.restart)
    <3>1. UNCHANGED rowVars
      BY <1>9, <2>2 DEF Restarts
    <3>2. status # "running"
      BY <2>2, CurFacts DEF Live
    <3> QED
      BY <3>1, <3>2 DEF ProgramIsAwaited, rowVars
  <2> QED
    BY <2>1, <2>2
<1>10. CASE UNCHANGED vars
  BY <1>10, AwaitedStill DEF vars
<1> QED
  BY <1>4, <1>5, <1>6, <1>7, <1>8, <1>9, <1>10 DEF Next

-----------------------------------------------------------------------------
(* The theorems.                                                           *)

LEMMA CallStackStep == CallStackInv /\ [Next]_vars => CallStackInv'
BY StackStep, CallsStep, AwaitedStep DEF CallStackInv

\* Stack, history, suspended handlers and Judges agree in every state, for any
\* graph of workflows and however deep their Nodes call each other.
THEOREM CallStackHolds == Spec => []CallStackInv
<1>1. Init => CallStackInv
  <2> SUFFICES ASSUME Init PROVE CallStackInv
    OBVIOUS
  <2>1. StackInv
    BY StackInit
  <2> DEFINE first == [op |-> "drive", at |-> 1, exec |-> 1]
  <2>2. /\ status = "running" /\ version = 1 /\ calls = {first} /\ turns = {} /\ current = 1
        /\ execs = <<newExecution(StartNode[Root], RootInput, 1, None)>>
    BY DEF Init
  <2>3. first.op = "drive" /\ first.at = 1
    OBVIOUS
  <2> HIDE DEF first
  <2>4. cur.phase = "ready" /\ cur.pred = None
    BY <2>2 DEF cur, newExecution
  <2>5. CallsInv
    BY <2>2, <2>3, <2>4 DEF CallsInv, Timely, Settled, Dispatched, TurnsAreOpen
  <2>6. ProgramIsAwaited
    BY <2>4 DEF ProgramIsAwaited
  <2> QED
    BY <2>1, <2>5, <2>6 DEF CallStackInv
<1> QED
  BY <1>1, CallStackStep, PTL DEF Spec

LEMMA NestingFollows == StackInv => CallsAreNested
<1> SUFFICES ASSUME StackInv PROVE CallsAreNested
  OBVIOUS
<1> DEFINE Ids == DOMAIN execs
           n == Len(stack)
           AtWork(i) == execs[i].phase = "working" /\ execs[i].child # None
<1>1. /\ n \in Nat /\ DOMAIN stack = 1..n
      /\ \A i \in Ids : Entry(i) /\ Left(i)
      /\ \A d \in DOMAIN stack : /\ stack[d] \in [node : Nodes, exec : Nat]
                                 /\ stack[d].exec \in Ids
                                 /\ stack[d].node = execs[stack[d].exec].node
      /\ \A d \in DOMAIN stack : d < n => CallerFrame(d)
  BY StackFacts DEF StackInv, History, Frames
<1>2. \A i \in Ids : execs[i].visit = i
  BY <1>1 DEF Entry
<1>3. ASSUME Live
      PROVE  /\ Top = Frame(cur.node, current) /\ cur.phase # "exited"
             /\ {i \in Ids : AtWork(i)} = {stack[d].exec : d \in 1..(n - 1)}
             /\ \A d \in 1..(n - 1) : WorkflowOf[stack[d + 1].node] = Callee[stack[d].node]
  <2>1. /\ n >= 1 /\ stack[n].exec = current /\ stack[n].node = cur.node /\ cur.phase # "exited"
        /\ cur.child = None /\ cur = execs[current]
    BY <1>3, LiveFacts DEF cur
  <2>2. Top = Frame(cur.node, current)
    <3>1. stack[n] \in [node : Nodes, exec : Nat]
      BY <1>1, <2>1
    <3> QED
      BY <2>1, <3>1 DEF Top, Frame
  <2>3. \A d \in 1..(n - 1) : d \in DOMAIN stack /\ d < n
    BY <1>1
  <2>4. ASSUME NEW d \in 1..(n - 1)
        PROVE  /\ stack[d].exec \in Ids /\ AtWork(stack[d].exec)
               /\ WorkflowOf[stack[d + 1].node] = Callee[stack[d].node]
    BY <1>1, <2>3 DEF CallerFrame
  <2>5. ASSUME NEW i \in Ids, AtWork(i)
        PROVE  \E d \in 1..(n - 1) : stack[d].exec = i
    <3>1. PICK d \in DOMAIN stack : stack[d].exec = i
      BY <1>1, <1>3, <2>5 DEF Left, Live
    <3>2. d # n
      BY <2>1, <2>5, <3>1
    <3>3. d \in 1..(n - 1)
      <4> HIDE DEF n
      <4> QED
        BY <1>1, <3>1, <3>2
    <3> QED
      BY <3>1, <3>3
  <2>6. {i \in Ids : AtWork(i)} = {stack[d].exec : d \in 1..(n - 1)}
    <3> HIDE DEF AtWork, Ids, n
    <3> QED
      BY <2>4, <2>5
  <2> QED
    BY <2>1, <2>2, <2>4, <2>6
<1>4. ASSUME status = "completed", NEW i \in Ids PROVE execs[i].phase = "exited"
  <2>1. stack = <<>>
    BY <1>4 DEF StackInv, Frames
  <2> QED
    BY <1>1, <1>4, <2>1 DEF Left
<1>5. ASSUME NEW i \in Ids
      PROVE  /\ execs[i].child # None => execs[execs[i].child].node = StartNode[Callee[execs[i].node]]
             /\ execs[i].terminal # None =>
                  /\ execs[i].phase = "exited" /\ execs[i].child <= execs[i].terminal
                  /\ WorkflowOf[execs[execs[i].terminal].node] = Callee[execs[i].node]
                  /\ ExitOf(execs[i]) = Target[execs[i].node][ExitOf(execs[execs[i].terminal])]
             /\ execs[i].pred # None => execs[i].node = ExitOf(execs[execs[i].pred])
  BY <1>1 DEF Entry, Left
<1> QED
  BY <1>2, <1>3, <1>4, <1>5 DEF CallsAreNested, ExitOf, Live

\* The call stack is the nesting of the workflows at work, and what was left is
\* well bracketed: each caller was left with the return that its Child's last
\* work order reached.
THEOREM NestingHolds == Spec => []CallsAreNested
BY CallStackHolds, NestingFollows, PTL DEF CallStackInv

LEMMA TracesFollow == StackInv => HandoffsAreTraced
<1> SUFFICES ASSUME StackInv, NEW i \in DOMAIN execs
             PROVE  LET e == execs[i]
                    IN  /\ e.child # None => execs[e.child].input = e.input
                        /\ e.pred # None => e.input = execs[e.pred].text
                        /\ e.phase = "exited" =>
                             CASE Kind[e.node] = "child"   -> e.text = execs[e.terminal].text
                               [] Kind[e.node] = "program" -> e.text \in {e.input, [by |-> i, inv |-> e.program.id]}
                               [] OTHER                    -> e.text.by = i
  BY DEF HandoffsAreTraced
<1> DEFINE e == execs[i]
<1>1. Entry(i) /\ Left(i) /\ e.node \in Nodes
  BY StackFacts DEF StackInv, History, WorkOrders
<1>2. /\ e.child # None => execs[e.child].input = e.input
      /\ e.pred # None => e.input = execs[e.pred].text
  BY <1>1 DEF Entry
<1>3. e.phase = "exited" =>
        /\ Kind[e.node] = "child" => e.text = execs[e.terminal].text
        /\ Kind[e.node] = "program" => e.text \in {e.input, [by |-> i, inv |-> e.program.id]}
        /\ Kind[e.node] = "task" => e.text.by = i
  BY <1>1 DEF Left
<1>4. Kind[e.node] \in {"task", "program", "child"}
  BY <1>1, GraphAssumption
<1> HIDE DEF e
<1>5. e.phase = "exited" =>
        CASE Kind[e.node] = "child"   -> e.text = execs[e.terminal].text
          [] Kind[e.node] = "program" -> e.text \in {e.input, [by |-> i, inv |-> e.program.id]}
          [] OTHER                    -> e.text.by = i
  <2>1. CASE Kind[e.node] = "child"
    BY <1>3, <2>1
  <2>2. CASE Kind[e.node] = "program"
    BY <1>3, <2>2
  <2>3. CASE Kind[e.node] = "task"
    BY <1>3, <2>3
  <2> QED
    BY <1>4, <2>1, <2>2, <2>3
<1> QED
  BY <1>2, <1>5 DEF e

\* Texts are handed on as they were written, through Children and Programs.
THEOREM TextsAreTraced == Spec => []HandoffsAreTraced
BY CallStackHolds, TracesFollow, PTL DEF CallStackInv

\* A Program that is running by its row is awaited by the handler that takes
\* its result, whatever was suspended, stopped or written in between.
THEOREM ProgramsAreAwaited == Spec => []ProgramIsAwaited
BY CallStackHolds, PTL DEF CallStackInv

\* No Role is sent its work.
NoneStarts ==
  \A i \in DOMAIN execs : Kind[execs[i].node] = "task" /\ execs[i].phase = "ready"
                            => execs'[i].phase # "working"

LEMMA PutStartsNone ==
  ASSUME StackInv, NEW st, NEW e, Put(st, e),
         e.phase = "working" => Kind[cur.node] # "task" \/ cur.phase = "working"
  PROVE  NoneStarts
<1>1. current \in DOMAIN execs /\ cur = execs[current] /\ execs' = [execs EXCEPT ![current] = e]
  BY StackFacts DEF cur, Put
<1> QED
  BY <1>1 DEF NoneStarts

LEMMA OthersStartNone ==
  ASSUME CallStackInv, [Next]_vars, \A c \in calls : ~DispatchesRole(c)
  PROVE  NoneStarts
<1>1. StackInv /\ CallsInv /\ calls \subseteq CallRecords
      /\ \A op \in {"drive", "cwd"} : Call(op) \in CallRecords
  BY CallsAreRecords DEF CallStackInv
<1>2. cur \in WorkOrders /\ current \in DOMAIN execs /\ cur = execs[current]
      /\ \A i \in DOMAIN execs : execs[i] \in WorkOrders
  BY <1>1, StackFacts DEF cur
<1>3. ASSUME UNCHANGED rowVars PROVE NoneStarts
  BY <1>3 DEF NoneStarts, rowVars
<1>4. ASSUME NEW st, Put(st, cur) PROVE NoneStarts
  BY <1>1, <1>4, PutStartsNone
<1>5. ASSUME NEW e, NEW name, NEW text, Ending(e, name, text), calls' \subseteq CallRecords
      PROVE  NoneStarts
  <2>1. \A i \in DOMAIN execs : execs'[i].phase \in {execs[i].phase, "exited"}
    BY <1>1, <1>5, EndingInv
  <2> QED
    BY <2>1 DEF NoneStarts
<1>6. ASSUME NEW c \in calls, FollowsAtOnce(c) PROVE NoneStarts
  <2>1. CASE ReadiesProgram(c)
    BY <1>4, <2>1 DEF ReadiesProgram
  <2>2. CASE EntersChild(c)
    <3>1. calls' \subseteq CallRecords
      BY <1>1, <2>2 DEF EntersChild, GoesOn
    <3>2. EntersKeeps
      BY <1>1, <2>2, <3>1, EntersInv
    <3> QED
      BY <3>2 DEF NoneStarts, EntersKeeps
  <2>3. ASSUME NEW fails \in BOOLEAN, Steers(c, fails) PROVE NoneStarts
    BY <1>3, <1>4, <2>3 DEF Steers, blockRow
  <2> QED
    BY <1>6, <2>1, <2>2, <2>3 DEF FollowsAtOnce
<1>7. ASSUME NEW c \in calls, Answered(c) PROVE NoneStarts
  <2>1. ASSUME NEW safe \in BOOLEAN, TransferSettles(c, safe) PROVE NoneStarts
    <3>1. CASE version # c.at
      BY <1>3, <2>1, <3>1 DEF TransferSettles
    <3>2. CASE version = c.at /\ ~safe
      BY <1>4, <2>1, <3>2 DEF TransferSettles, blockRow
    <3>3. CASE version = c.at /\ safe
      <4>1. c.op = "probe" /\ execs' = [execs EXCEPT ![c.exec].judge = "settled"]
        BY <2>1, <3>3 DEF TransferSettles
      <4>2. c.exec \in DOMAIN execs
        BY <1>1, <4>1 DEF CallsInv, Probes
      <4>3. \A i \in DOMAIN execs : execs'[i].phase = execs[i].phase
        BY <1>2, <4>1, <4>2 DEF WorkOrders
      <4> QED
        BY <4>3 DEF NoneStarts
    <3> QED
      BY <3>1, <3>2, <3>3
  <2>2. CASE ProgramStarts(c)
    BY <1>3, <2>2 DEF ProgramStarts
  <2>3. CASE ProgramFaults(c)
    BY <1>3, <1>4, <2>3 DEF ProgramFaults, blockRow
  <2>4. CASE ProgramErrs(c)
    <3> DEFINE e == [cur EXCEPT !.phase = "settling", !.program.result = "ERROR"]
    <3>1. Put("blocked", e) /\ e.phase = "settling"
      BY <1>2, <2>4 DEF ProgramErrs, blockRow, WorkOrders
    <3> HIDE DEF e
    <3> QED
      BY <1>1, <3>1, PutStartsNone
  <2>5. CASE ResultIsStale(c)
    BY <1>3, <2>5 DEF ResultIsStale
  <2>6. ASSUME NEW result \in {"PASS", "FAIL"}, NEW own \in BOOLEAN, ProgramEnds(c, result, own)
        PROVE  NoneStarts
    <3>1. calls' \subseteq CallRecords
      BY <1>1, <2>6 DEF ProgramEnds, Goes, GoesOn
    <3> QED
      BY <1>1, <1>5, <2>6, <3>1, ProgramEndsSo
  <2> QED
    BY <1>7, <2>1, <2>2, <2>3, <2>4, <2>5, <2>6 DEF Answered
<1>8. ASSUME NEW name \in DOMAIN Target[cur.node], TaskAccepted(name) PROVE NoneStarts
  <2>1. calls' \subseteq CallRecords
    BY <1>1, <1>8 DEF TaskAccepted
  <2> QED
    BY <1>1, <1>5, <1>8, <2>1, AcceptEnds
<1>9. ASSUME NEW i \in turns, JudgeTurnEnds(i) PROVE NoneStarts
  BY <1>3, <1>9 DEF JudgeTurnEnds
<1>10. CASE Commanded
  <2>1. ASSUME NEW result \in {"PASS", "FAIL"}, ResolvesProgram(result) PROVE NoneStarts
    <3>1. calls' \subseteq CallRecords
      BY <1>1, <2>1 DEF ResolvesProgram
    <3> QED
      BY <1>1, <1>5, <2>1, <3>1, ResolvesSo
  <2>2. CASE RunsProgram
    <3>1. Kind[cur.node] = "program"
      BY <2>2 DEF RunsProgram
    <3>2. Kind[cur.node] # "task"
      BY <3>1
    <3> QED
      BY <1>1, <2>2, <3>2, PutStartsNone DEF RunsProgram, Invokes
  <2>3. CASE ManagerBlocks
    BY <1>4, <2>3 DEF ManagerBlocks, blockRow
  <2>4. CASE SetsRoleModel
    BY <1>4, <2>4 DEF SetsRoleModel
  <2>5. CASE Resets
    <3> DEFINE e == [cur EXCEPT !.restart = FALSE]
    <3>1. Put("terminated", e) /\ e.phase = cur.phase
      BY <1>2, <2>5 DEF Resets, WorkOrders
    <3> HIDE DEF e
    <3> QED
      BY <1>1, <3>1, PutStartsNone
  <2>6. CASE Resumes
    <3>1. execs' = [i \in DOMAIN execs |->
                      IF i = current THEN [cur EXCEPT !.phase = "ready", !.restart = FALSE]
                      ELSE IF i = JudgeToRecover THEN [execs[i] EXCEPT !.judge = "settled"] ELSE execs[i]]
      BY <2>6 DEF Resumes
    <3>2. ASSUME NEW i \in DOMAIN execs PROVE execs'[i].phase \in {execs[i].phase, "ready"}
      <4>1. CASE i = current
        BY <1>2, <3>1, <4>1 DEF WorkOrders
      <4>2. CASE i # current
        BY <1>2, <3>1, <4>2 DEF WorkOrders
      <4> QED
        BY <4>1, <4>2
    <3> QED
      BY <3>2 DEF NoneStarts
  <2> QED
    BY <1>10, <2>1, <2>2, <2>3, <2>4, <2>5, <2>6 DEF Commanded
<1>11. CASE Restarts
  <2>1. CASE status \in {"running", "blocked"} /\ ~cur.restart
    <3> DEFINE e == [cur EXCEPT !.restart = TRUE]
    <3>1. Put("blocked", e) /\ e.phase = cur.phase
      BY <1>2, <1>11, <2>1 DEF Restarts, WorkOrders
    <3> HIDE DEF e
    <3> QED
      BY <1>1, <3>1, PutStartsNone
  <2>2. CASE ~(status \in {"running", "blocked"} /\ ~cur.restart)
    BY <1>3, <1>11, <2>2 DEF Restarts
  <2> QED
    BY <2>1, <2>2
<1>12. CASE UNCHANGED vars
  BY <1>3, <1>12 DEF vars
<1> QED
  BY <1>6, <1>7, <1>8, <1>9, <1>10, <1>11, <1>12 DEF Next

\* A Role is sent its work only after the Judge whose ACCEPT led to it, found
\* down all the Children that ended with it, has ended its turn and is settled.
THEOREM RolesWait == Spec => RolesWaitForJudges
<1> DEFINE A == \A i \in DOMAIN execs :
                  /\ Kind[execs[i].node] = "task" /\ execs[i].pred # None
                  /\ execs[i].phase = "ready" /\ execs'[i].phase = "working"
                  => LET j == TransferJudge(execs[i].pred)
                     IN  j # None => execs'[j].judge = "settled" /\ j \notin turns'
<1>1. CallStackInv /\ [Next]_vars => [A]_vars
  <2> SUFFICES ASSUME CallStackInv, [Next]_vars PROVE A
    OBVIOUS
  <2>1. CASE \A c \in calls : ~DispatchesRole(c)
    BY <2>1, OthersStartNone DEF NoneStarts
  <2>2. ASSUME NEW c \in calls, DispatchesRole(c) PROVE A
    <3>1. /\ c.op = "drive" /\ turns' = turns /\ Live
          /\ execs' = [execs EXCEPT ![current] = [cur EXCEPT !.phase = "working"]]
      BY <2>2 DEF DispatchesRole, Drives, Put, Live
    <3>2. Settled /\ StackInv /\ TurnsAreOpen
      BY <3>1 DEF CallStackInv, CallsInv
    <3>3. ASSUME cur.pred # None, TransferJudge(cur.pred) # None
          PROVE  LET j == TransferJudge(cur.pred)
                 IN  execs'[j].judge = "settled" /\ j \notin turns'
      <4> DEFINE j == TransferJudge(cur.pred)
      <4>1. execs[j].judge = "settled" /\ j \in DOMAIN execs /\ j # current
        BY <3>1, <3>2, <3>3, TransferFacts DEF Settled
      <4> HIDE DEF j
      <4>2. execs'[j] = execs[j] /\ j \notin turns
        BY <3>1, <3>2, <4>1 DEF TurnsAreOpen
      <4> QED
        BY <3>1, <4>1, <4>2 DEF j
    <3>4. \A i \in DOMAIN execs : i # current => execs'[i] = execs[i]
      BY <3>1
    <3> QED
      BY <3>3, <3>4 DEF cur
  <2> QED
    BY <2>1, <2>2
<1>2. [][A]_vars => RolesWaitForJudges
  BY PTL DEF RolesWaitForJudges
<1> HIDE DEF A
<1> QED
  BY <1>1, <1>2, CallStackHolds, PTL DEF Spec
=============================================================================
