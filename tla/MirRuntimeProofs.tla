--------------------------- MODULE MirRuntimeProofs ---------------------------
(***************************************************************************)
(* Proofs about the life cycle of MirRuntime: the handshakes of mir_create *)
(* and mir_destroy with the workers, and who gets through mir_destroy.     *)
(*                                                                         *)
(* The handshakes rest on a count: g_sig_worker_alive is the number of     *)
(* workers that have not reported yet.  That one mir_destroy goes through, *)
(* and the last, rests on more counts: the status board is the number of   *)
(* contexts that execute a task from the queues, the tasks that have not   *)
(* ended are in the queues or with a worker, and init_count is the number  *)
(* of scopes that are open in all contexts.                                *)
(***************************************************************************)
EXTENDS MirRuntime, FiniteSetTheorems, SequenceTheorems, TLAPS

USE RuntimeAssumption

CreateLabels == {"spawn", "wait_alive"}
KillLabels == {"kill", "wait_dead"}
TailLabels == {"freeze", "recorders"} \cup KillLabels       \* only one mir_destroy comes here
CallLabels == {"create", "created", "wait", "popped", "executed"}
CodeLabels == CallLabels \cup {"run", "reread", "check_done"}   \* user code and its calls
MainLabels == CodeLabels \cup CreateLabels \cup TailLabels \cup {"exit"}
UnbornLabels == {"none", "init", "signal"}      \* mir_create still waits for the worker
LoopLabels == {"begin", "loop", "popped", "executed", "look", "dying", "end_idle", "die"}
ThreadLabels == UnbornLabels \cup LoopLabels
Labels == MainLabels \cup ThreadLabels
Contexts == [at : Labels, scopes : Nat]

\* Where the loop of a worker stands, or the main program, below all tasks.
Base == [w \in Workers |-> contexts[w][1].at]

\* Where every context stands, and the scopes that it has open.
Marks == {m \in Workers \X Nat \X Labels :
            m[2] \in 1 .. Len(contexts[m[1]]) /\ contexts[m[1]][m[2]].at = m[3]}
OpenScopes == {m \in Workers \X Nat \X Nat :
            m[2] \in 1 .. Len(contexts[m[1]]) /\ m[3] \in 1 .. contexts[m[1]][m[2]].scopes}
Count(which) == Cardinality(Marks \cap which)
Executing == Workers \X Nat \X {"executed"}         \* counted on the status board
Holding == Workers \X Nat \X {"create", "popped"}   \* has a task that has not begun
Tasks == Workers \X (Nat \ {0, 1}) \X Labels        \* is a task

\* The contexts: who may stand where, and who has another context on top.
ContextsInv ==
    /\ contexts \in [Workers -> Seq(Contexts)]
    /\ \A w \in Workers : Len(contexts[w]) # 0
    /\ Base[0] \in MainLabels
    /\ Base[0] \in CallLabels => contexts[0][1].scopes > 0
    /\ \A w \in Threads : Base[w] \in ThreadLabels /\ contexts[w][1].scopes = 0
    /\ \A w \in Workers : \A i \in 2 .. Len(contexts[w]) :
            contexts[w][i].at \in CodeLabels /\ (w = 0 => contexts[w][i].at # "check_done")
    /\ \A w \in Workers : \A i \in 1 .. Len(contexts[w]) - 1 :
            contexts[w][i].at \in {"created", "executed"}
    /\ IsFiniteSet(Marks)

PlaceInv ==
    /\ runtime \in [up : BOOLEAN, init_count : Int, destroyed : BOOLEAN]
    /\ loop \in 0 .. NumWorkers
    /\ Base[0] = "exit" => exiting
    /\ exiting => Base[0] \in {"exit", "reread", "check_done"} \cup TailLabels
    /\ ~runtime.up => Base[0] \in {"run", "exit"}

\* The workers but the first whose loop stands at one of these labels.
At(labels) == {w \in Threads : Base[w] \in labels}

\* The handshakes: who has still to report, and who holds the lock that keeps it
\* from reporting twice.
AliveInv ==
    /\ sig_die \in [Workers -> BOOLEAN] /\ sig_dying \in [Workers -> BOOLEAN]
    /\ IF Base[0] \in CreateLabels
       THEN /\ g_sig_worker_alive = Cardinality(At(UnbornLabels))
            /\ 1 <= loop /\ (Base[0] = "wait_alive" => loop = NumWorkers)
            /\ \A w \in Threads : Base[w] = "none" <=> loop <= w
       ELSE IF Base[0] \in KillLabels
       THEN /\ g_sig_worker_alive = Cardinality(At(LoopLabels))
            /\ At({"init", "signal"}) = {}
       ELSE /\ g_sig_worker_alive = 0
            /\ \A w \in Threads : IF runtime.up THEN Base[w] \notin UnbornLabels ELSE Base[w] = "none"
    /\ runtime.up /\ Base[0] \notin KillLabels =>
            \A w \in Workers : Base[w] \notin {"none", "init"} => sig_die[w]

BusyInv ==
    /\ g_num_tasks_waiting \in Nat
    /\ g_worker_status_board = Count(Executing)
    /\ Base[0] \in CreateLabels \/ ~runtime.up =>
            g_num_tasks_waiting = 0 /\ At({"popped", "executed"}) = {}

ScopeInv ==
    /\ ~runtime.up => runtime = NoRuntime
    /\ Base[0] \in CreateLabels => runtime.init_count = 1
    /\ ~runtime.up \/ Base[0] \in CreateLabels => contexts[0][1].scopes = 0
    /\ IsFiniteSet(OpenScopes)
    /\ runtime.up /\ Base[0] \notin CreateLabels /\ ~exiting =>
            runtime.init_count = Cardinality(OpenScopes)

\* Of a program that does not wait for its tasks, mir_destroy may forget some.
TaskInv ==
    /\ created \in 0 .. MaxTasks /\ finished \in Nat
    /\ created - finished >= g_num_tasks_waiting + Count(Holding) + Count(Tasks)
    /\ g_worker_status_board <= Count(Tasks) + finished
    /\ Structured =>
        /\ created - finished = g_num_tasks_waiting + Count(Holding) + Count(Tasks)
        /\ contexts[0][1].scopes = 0 \/ exiting => finished = created
        /\ \A w \in Workers : InDestroy(w) => w = 0 /\ finished = created

LifeInv == ContextsInv /\ PlaceInv /\ AliveInv /\ BusyInv /\ ScopeInv /\ TaskInv
-----------------------------------------------------------------------------
(* Counting *)

LEMMA WorkersFinite ==
    /\ 0 \in Workers /\ Threads \subseteq Workers
    /\ IsFiniteSet(Workers) /\ IsFiniteSet(Threads) /\ Cardinality(Threads) = NumWorkers - 1
<1>1. 0 \in Workers /\ Threads \subseteq Workers
  BY DEF Workers, Threads
<1>2. IsFiniteSet(Workers) /\ Cardinality(Workers) = NumWorkers
  BY FS_Interval DEF Workers
<1>3. IsFiniteSet(Threads) /\ Cardinality(Threads) = NumWorkers - 1
  BY <1>1, <1>2, FS_RemoveElement DEF Threads
<1> QED
  BY <1>1, <1>2, <1>3

LEMMA AtFinite ==
    ASSUME NEW labels
    PROVE  /\ IsFiniteSet(At(labels)) /\ Cardinality(At(labels)) \in Nat
           /\ Cardinality(At(labels)) = 0 <=> At(labels) = {}
           /\ Cardinality(At(labels)) <= NumWorkers - 1
<1>1. At(labels) \subseteq Threads
  BY DEF At
<1>2. IsFiniteSet(At(labels)) /\ Cardinality(At(labels)) <= Cardinality(Threads)
  BY <1>1, WorkersFinite, FS_Subset
<1> QED
  BY <1>2, WorkersFinite, FS_CardinalityType, FS_EmptySet

\* Nobody but the main program moves.
LEMMA AtKept ==
    ASSUME NEW labels, \A v \in Threads : Base'[v] = Base[v]
    PROVE  At(labels)' = At(labels)
BY DEF At

\* The loop of one worker moves.
LEMMA AtMoves ==
    ASSUME NEW labels, NEW w \in Threads, \A v \in Workers \ {w} : Base'[v] = Base[v]
    PROVE  Cardinality(At(labels)') = Cardinality(At(labels))
                + (IF Base'[w] \in labels THEN 1 ELSE 0) - (IF Base[w] \in labels THEN 1 ELSE 0)
<1> DEFINE rest == {v \in Threads \ {w} : Base[v] \in labels}
<1>1. IsFiniteSet(rest) /\ w \notin rest
  BY WorkersFinite, FS_Subset
<1>2. Cardinality(rest \cup {w}) = Cardinality(rest) + 1 /\ Cardinality(rest) \in Nat
  BY <1>1, FS_AddElement, FS_CardinalityType
<1>3. At(labels) = IF Base[w] \in labels THEN rest \cup {w} ELSE rest
  BY DEF At
<1>4. At(labels)' = IF Base'[w] \in labels THEN rest \cup {w} ELSE rest
  BY WorkersFinite DEF At
<1> QED
  BY <1>2, <1>3, <1>4

\* One more, one less.
LEMMA CountMore ==
    ASSUME NEW M, IsFiniteSet(M), NEW x, x \notin M, NEW S
    PROVE  /\ IsFiniteSet(M \cup {x}) /\ Cardinality(M \cap S) \in Nat
           /\ Cardinality((M \cup {x}) \cap S) = Cardinality(M \cap S) + (IF x \in S THEN 1 ELSE 0)
<1>1. IsFiniteSet(M \cup {x}) /\ IsFiniteSet(M \cap S)
  BY FS_AddElement, FS_Intersection
<1>2. Cardinality(M \cap S) \in Nat
  BY <1>1, FS_CardinalityType
<1>3. CASE x \in S
  <2>1. (M \cup {x}) \cap S = (M \cap S) \cup {x} /\ x \notin M \cap S
    BY <1>3
  <2> QED
    BY <1>1, <1>2, <1>3, <2>1, FS_AddElement
<1>4. CASE x \notin S
  <2>1. (M \cup {x}) \cap S = M \cap S
    BY <1>4
  <2> QED
    BY <1>1, <1>2, <1>4, <2>1
<1> QED
  BY <1>3, <1>4

LEMMA CountLess ==
    ASSUME NEW M, IsFiniteSet(M), NEW x \in M, NEW S
    PROVE  /\ IsFiniteSet(M \ {x}) /\ Cardinality((M \ {x}) \cap S) \in Nat
           /\ Cardinality((M \ {x}) \cap S) = Cardinality(M \cap S) - (IF x \in S THEN 1 ELSE 0)
<1> DEFINE N == M \ {x}
<1>1. IsFiniteSet(N) /\ x \notin N /\ N \cup {x} = M
  BY FS_RemoveElement
<1> HIDE DEF N
<1>2. /\ Cardinality(N \cap S) \in Nat
      /\ Cardinality((N \cup {x}) \cap S) = Cardinality(N \cap S) + (IF x \in S THEN 1 ELSE 0)
  BY <1>1, CountMore
<1>3. Cardinality(M \cap S) = Cardinality(N \cap S) + (IF x \in S THEN 1 ELSE 0)
  BY <1>1, <1>2
<1>4. Cardinality(N \cap S) = Cardinality(M \cap S) - (IF x \in S THEN 1 ELSE 0)
  BY <1>2, <1>3
<1> QED
  BY <1>1, <1>2, <1>4 DEF N
-----------------------------------------------------------------------------
(* A context changes, a task is called, a task returns *)

Depth(w) == Len(contexts[w])
Sets(w, c) == contexts' = [contexts EXCEPT ![w][Depth(w)] = c]
Returns(w) == contexts' = [contexts EXCEPT ![w] = Front(@)]

LEMMA TopFacts ==
    ASSUME ContextsInv, NEW w \in Workers
    PROVE  /\ contexts[w] \in Seq(Contexts) /\ Depth(w) \in Nat \ {0} /\ DOMAIN contexts[w] = 1 .. Depth(w)
           /\ Top(w) = contexts[w][Depth(w)] /\ Top(w) \in Contexts
           /\ \A i \in 1 .. Depth(w) : contexts[w][i] \in Contexts
           /\ Base[w] = contexts[w][1].at
           /\ InBase(w) => Base[w] = Top(w).at
<1>1. contexts[w] \in Seq(Contexts) /\ Depth(w) # 0
  BY DEF ContextsInv, Depth
<1>2. /\ Depth(w) \in Nat \ {0} /\ DOMAIN contexts[w] = 1 .. Depth(w)
      /\ \A i \in 1 .. Depth(w) : contexts[w][i] \in Contexts
  BY <1>1 DEF Depth
<1>3. Top(w) = contexts[w][Depth(w)] /\ Base[w] = contexts[w][1].at
  BY DEF Top, Last, Depth, Base
<1> QED
  BY <1>1, <1>2, <1>3 DEF InBase, Depth

LEMMA SetsFacts ==
    ASSUME ContextsInv, NEW w \in Workers, NEW c \in Contexts, Sets(w, c)
    PROVE  /\ contexts' \in [Workers -> Seq(Contexts)]
           /\ \A v \in Workers \ {w} : contexts'[v] = contexts[v]
           /\ Len(contexts'[w]) = Depth(w) /\ contexts'[w][Depth(w)] = c
           /\ \A i \in 1 .. Depth(w) - 1 : contexts'[w][i] = contexts[w][i]
           /\ Top(w)' = c /\ \A v \in Workers \ {w} : Top(v)' = Top(v)
           /\ Base'[w] = (IF Depth(w) = 1 THEN c.at ELSE Base[w])
           /\ \A v \in Workers \ {w} : Base'[v] = Base[v]
<1> DEFINE n == Depth(w)
           s == contexts[w]
           t == [s EXCEPT ![n] = c]
<1>1. s \in Seq(Contexts) /\ n \in Nat \ {0} /\ Len(s) = n /\ DOMAIN s = 1 .. n
  BY TopFacts DEF Depth
<1>2. contexts' = [contexts EXCEPT ![w] = t] /\ contexts \in [Workers -> Seq(Contexts)]
  BY DEF Sets, ContextsInv
<1> HIDE DEF n, s
<1>3. t \in Seq(Contexts) /\ Len(t) = n /\ t[n] = c /\ \A i \in 1 .. n - 1 : t[i] = s[i]
  BY <1>1
<1> HIDE DEF t
<1>4. contexts' \in [Workers -> Seq(Contexts)] /\ contexts'[w] = t
      /\ \A v \in Workers \ {w} : contexts'[v] = contexts[v]
  BY <1>2, <1>3
<1>5. Top(w)' = c /\ \A v \in Workers \ {w} : Top(v)' = Top(v)
  BY <1>3, <1>4 DEF Top, Last
<1>6. t[1] = IF n = 1 THEN c ELSE s[1]
  BY <1>1, <1>3
<1>7. Base'[w] = (IF n = 1 THEN c.at ELSE Base[w]) /\ \A v \in Workers \ {w} : Base'[v] = Base[v]
  BY <1>4, <1>6 DEF Base, s
<1> QED
  BY <1>3, <1>4, <1>5, <1>7 DEF n, s

LEMMA CallFacts ==
    ASSUME ContextsInv, NEW w \in Workers, NEW l \in Labels, Call(w, l)
    PROVE  /\ contexts' \in [Workers -> Seq(Contexts)]
           /\ \A v \in Workers \ {w} : contexts'[v] = contexts[v]
           /\ Len(contexts'[w]) = Depth(w) + 1 /\ contexts'[w][Depth(w) + 1] = Context("run")
           /\ contexts'[w][Depth(w)] = [at |-> l, scopes |-> Top(w).scopes]
           /\ \A i \in 1 .. Depth(w) - 1 : contexts'[w][i] = contexts[w][i]
           /\ Top(w)' = Context("run") /\ \A v \in Workers \ {w} : Top(v)' = Top(v)
           /\ Base'[w] = (IF Depth(w) = 1 THEN l ELSE Base[w])
           /\ \A v \in Workers \ {w} : Base'[v] = Base[v]
           /\ contexts'[w][1].scopes = contexts[w][1].scopes
<1> DEFINE n == Depth(w)
           s == contexts[w]
           c == [at |-> l, scopes |-> Top(w).scopes]
           t == [s EXCEPT ![n].at = l]
           u == Append(t, Context("run"))
<1>1. s \in Seq(Contexts) /\ n \in Nat \ {0} /\ Len(s) = n /\ DOMAIN s = 1 .. n
      /\ Top(w) = s[n] /\ s[n] \in Contexts /\ c \in Contexts
  BY TopFacts DEF Depth, Contexts
<1>2. contexts' = [contexts EXCEPT ![w] = u] /\ contexts \in [Workers -> Seq(Contexts)]
  BY DEF Call, ContextsInv, Depth
<1>3. [s[n] EXCEPT !.at = l] = c
  BY <1>1 DEF Contexts
<1>4. t = [s EXCEPT ![n] = c]
  BY <1>3
<1> HIDE DEF n, s, c, t
<1>5. t \in Seq(Contexts) /\ Len(t) = n /\ t[n] = c /\ \A i \in 1 .. n - 1 : t[i] = s[i]
  BY <1>1, <1>4
<1>6. Context("run") \in Contexts
  BY DEF Context, Contexts, Labels, MainLabels, CodeLabels
<1>7. /\ u \in Seq(Contexts) /\ Len(u) = n + 1 /\ u[n + 1] = Context("run") /\ u[n] = c
      /\ \A i \in 1 .. n - 1 : u[i] = s[i]
  BY <1>1, <1>5, <1>6
<1> HIDE DEF u
<1>8. contexts' \in [Workers -> Seq(Contexts)] /\ contexts'[w] = u
      /\ \A v \in Workers \ {w} : contexts'[v] = contexts[v]
  BY <1>2, <1>7
<1>9. Top(w)' = Context("run") /\ \A v \in Workers \ {w} : Top(v)' = Top(v)
  BY <1>7, <1>8 DEF Top, Last
<1>10. u[1] = IF n = 1 THEN c ELSE s[1]
  BY <1>1, <1>7
<1>11. /\ Base'[w] = (IF n = 1 THEN l ELSE Base[w]) /\ \A v \in Workers \ {w} : Base'[v] = Base[v]
       /\ contexts'[w][1].scopes = s[1].scopes
  BY <1>1, <1>8, <1>10 DEF Base, s, c
<1> QED
  BY <1>7, <1>8, <1>9, <1>11 DEF n, s, c

LEMMA ReturnFacts ==
    ASSUME ContextsInv, NEW w \in Workers, ~InBase(w), Returns(w)
    PROVE  /\ contexts' \in [Workers -> Seq(Contexts)]
           /\ \A v \in Workers \ {w} : contexts'[v] = contexts[v]
           /\ Depth(w) > 1 /\ Len(contexts'[w]) = Depth(w) - 1
           /\ \A i \in 1 .. Depth(w) - 1 : contexts'[w][i] = contexts[w][i]
           /\ Top(w)' = contexts[w][Depth(w) - 1] /\ \A v \in Workers \ {w} : Top(v)' = Top(v)
           /\ \A v \in Workers : Base'[v] = Base[v]
           /\ contexts'[w][1] = contexts[w][1]
<1> DEFINE n == Depth(w)
           s == contexts[w]
           t == Front(s)
<1>1. s \in Seq(Contexts) /\ n \in Nat \ {0} /\ Len(s) = n /\ n # 1 /\ \A i \in 1 .. n : s[i] \in Contexts
  BY TopFacts DEF Depth, InBase
<1>2. contexts' = [contexts EXCEPT ![w] = t] /\ contexts \in [Workers -> Seq(Contexts)]
  BY DEF Returns, ContextsInv
<1> HIDE DEF n, s
<1>3. t = SubSeq(s, 1, n - 1)
  BY <1>1 DEF Front
<1>4. t \in Seq(Contexts) /\ Len(t) = n - 1 /\ \A i \in 1 .. n - 1 : t[i] = s[i]
  <2>1. \A i \in 1 .. n - 1 : s[i] \in Contexts
    BY <1>1
  <2> QED
    BY <1>1, <1>3, <2>1, SubSeqProperties
<1> HIDE DEF t
<1>5. contexts' \in [Workers -> Seq(Contexts)] /\ contexts'[w] = t
      /\ \A v \in Workers \ {w} : contexts'[v] = contexts[v]
  BY <1>2, <1>4
<1>6. Top(w)' = s[n - 1] /\ \A v \in Workers \ {w} : Top(v)' = Top(v)
  BY <1>1, <1>4, <1>5 DEF Top, Last
<1>7. t[1] = s[1]
  BY <1>1, <1>4
<1>8. \A v \in Workers : Base'[v] = Base[v]
  BY <1>5, <1>7 DEF Base, s
<1> QED
  BY <1>1, <1>4, <1>5, <1>6, <1>7, <1>8 DEF n, s

\* A step of code within its context.
LEMMA GotoSets ==
    ASSUME ContextsInv, NEW w \in Workers, NEW l \in Labels, Goto(w, l)
    PROVE  LET c == [at |-> l, scopes |-> Top(w).scopes] IN c \in Contexts /\ Sets(w, c)
<1> DEFINE n == Depth(w)
           s == contexts[w]
           c == [at |-> l, scopes |-> Top(w).scopes]
<1>1. s \in Seq(Contexts) /\ n \in Nat \ {0} /\ DOMAIN s = 1 .. n /\ Top(w) = s[n] /\ s[n] \in Contexts
  BY TopFacts
<1>2. c \in Contexts
  BY <1>1 DEF Contexts
<1>3. contexts' = [contexts EXCEPT ![w] = [s EXCEPT ![n] = [s[n] EXCEPT !.at = l]]]
  BY DEF Goto, Depth
<1>4. [s[n] EXCEPT !.at = l] = c
  BY <1>1 DEF Contexts
<1>5. Sets(w, c)
  BY <1>3, <1>4 DEF Sets
<1> QED
  BY <1>2, <1>5

\* Who may stand at a label.
Fits(w, c) ==
    /\ c \in Contexts
    /\ InBase(w) /\ w = 0 => c.at \in MainLabels /\ (c.at \in CallLabels => c.scopes > 0)
    /\ InBase(w) /\ w # 0 => c.at \in ThreadLabels /\ c.scopes = 0
    /\ ~InBase(w) => c.at \in CodeLabels /\ (w = 0 => c.at # "check_done")

LEMMA MarkTop ==
    ASSUME ContextsInv, NEW w \in Workers
    PROVE  <<w, Depth(w), Top(w).at>> \in Marks
BY TopFacts DEF Marks, Depth, Contexts

LEMMA MarksIn ==
    ASSUME NEW v \in Workers, NEW i \in Nat, NEW l \in Labels
    PROVE  /\ <<v, i, l>> \in Marks <=> i \in 1 .. Len(contexts[v]) /\ contexts[v][i].at = l
           /\ <<v, i, l>> \in Marks' <=> i \in 1 .. Len(contexts'[v]) /\ contexts'[v][i].at = l
BY DEF Marks

LEMMA SetsMarks ==
    ASSUME ContextsInv, NEW w \in Workers, NEW c \in Contexts, Sets(w, c)
    PROVE  Marks' = (Marks \ {<<w, Depth(w), Top(w).at>>}) \cup {<<w, Depth(w), c.at>>}
<1> DEFINE n == Depth(w)
<1>1. /\ n \in Nat \ {0} /\ Len(contexts[w]) = n /\ Top(w).at \in Labels /\ c.at \in Labels
      /\ contexts[w][n].at = Top(w).at
  BY TopFacts DEF Contexts, Depth
<1>2. /\ \A v \in Workers \ {w} : contexts'[v] = contexts[v]
      /\ Len(contexts'[w]) = n /\ contexts'[w][n] = c
      /\ \A i \in 1 .. n - 1 : contexts'[w][i] = contexts[w][i]
  BY SetsFacts
<1> HIDE DEF n
<1>3. ASSUME NEW v \in Workers, NEW i \in Nat, NEW l \in Labels
      PROVE  <<v, i, l>> \in Marks' <=> <<v, i, l>> \in (Marks \ {<<w, n, Top(w).at>>}) \cup {<<w, n, c.at>>}
  <2>1. CASE v # w
    BY <1>2, <2>1, MarksIn
  <2>2. CASE v = w /\ i = n
    BY <1>1, <1>2, <2>2, MarksIn
  <2>3. CASE v = w /\ i # n
    <3>1. i \in 1 .. n => i \in 1 .. n - 1
      BY <1>1, <2>3
    <3>2. i \in 1 .. n => contexts'[w][i] = contexts[w][i]
      BY <1>2, <3>1
    <3> QED
      BY <1>1, <1>2, <2>3, <3>2, MarksIn
  <2> QED
    BY <2>1, <2>2, <2>3
<1>4. /\ Marks \subseteq Workers \X Nat \X Labels /\ Marks' \subseteq Workers \X Nat \X Labels
      /\ <<w, n, c.at>> \in Workers \X Nat \X Labels
  BY <1>1 DEF Marks
<1>5. Marks' = (Marks \ {<<w, n, Top(w).at>>}) \cup {<<w, n, c.at>>}
  BY <1>3, <1>4
<1> QED
  BY <1>5 DEF n

LEMMA CallMarks ==
    ASSUME ContextsInv, NEW w \in Workers, NEW l \in Labels, Call(w, l)
    PROVE  Marks' = ((Marks \ {<<w, Depth(w), Top(w).at>>}) \cup {<<w, Depth(w), l>>})
                        \cup {<<w, Depth(w) + 1, "run">>}
<1> DEFINE n == Depth(w)
           gone == <<w, n, Top(w).at>>
           here == <<w, n, l>>
           new == <<w, n + 1, "run">>
<1>1. /\ n \in Nat \ {0} /\ Len(contexts[w]) = n /\ Top(w).at \in Labels /\ "run" \in Labels
      /\ contexts[w][n].at = Top(w).at
  BY TopFacts DEF Contexts, Depth, Labels, MainLabels, CodeLabels
<1>2. /\ \A v \in Workers \ {w} : contexts'[v] = contexts[v]
      /\ Len(contexts'[w]) = n + 1 /\ contexts'[w][n].at = l /\ contexts'[w][n + 1].at = "run"
      /\ \A i \in 1 .. n - 1 : contexts'[w][i] = contexts[w][i]
  <2>1. /\ \A v \in Workers \ {w} : contexts'[v] = contexts[v]
        /\ Len(contexts'[w]) = n + 1 /\ contexts'[w][n + 1] = Context("run")
        /\ contexts'[w][n] = [at |-> l, scopes |-> Top(w).scopes]
        /\ \A i \in 1 .. n - 1 : contexts'[w][i] = contexts[w][i]
    BY CallFacts
  <2> QED
    BY <2>1 DEF Context
<1> HIDE DEF n
<1>3. ASSUME NEW v \in Workers, NEW i \in Nat, NEW k \in Labels
      PROVE  <<v, i, k>> \in Marks' <=> <<v, i, k>> \in ((Marks \ {gone}) \cup {here}) \cup {new}
  <2>1. CASE v # w
    BY <1>2, <2>1, MarksIn
  <2>2. CASE v = w /\ i = n
    BY <1>1, <1>2, <2>2, MarksIn
  <2>3. CASE v = w /\ i = n + 1
    BY <1>1, <1>2, <2>3, MarksIn
  <2>4. CASE v = w /\ i # n /\ i # n + 1
    <3>1. /\ i \in 1 .. n => i \in 1 .. n - 1
          /\ i \in 1 .. n + 1 => i \in 1 .. n
      BY <1>1, <2>4
    <3>2. i \in 1 .. n + 1 => contexts'[w][i] = contexts[w][i]
      BY <1>2, <3>1
    <3>3. i \in 1 .. n + 1 <=> i \in 1 .. n
      BY <1>1, <3>1
    <3> QED
      BY <1>1, <1>2, <2>4, <3>2, <3>3, MarksIn
  <2> QED
    BY <2>1, <2>2, <2>3, <2>4
<1>4. /\ Marks \subseteq Workers \X Nat \X Labels /\ Marks' \subseteq Workers \X Nat \X Labels
      /\ here \in Workers \X Nat \X Labels /\ new \in Workers \X Nat \X Labels
  BY <1>1 DEF Marks
<1>5. Marks' = ((Marks \ {gone}) \cup {here}) \cup {new}
  BY <1>3, <1>4
<1> QED
  BY <1>5 DEF n

LEMMA ReturnMarks ==
    ASSUME ContextsInv, NEW w \in Workers, ~InBase(w), Returns(w)
    PROVE  Marks' = Marks \ {<<w, Depth(w), Top(w).at>>}
<1> DEFINE n == Depth(w)
           gone == <<w, n, Top(w).at>>
<1>1. /\ n \in Nat \ {0} /\ Len(contexts[w]) = n /\ contexts[w][n].at = Top(w).at
  BY TopFacts DEF Depth
<1>2. /\ \A v \in Workers \ {w} : contexts'[v] = contexts[v]
      /\ Len(contexts'[w]) = n - 1 /\ n - 1 \in Nat
      /\ \A i \in 1 .. n - 1 : contexts'[w][i] = contexts[w][i]
  BY ReturnFacts, TopFacts
<1> HIDE DEF n
<1>3. ASSUME NEW v \in Workers, NEW i \in Nat, NEW k \in Labels
      PROVE  <<v, i, k>> \in Marks' <=> <<v, i, k>> \in Marks \ {gone}
  <2>1. CASE v # w
    BY <1>2, <2>1, MarksIn
  <2>2. CASE v = w /\ i = n
    BY <1>1, <1>2, <2>2, MarksIn
  <2>3. CASE v = w /\ i # n
    <3>1. i \in 1 .. n <=> i \in 1 .. n - 1
      BY <1>1, <2>3
    <3> QED
      BY <1>1, <1>2, <2>3, <3>1, MarksIn
  <2> QED
    BY <2>1, <2>2, <2>3
<1>4. Marks \subseteq Workers \X Nat \X Labels /\ Marks' \subseteq Workers \X Nat \X Labels
  BY DEF Marks
<1>5. Marks' = Marks \ {gone}
  BY <1>3, <1>4
<1> QED
  BY <1>5 DEF n

\* What becomes of a count.
LEMMA SetsCount ==
    ASSUME ContextsInv, NEW w \in Workers, NEW c \in Contexts, Sets(w, c), NEW S
    PROVE  /\ IsFiniteSet(Marks') /\ Count(S) \in Nat /\ Cardinality(Marks' \cap S) \in Nat
           /\ Cardinality(Marks' \cap S) = Count(S) - (IF <<w, Depth(w), Top(w).at>> \in S THEN 1 ELSE 0)
                                                    + (IF <<w, Depth(w), c.at>> \in S THEN 1 ELSE 0)
<1> DEFINE x == <<w, Depth(w), Top(w).at>>
           y == <<w, Depth(w), c.at>>
           M == Marks \ {x}
<1>1. x \in Marks /\ IsFiniteSet(Marks) /\ Marks' = M \cup {y}
  BY MarkTop, SetsMarks DEF ContextsInv
<1>2. y \notin M
  BY TopFacts DEF Marks, Contexts
<1>4. Count(S) \in Nat
  BY <1>1, FS_Intersection, FS_CardinalityType DEF Count
<1> HIDE DEF x, y
<1>3. /\ IsFiniteSet(M) /\ Cardinality(M \cap S) \in Nat
      /\ Cardinality(M \cap S) = Cardinality(Marks \cap S) - (IF x \in S THEN 1 ELSE 0)
  BY <1>1, CountLess
<1> HIDE DEF M
<1>5. /\ IsFiniteSet(M \cup {y})
      /\ Cardinality((M \cup {y}) \cap S) = Cardinality(M \cap S) + (IF y \in S THEN 1 ELSE 0)
  BY <1>2, <1>3, CountMore
<1>6. /\ IsFiniteSet(Marks') /\ Cardinality(Marks' \cap S) \in Nat
      /\ Cardinality(Marks' \cap S) = Count(S) - (IF x \in S THEN 1 ELSE 0) + (IF y \in S THEN 1 ELSE 0)
  BY <1>1, <1>3, <1>4, <1>5 DEF Count
<1> QED
  BY <1>4, <1>6 DEF x, y

LEMMA CallCount ==
    ASSUME ContextsInv, NEW w \in Workers, NEW l \in Labels, Call(w, l), NEW S
    PROVE  /\ IsFiniteSet(Marks') /\ Count(S) \in Nat /\ Cardinality(Marks' \cap S) \in Nat
           /\ Cardinality(Marks' \cap S) = Count(S) - (IF <<w, Depth(w), Top(w).at>> \in S THEN 1 ELSE 0)
                                                    + (IF <<w, Depth(w), l>> \in S THEN 1 ELSE 0)
                                                    + (IF <<w, Depth(w) + 1, "run">> \in S THEN 1 ELSE 0)
<1> DEFINE x == <<w, Depth(w), Top(w).at>>
           y == <<w, Depth(w), l>>
           z == <<w, Depth(w) + 1, "run">>
           M == Marks \ {x}
           N == M \cup {y}
<1>1. x \in Marks /\ IsFiniteSet(Marks) /\ Marks' = N \cup {z}
  BY MarkTop, CallMarks DEF ContextsInv
<1>2. y \notin M
  BY TopFacts DEF Marks, Contexts
<1>2a. z \notin N
  BY TopFacts DEF Marks, Contexts, Depth
<1>4. Count(S) \in Nat
  BY <1>1, FS_Intersection, FS_CardinalityType DEF Count
<1> HIDE DEF N, x, y, z
<1>3. /\ IsFiniteSet(M) /\ Cardinality(M \cap S) \in Nat
      /\ Cardinality(M \cap S) = Cardinality(Marks \cap S) - (IF x \in S THEN 1 ELSE 0)
  BY <1>1, CountLess
<1> HIDE DEF M
<1>5a. N = M \cup {y}
  BY DEF N
<1>5. /\ IsFiniteSet(N) /\ Cardinality(N \cap S) \in Nat
      /\ Cardinality(N \cap S) = Cardinality(M \cap S) + (IF y \in S THEN 1 ELSE 0)
  <2>1. /\ IsFiniteSet(M \cup {y}) /\ Cardinality(M \cap S) \in Nat
        /\ Cardinality((M \cup {y}) \cap S) = Cardinality(M \cap S) + (IF y \in S THEN 1 ELSE 0)
    BY <1>2, <1>3, CountMore
  <2>2. Cardinality(M \cap S) + (IF y \in S THEN 1 ELSE 0) \in Nat
    BY <2>1
  <2> QED
    BY <1>5a, <2>1, <2>2
<1>6. /\ IsFiniteSet(N \cup {z})
      /\ Cardinality((N \cup {z}) \cap S) = Cardinality(N \cap S) + (IF z \in S THEN 1 ELSE 0)
  <2>1. IsFiniteSet(N) /\ z \notin N
    BY <1>2a, <1>5
  <2> QED
    BY <2>1, CountMore
<1>7. /\ IsFiniteSet(Marks') /\ Cardinality(Marks' \cap S) \in Nat
      /\ Cardinality(Marks' \cap S) = Count(S) - (IF x \in S THEN 1 ELSE 0) + (IF y \in S THEN 1 ELSE 0)
                                               + (IF z \in S THEN 1 ELSE 0)
  BY <1>1, <1>3, <1>4, <1>5, <1>6 DEF Count
<1> QED
  BY <1>4, <1>7 DEF x, y, z

LEMMA ReturnCount ==
    ASSUME ContextsInv, NEW w \in Workers, ~InBase(w), Returns(w), NEW S
    PROVE  /\ IsFiniteSet(Marks') /\ Count(S) \in Nat /\ Cardinality(Marks' \cap S) \in Nat
           /\ Cardinality(Marks' \cap S) = Count(S) - (IF <<w, Depth(w), Top(w).at>> \in S THEN 1 ELSE 0)
<1>1. /\ <<w, Depth(w), Top(w).at>> \in Marks /\ IsFiniteSet(Marks)
      /\ Marks' = Marks \ {<<w, Depth(w), Top(w).at>>}
  BY MarkTop, ReturnMarks DEF ContextsInv
<1>2. Count(S) \in Nat
  BY <1>1, FS_Intersection, FS_CardinalityType DEF Count
<1> QED
  BY <1>1, <1>2, CountLess DEF Count

LEMMA SetsContexts ==
    ASSUME ContextsInv, NEW w \in Workers, NEW c, Sets(w, c), Fits(w, c)
    PROVE  ContextsInv'
<1> DEFINE n == Depth(w)
<1>1. c \in Contexts
  BY DEF Fits
<1>2. /\ contexts' \in [Workers -> Seq(Contexts)]
      /\ \A v \in Workers \ {w} : contexts'[v] = contexts[v]
      /\ Len(contexts'[w]) = n /\ contexts'[w][n] = c
      /\ \A i \in 1 .. n - 1 : contexts'[w][i] = contexts[w][i]
      /\ Base'[w] = (IF n = 1 THEN c.at ELSE Base[w])
      /\ \A v \in Workers \ {w} : Base'[v] = Base[v]
  BY <1>1, SetsFacts
<1>3. n \in Nat \ {0} /\ Len(contexts[w]) = n /\ (InBase(w) <=> n = 1)
  BY TopFacts DEF Depth, InBase
<1>4. IsFiniteSet(Marks')
  BY <1>1, SetsCount
<1> HIDE DEF n
<1>5. /\ contexts'[w][1] = IF n = 1 THEN c ELSE contexts[w][1]
      /\ \A v \in Workers \ {w} : contexts'[v][1] = contexts[v][1]
  BY <1>2, <1>3
<1>6. \A v \in Workers : Len(contexts'[v]) # 0
  BY <1>2, <1>3 DEF ContextsInv
<1>7. /\ Base'[0] \in MainLabels
      /\ Base'[0] \in CallLabels => contexts'[0][1].scopes > 0
  BY <1>2, <1>3, <1>5, WorkersFinite DEF ContextsInv, Fits
<1>8. \A v \in Threads : Base'[v] \in ThreadLabels /\ contexts'[v][1].scopes = 0
  BY <1>2, <1>3, <1>5, WorkersFinite DEF ContextsInv, Fits, Threads
<1>9. ASSUME NEW v \in Workers, NEW i \in 2 .. Len(contexts'[v])
      PROVE  contexts'[v][i].at \in CodeLabels /\ (v = 0 => contexts'[v][i].at # "check_done")
  <2>1. CASE v # w
    BY <1>2, <2>1 DEF ContextsInv
  <2>2. CASE v = w /\ i = n
    BY <1>2, <1>3, <2>2 DEF Fits
  <2>3. CASE v = w /\ i # n
    <3>1. i \in 1 .. n - 1 /\ i \in 2 .. n
      BY <1>2, <1>3, <2>3
    <3> QED
      BY <1>2, <1>3, <2>3, <3>1 DEF ContextsInv
  <2> QED
    BY <2>1, <2>2, <2>3
<1>10. \A v \in Workers : \A i \in 1 .. Len(contexts'[v]) - 1 : contexts'[v][i].at \in {"created", "executed"}
  BY <1>2, <1>3 DEF ContextsInv
<1> QED
  BY <1>2, <1>4, <1>6, <1>7, <1>8, <1>9, <1>10 DEF ContextsInv

LEMMA CallContexts ==
    ASSUME ContextsInv, NEW w \in Workers, NEW l \in {"created", "executed"}, Call(w, l),
           Fits(w, [at |-> l, scopes |-> Top(w).scopes])
    PROVE  ContextsInv'
<1> DEFINE n == Depth(w)
           c == [at |-> l, scopes |-> Top(w).scopes]
<1>1. l \in Labels
  BY DEF Labels, MainLabels, CodeLabels, CallLabels
<1>2. /\ contexts' \in [Workers -> Seq(Contexts)]
      /\ \A v \in Workers \ {w} : contexts'[v] = contexts[v]
      /\ Len(contexts'[w]) = n + 1 /\ contexts'[w][n + 1] = Context("run") /\ contexts'[w][n] = c
      /\ \A i \in 1 .. n - 1 : contexts'[w][i] = contexts[w][i]
      /\ Base'[w] = (IF n = 1 THEN l ELSE Base[w])
      /\ \A v \in Workers \ {w} : Base'[v] = Base[v]
      /\ contexts'[w][1].scopes = contexts[w][1].scopes
  BY <1>1, CallFacts
<1>3. n \in Nat \ {0} /\ Len(contexts[w]) = n /\ (InBase(w) <=> n = 1)
  BY TopFacts DEF Depth, InBase
<1>4. IsFiniteSet(Marks')
  BY <1>1, CallCount
<1>5. c.at = l
  OBVIOUS
<1>6. n = 1 => c.scopes = contexts[w][1].scopes
  BY TopFacts
<1> HIDE DEF n, c
<1>7. \A v \in Workers \ {w} : contexts'[v][1] = contexts[v][1]
  BY <1>2
<1>8. \A v \in Workers : Len(contexts'[v]) # 0
  BY <1>2, <1>3 DEF ContextsInv
<1>9. /\ Base'[0] \in MainLabels
      /\ Base'[0] \in CallLabels => contexts'[0][1].scopes > 0
  BY <1>2, <1>3, <1>5, <1>6, <1>7, WorkersFinite DEF ContextsInv, Fits, c
<1>10. \A v \in Threads : Base'[v] \in ThreadLabels /\ contexts'[v][1].scopes = 0
  BY <1>2, <1>3, <1>5, <1>7, WorkersFinite DEF ContextsInv, Fits, Threads, c
<1>11. ASSUME NEW v \in Workers, NEW i \in 2 .. Len(contexts'[v])
       PROVE  contexts'[v][i].at \in CodeLabels /\ (v = 0 => contexts'[v][i].at # "check_done")
  <2>1. CASE v # w
    BY <1>2, <2>1 DEF ContextsInv
  <2>2. CASE v = w /\ i = n
    BY <1>2, <1>3, <1>5, <2>2 DEF Fits, c
  <2>3. CASE v = w /\ i = n + 1
    BY <1>2, <2>3 DEF Context, CodeLabels
  <2>4. CASE v = w /\ i # n /\ i # n + 1
    <3>1. i \in 1 .. n - 1 /\ i \in 2 .. n
      BY <1>2, <1>3, <2>4
    <3> QED
      BY <1>2, <1>3, <2>4, <3>1 DEF ContextsInv
  <2> QED
    BY <2>1, <2>2, <2>3, <2>4
<1>12. ASSUME NEW v \in Workers, NEW i \in 1 .. Len(contexts'[v]) - 1
       PROVE  contexts'[v][i].at \in {"created", "executed"}
  <2>1. CASE v # w
    BY <1>2, <2>1 DEF ContextsInv
  <2>2. CASE v = w /\ i = n
    BY <1>2, <1>5, <2>2
  <2>3. CASE v = w /\ i # n
    <3>1. i \in 1 .. n - 1
      BY <1>2, <1>3, <2>3
    <3> QED
      BY <1>2, <1>3, <2>3, <3>1 DEF ContextsInv
  <2> QED
    BY <2>1, <2>2, <2>3
<1> QED
  BY <1>2, <1>4, <1>8, <1>9, <1>10, <1>11, <1>12 DEF ContextsInv

LEMMA ReturnContexts ==
    ASSUME ContextsInv, NEW w \in Workers, ~InBase(w), Returns(w)
    PROVE  ContextsInv'
<1> DEFINE n == Depth(w)
<1>1. /\ contexts' \in [Workers -> Seq(Contexts)]
      /\ \A v \in Workers \ {w} : contexts'[v] = contexts[v]
      /\ n > 1 /\ Len(contexts'[w]) = n - 1
      /\ \A i \in 1 .. n - 1 : contexts'[w][i] = contexts[w][i]
      /\ \A v \in Workers : Base'[v] = Base[v]
      /\ contexts'[w][1] = contexts[w][1]
  BY ReturnFacts
<1>2. n \in Nat \ {0} /\ Len(contexts[w]) = n
  BY TopFacts DEF Depth
<1>3. IsFiniteSet(Marks')
  BY ReturnCount
<1> HIDE DEF n
<1>4. \A v \in Workers : contexts'[v][1] = contexts[v][1] /\ Len(contexts'[v]) # 0
  BY <1>1, <1>2 DEF ContextsInv
<1>5. \A v \in Workers : \A i \in 1 .. Len(contexts'[v]) :
        /\ contexts'[v][i] = contexts[v][i] /\ i \in 1 .. Len(contexts[v])
        /\ i \in 1 .. Len(contexts'[v]) - 1 => i \in 1 .. Len(contexts[v]) - 1
  BY <1>1, <1>2
<1>6. \A v \in Workers : \A i \in 2 .. Len(contexts'[v]) :
            contexts'[v][i].at \in CodeLabels /\ (v = 0 => contexts'[v][i].at # "check_done")
  <2> TAKE v \in Workers
  <2> TAKE i \in 2 .. Len(contexts'[v])
  <2>1. CASE v = w
    <3>1. i \in 1 .. n - 1 /\ i \in 2 .. Len(contexts[w])
      BY <1>1, <1>2, <2>1
    <3> QED
      BY <1>1, <2>1, <3>1 DEF ContextsInv
  <2>2. CASE v # w
    BY <1>1, <2>2 DEF ContextsInv
  <2> QED
    BY <2>1, <2>2
<1>7. \A v \in Workers : \A i \in 1 .. Len(contexts'[v]) - 1 : contexts'[v][i].at \in {"created", "executed"}
  <2> TAKE v \in Workers
  <2> TAKE i \in 1 .. Len(contexts'[v]) - 1
  <2>1. CASE v = w
    <3>1. i \in 1 .. n - 1 /\ i \in 1 .. Len(contexts[w]) - 1
      BY <1>1, <1>2, <2>1
    <3> QED
      BY <1>1, <2>1, <3>1 DEF ContextsInv
  <2>2. CASE v # w
    BY <1>1, <2>2 DEF ContextsInv
  <2> QED
    BY <2>1, <2>2
<1> QED
  BY <1>1, <1>3, <1>4, <1>6, <1>7, WorkersFinite DEF ContextsInv

\* What becomes of the open scopes.
LEMMA ScopesIn ==
    ASSUME NEW v \in Workers, NEW i \in Nat, NEW k \in Nat
    PROVE  /\ <<v, i, k>> \in OpenScopes <=> i \in 1 .. Len(contexts[v]) /\ k \in 1 .. contexts[v][i].scopes
           /\ <<v, i, k>> \in OpenScopes' <=> i \in 1 .. Len(contexts'[v]) /\ k \in 1 .. contexts'[v][i].scopes
BY DEF OpenScopes

LEMMA SetsScopes ==
    ASSUME ContextsInv, NEW w \in Workers, NEW c \in Contexts, Sets(w, c)
    PROVE  LET n == Depth(w)
               s == Top(w).scopes
           IN  /\ c.scopes = s => OpenScopes' = OpenScopes
               /\ c.scopes = s + 1 =>
                    OpenScopes' = OpenScopes \cup {<<w, n, s + 1>>} /\ <<w, n, s + 1>> \notin OpenScopes
               /\ s > 0 /\ c.scopes = s - 1 =>
                    OpenScopes' = OpenScopes \ {<<w, n, s>>} /\ <<w, n, s>> \in OpenScopes
<1> DEFINE n == Depth(w)
           s == Top(w).scopes
<1>1. /\ n \in Nat \ {0} /\ Len(contexts[w]) = n /\ contexts[w][n].scopes = s /\ s \in Nat
      /\ c.scopes \in Nat
  BY TopFacts DEF Contexts, Depth
<1>2. /\ \A v \in Workers \ {w} : contexts'[v] = contexts[v]
      /\ Len(contexts'[w]) = n /\ contexts'[w][n] = c
      /\ \A i \in 1 .. n - 1 : contexts'[w][i] = contexts[w][i]
  BY SetsFacts
<1> HIDE DEF n, s
<1>3. ASSUME NEW v \in Workers, NEW i \in Nat, NEW k \in Nat, ~(v = w /\ i = n)
      PROVE  <<v, i, k>> \in OpenScopes' <=> <<v, i, k>> \in OpenScopes
  <2>1. CASE v # w
    BY <1>2, <2>1, ScopesIn
  <2>2. CASE v = w /\ i # n
    <3>1. i \in 1 .. n => i \in 1 .. n - 1
      BY <1>1, <2>2
    <3> QED
      BY <1>1, <1>2, <2>2, <3>1, ScopesIn
  <2> QED
    BY <1>3, <2>1, <2>2
<1>4. ASSUME NEW k \in Nat
      PROVE  /\ <<w, n, k>> \in OpenScopes <=> k \in 1 .. s
             /\ <<w, n, k>> \in OpenScopes' <=> k \in 1 .. c.scopes
  BY <1>1, <1>2, ScopesIn
<1>5. OpenScopes \subseteq Workers \X Nat \X Nat /\ OpenScopes' \subseteq Workers \X Nat \X Nat
  BY DEF OpenScopes
<1>6. ASSUME c.scopes = s PROVE OpenScopes' = OpenScopes
  <2>1. ASSUME NEW v \in Workers, NEW i \in Nat, NEW k \in Nat
        PROVE  <<v, i, k>> \in OpenScopes' <=> <<v, i, k>> \in OpenScopes
    BY <1>3, <1>4, <1>6
  <2> QED
    BY <1>5, <2>1
<1>7. ASSUME c.scopes = s + 1
      PROVE  OpenScopes' = OpenScopes \cup {<<w, n, s + 1>>} /\ <<w, n, s + 1>> \notin OpenScopes
  <2>1. ASSUME NEW v \in Workers, NEW i \in Nat, NEW k \in Nat
        PROVE  <<v, i, k>> \in OpenScopes' <=> <<v, i, k>> \in OpenScopes \cup {<<w, n, s + 1>>}
    <3>1. CASE v = w /\ i = n
      <4>1. k \in 1 .. s + 1 <=> k \in 1 .. s \/ k = s + 1
        BY <1>1
      <4> QED
        BY <1>4, <1>7, <3>1, <4>1
    <3>2. CASE ~(v = w /\ i = n)
      BY <1>3, <3>2
    <3> QED
      BY <3>1, <3>2
  <2>2. <<w, n, s + 1>> \in Workers \X Nat \X Nat /\ ~(s + 1 \in 1 .. s)
    BY <1>1
  <2> QED
    BY <1>1, <1>4, <1>5, <2>1, <2>2
<1>8. ASSUME s > 0, c.scopes = s - 1
      PROVE  OpenScopes' = OpenScopes \ {<<w, n, s>>} /\ <<w, n, s>> \in OpenScopes
  <2>1. ASSUME NEW v \in Workers, NEW i \in Nat, NEW k \in Nat
        PROVE  <<v, i, k>> \in OpenScopes' <=> <<v, i, k>> \in OpenScopes \ {<<w, n, s>>}
    <3>1. CASE v = w /\ i = n
      <4>1. k \in 1 .. s - 1 <=> k \in 1 .. s /\ k # s
        BY <1>1
      <4> QED
        BY <1>4, <1>8, <3>1, <4>1
    <3>2. CASE ~(v = w /\ i = n)
      BY <1>3, <3>2
    <3> QED
      BY <3>1, <3>2
  <2>2. s \in 1 .. s
    BY <1>1, <1>8
  <2> QED
    BY <1>1, <1>4, <1>5, <2>1, <2>2
<1> QED
  BY <1>6, <1>7, <1>8 DEF n, s

LEMMA CallScopes ==
    ASSUME ContextsInv, NEW w \in Workers, NEW l \in Labels, Call(w, l)
    PROVE  OpenScopes' = OpenScopes
<1> DEFINE n == Depth(w)
<1>1. n \in Nat \ {0} /\ Len(contexts[w]) = n /\ contexts[w][n].scopes = Top(w).scopes
  BY TopFacts DEF Depth
<1>2. /\ \A v \in Workers \ {w} : contexts'[v] = contexts[v]
      /\ Len(contexts'[w]) = n + 1 /\ contexts'[w][n + 1] = Context("run")
      /\ contexts'[w][n] = [at |-> l, scopes |-> Top(w).scopes]
      /\ \A i \in 1 .. n - 1 : contexts'[w][i] = contexts[w][i]
  BY CallFacts
<1> HIDE DEF n
<1>3. ASSUME NEW v \in Workers, NEW i \in Nat, NEW k \in Nat
      PROVE  <<v, i, k>> \in OpenScopes' <=> <<v, i, k>> \in OpenScopes
  <2>1. CASE v # w
    BY <1>2, <2>1, ScopesIn
  <2>2. CASE v = w /\ i = n
    BY <1>1, <1>2, <2>2, ScopesIn
  <2>3. CASE v = w /\ i = n + 1
    <3>1. contexts'[w][i].scopes = 0 /\ i \notin 1 .. Len(contexts[w])
      BY <1>1, <1>2, <2>3 DEF Context
    <3> QED
      BY <2>3, <3>1, ScopesIn
  <2>4. CASE v = w /\ i # n /\ i # n + 1
    <3>1. (i \in 1 .. n + 1 <=> i \in 1 .. n) /\ (i \in 1 .. n => i \in 1 .. n - 1)
      BY <1>1, <2>4
    <3> QED
      BY <1>1, <1>2, <2>4, <3>1, ScopesIn
  <2> QED
    BY <2>1, <2>2, <2>3, <2>4
<1>4. OpenScopes \subseteq Workers \X Nat \X Nat /\ OpenScopes' \subseteq Workers \X Nat \X Nat
  BY DEF OpenScopes
<1> QED
  BY <1>3, <1>4

LEMMA ReturnScopes ==
    ASSUME ContextsInv, NEW w \in Workers, ~InBase(w), Returns(w), Top(w).scopes = 0
    PROVE  OpenScopes' = OpenScopes
<1> DEFINE n == Depth(w)
<1>1. n \in Nat \ {0} /\ Len(contexts[w]) = n /\ contexts[w][n].scopes = 0
  BY TopFacts DEF Depth
<1>2. /\ \A v \in Workers \ {w} : contexts'[v] = contexts[v]
      /\ Len(contexts'[w]) = n - 1
      /\ \A i \in 1 .. n - 1 : contexts'[w][i] = contexts[w][i]
  BY ReturnFacts
<1> HIDE DEF n
<1>3. ASSUME NEW v \in Workers, NEW i \in Nat, NEW k \in Nat
      PROVE  <<v, i, k>> \in OpenScopes' <=> <<v, i, k>> \in OpenScopes
  <2>1. CASE v # w
    BY <1>2, <2>1, ScopesIn
  <2>2. CASE v = w /\ i = n
    <3>1. i \notin 1 .. n - 1 /\ k \notin 1 .. 0
      BY <1>1, <2>2
    <3> QED
      BY <1>1, <1>2, <2>2, <3>1, ScopesIn
  <2>3. CASE v = w /\ i # n
    <3>1. i \in 1 .. n <=> i \in 1 .. n - 1
      BY <1>1, <2>3
    <3> QED
      BY <1>1, <1>2, <2>3, <3>1, ScopesIn
  <2> QED
    BY <2>1, <2>2, <2>3
<1>4. OpenScopes \subseteq Workers \X Nat \X Nat /\ OpenScopes' \subseteq Workers \X Nat \X Nat
  BY DEF OpenScopes
<1> QED
  BY <1>3, <1>4
-----------------------------------------------------------------------------
(* What the steps do to the contexts *)

\* Where a worker stands fits: below is its loop or the main program, above are tasks.
LEMMA TopFits ==
    ASSUME ContextsInv, NEW w \in Workers
    PROVE  /\ Fits(w, Top(w)) /\ Top(w).at \in Labels /\ Top(w).scopes \in Nat
           /\ InBase(w) => Base[w] = Top(w).at /\ contexts[w][1] = Top(w)
           /\ ~InBase(w) => /\ Base[w] \in {"created", "executed"}
                            /\ w # 0 => Base[w] = "executed"
           /\ InBase(w) <=> Depth(w) = 1
<1>1. /\ Depth(w) \in Nat \ {0} /\ Top(w) = contexts[w][Depth(w)] /\ Top(w) \in Contexts
      /\ Base[w] = contexts[w][1].at /\ (InBase(w) <=> Depth(w) = 1) /\ Depth(w) = Len(contexts[w])
  BY TopFacts DEF InBase, Depth
<1>2. Top(w).at \in Labels /\ Top(w).scopes \in Nat
  BY <1>1 DEF Contexts
<1>3. ASSUME InBase(w) PROVE Fits(w, Top(w)) /\ Base[w] = Top(w).at /\ contexts[w][1] = Top(w)
  BY <1>1, <1>3 DEF Fits, ContextsInv, Threads
<1>4. ASSUME ~InBase(w)
      PROVE  Fits(w, Top(w)) /\ Base[w] \in {"created", "executed"} /\ (w # 0 => Base[w] = "executed")
  <2>1. Depth(w) \in 2 .. Len(contexts[w]) /\ 1 \in 1 .. Len(contexts[w]) - 1
    <3>1. \A n \in Nat \ {0} : n # 1 => n \in 2 .. n /\ 1 \in 1 .. n - 1
      OBVIOUS
    <3> QED
      BY <1>1, <1>4, <3>1
  <2>2. Fits(w, Top(w))
    BY <1>1, <1>4, <2>1 DEF Fits, ContextsInv
  <2>3. Base[w] \in {"created", "executed"}
    BY <1>1, <2>1 DEF ContextsInv
  <2>4. w # 0 => Base[w] # "created"
    BY DEF ContextsInv, Threads, ThreadLabels, UnbornLabels, LoopLabels
  <2> QED
    BY <2>2, <2>3, <2>4
<1> QED
  BY <1>1, <1>2, <1>3, <1>4

\* What changes when only one worker's top context does, and when nothing does.
Others(w) == \A v \in Workers \ {w} : Top(v)' = Top(v) /\ Base'[v] = Base[v] /\ contexts'[v] = contexts[v]
One(P) == IF P THEN 1 ELSE 0

LEMMA SetsAll ==
    ASSUME ContextsInv, NEW w \in Workers, NEW c, Sets(w, c), Fits(w, c)
    PROVE  /\ ContextsInv' /\ Others(w) /\ Top(w)' = c
           /\ Base'[w] = (IF InBase(w) THEN c.at ELSE Base[w])
           /\ contexts'[w][1].scopes = (IF InBase(w) THEN c.scopes ELSE contexts[w][1].scopes)
           /\ Count(Executing) \in Nat /\ Count(Holding) \in Nat /\ Count(Tasks) \in Nat
           /\ Count(Executing)' = Count(Executing) - One(Top(w).at = "executed") + One(c.at = "executed")
           /\ Count(Holding)' = Count(Holding) - One(Top(w).at \in {"create", "popped"})
                                               + One(c.at \in {"create", "popped"})
           /\ Count(Tasks)' = Count(Tasks)
<1>1. c \in Contexts /\ c.at \in Labels /\ Top(w).at \in Labels
  BY TopFits DEF Fits, Contexts
<1>2. ContextsInv'
  BY SetsContexts
<1>3. /\ Others(w) /\ Top(w)' = c /\ Base'[w] = (IF Depth(w) = 1 THEN c.at ELSE Base[w])
      /\ contexts'[w][Depth(w)] = c /\ \A i \in 1 .. Depth(w) - 1 : contexts'[w][i] = contexts[w][i]
  BY <1>1, SetsFacts DEF Others
<1>4. (InBase(w) <=> Depth(w) = 1) /\ Depth(w) \in Nat \ {0}
  BY TopFits, TopFacts
<1>5. contexts'[w][1].scopes = (IF InBase(w) THEN c.scopes ELSE contexts[w][1].scopes)
  BY <1>3, <1>4
<1>6. \A l \in Labels : /\ <<w, Depth(w), l>> \in Executing <=> l = "executed"
                        /\ <<w, Depth(w), l>> \in Holding <=> l \in {"create", "popped"}
                        /\ <<w, Depth(w), l>> \in Tasks <=> Depth(w) # 1
  BY <1>4 DEF Executing, Holding, Tasks
<1>7. /\ Count(Executing) \in Nat /\ Count(Holding) \in Nat /\ Count(Tasks) \in Nat
  BY <1>1, SetsCount
<1>8. Count(Executing)' = Count(Executing) - One(Top(w).at = "executed") + One(c.at = "executed")
  <2>1. Cardinality(Marks' \cap Executing) = Count(Executing)
            - (IF <<w, Depth(w), Top(w).at>> \in Executing THEN 1 ELSE 0)
            + (IF <<w, Depth(w), c.at>> \in Executing THEN 1 ELSE 0)
    BY <1>1, SetsCount
  <2>2. Count(Executing)' = Cardinality(Marks' \cap Executing)
    BY DEF Count, Executing
  <2> QED
    BY <1>1, <1>6, <2>1, <2>2 DEF One
<1>9. Count(Holding)' = Count(Holding) - One(Top(w).at \in {"create", "popped"})
                                       + One(c.at \in {"create", "popped"})
  <2>1. Cardinality(Marks' \cap Holding) = Count(Holding)
            - (IF <<w, Depth(w), Top(w).at>> \in Holding THEN 1 ELSE 0)
            + (IF <<w, Depth(w), c.at>> \in Holding THEN 1 ELSE 0)
    BY <1>1, SetsCount
  <2>2. Count(Holding)' = Cardinality(Marks' \cap Holding)
    BY DEF Count, Holding
  <2> QED
    BY <1>1, <1>6, <2>1, <2>2 DEF One
<1>10. Count(Tasks)' = Count(Tasks)
  <2>1. Cardinality(Marks' \cap Tasks) = Count(Tasks)
            - (IF <<w, Depth(w), Top(w).at>> \in Tasks THEN 1 ELSE 0)
            + (IF <<w, Depth(w), c.at>> \in Tasks THEN 1 ELSE 0)
    BY <1>1, SetsCount
  <2>2. Count(Tasks)' = Cardinality(Marks' \cap Tasks)
    BY DEF Count, Tasks
  <2>3. <<w, Depth(w), Top(w).at>> \in Tasks <=> <<w, Depth(w), c.at>> \in Tasks
    BY <1>1, <1>6
  <2>4. \A m, d \in Nat : (m - d) + d = m
    OBVIOUS
  <2> QED
    BY <1>7, <2>1, <2>2, <2>3, <2>4
<1> QED
  BY <1>2, <1>3, <1>4, <1>5, <1>7, <1>8, <1>9, <1>10

Put(w, l) == [at |-> l, scopes |-> Top(w).scopes]

LEMMA GotoAll ==
    ASSUME ContextsInv, NEW w \in Workers, NEW l \in Labels, Goto(w, l), Fits(w, Put(w, l))
    PROVE  /\ ContextsInv' /\ Others(w) /\ Top(w)' = Put(w, l)
           /\ Base'[w] = (IF InBase(w) THEN l ELSE Base[w])
           /\ contexts'[w][1].scopes = contexts[w][1].scopes /\ OpenScopes' = OpenScopes
           /\ Count(Executing) \in Nat /\ Count(Holding) \in Nat /\ Count(Tasks) \in Nat
           /\ Count(Executing)' = Count(Executing) - One(Top(w).at = "executed") + One(l = "executed")
           /\ Count(Holding)' = Count(Holding) - One(Top(w).at \in {"create", "popped"})
                                               + One(l \in {"create", "popped"})
           /\ Count(Tasks)' = Count(Tasks)
<1> DEFINE c == Put(w, l)
<1>1. c \in Contexts /\ Sets(w, c) /\ c.at = l /\ c.scopes = Top(w).scopes
  BY GotoSets DEF Put
<1>2. InBase(w) => contexts[w][1] = Top(w)
  BY TopFits
<1> HIDE DEF c
<1>3. Fits(w, c) /\ OpenScopes' = OpenScopes
  BY <1>1, SetsScopes DEF c
<1>4. /\ ContextsInv' /\ Others(w) /\ Top(w)' = c
      /\ Base'[w] = (IF InBase(w) THEN c.at ELSE Base[w])
      /\ contexts'[w][1].scopes = (IF InBase(w) THEN c.scopes ELSE contexts[w][1].scopes)
      /\ Count(Executing) \in Nat /\ Count(Holding) \in Nat /\ Count(Tasks) \in Nat
      /\ Count(Executing)' = Count(Executing) - One(Top(w).at = "executed") + One(c.at = "executed")
      /\ Count(Holding)' = Count(Holding) - One(Top(w).at \in {"create", "popped"})
                                          + One(c.at \in {"create", "popped"})
      /\ Count(Tasks)' = Count(Tasks)
  BY <1>1, <1>3, SetsAll
<1>5. contexts'[w][1].scopes = contexts[w][1].scopes
  BY <1>1, <1>2, <1>4
<1> QED
  BY <1>1, <1>3, <1>4, <1>5 DEF c

LEMMA CallAll ==
    ASSUME ContextsInv, NEW w \in Workers, NEW l \in {"created", "executed"}, Call(w, l), Fits(w, Put(w, l))
    PROVE  /\ ContextsInv' /\ Others(w) /\ Top(w)' = Context("run")
           /\ Base'[w] = (IF InBase(w) THEN l ELSE Base[w])
           /\ contexts'[w][1].scopes = contexts[w][1].scopes /\ OpenScopes' = OpenScopes
           /\ Count(Executing) \in Nat /\ Count(Holding) \in Nat /\ Count(Tasks) \in Nat
           /\ Count(Executing)' = Count(Executing) - One(Top(w).at = "executed") + One(l = "executed")
           /\ Count(Holding)' = Count(Holding) - One(Top(w).at \in {"create", "popped"})
           /\ Count(Tasks)' = Count(Tasks) + 1
<1>1. l \in Labels /\ Top(w).at \in Labels /\ "run" \in Labels
  BY TopFits DEF Labels, MainLabels, CodeLabels, CallLabels
<1>2. ContextsInv'
  BY CallContexts DEF Put
<1>3. /\ Others(w) /\ Top(w)' = Context("run") /\ Base'[w] = (IF Depth(w) = 1 THEN l ELSE Base[w])
      /\ contexts'[w][1].scopes = contexts[w][1].scopes /\ OpenScopes' = OpenScopes
  BY <1>1, CallFacts, CallScopes DEF Others
<1>4. (InBase(w) <=> Depth(w) = 1) /\ Depth(w) \in Nat \ {0}
  BY TopFits, TopFacts
<1>5. \A i \in {Depth(w), Depth(w) + 1}, k \in Labels :
        /\ <<w, i, k>> \in Executing <=> k = "executed"
        /\ <<w, i, k>> \in Holding <=> k \in {"create", "popped"}
        /\ <<w, i, k>> \in Tasks <=> i # 1
  BY <1>4 DEF Executing, Holding, Tasks
<1>6. /\ Count(Executing) \in Nat /\ Count(Holding) \in Nat /\ Count(Tasks) \in Nat
  BY <1>1, CallCount
<1>7. /\ Count(Executing)' = Cardinality(Marks' \cap Executing)
      /\ Count(Holding)' = Cardinality(Marks' \cap Holding)
      /\ Count(Tasks)' = Cardinality(Marks' \cap Tasks)
  BY DEF Count, Executing, Holding, Tasks
<1>8. ASSUME NEW S
      PROVE  Cardinality(Marks' \cap S) = Count(S) - (IF <<w, Depth(w), Top(w).at>> \in S THEN 1 ELSE 0)
                                                   + (IF <<w, Depth(w), l>> \in S THEN 1 ELSE 0)
                                                   + (IF <<w, Depth(w) + 1, "run">> \in S THEN 1 ELSE 0)
  BY <1>1, CallCount
<1>9. Count(Executing)' = Count(Executing) - One(Top(w).at = "executed") + One(l = "executed")
  <2>1. Cardinality(Marks' \cap Executing) = Count(Executing) - One(Top(w).at = "executed")
                                                + One(l = "executed") + 0
    BY <1>1, <1>5, <1>8 DEF One
  <2> QED
    BY <1>6, <1>7, <2>1 DEF One
<1>10. Count(Holding)' = Count(Holding) - One(Top(w).at \in {"create", "popped"})
  <2>1. Cardinality(Marks' \cap Holding) = Count(Holding) - One(Top(w).at \in {"create", "popped"}) + 0 + 0
    BY <1>1, <1>5, <1>8 DEF One
  <2> QED
    BY <1>6, <1>7, <2>1 DEF One
<1>11. Count(Tasks)' = Count(Tasks) + 1
  <2>1. /\ <<w, Depth(w), Top(w).at>> \in Tasks <=> <<w, Depth(w), l>> \in Tasks
        /\ <<w, Depth(w) + 1, "run">> \in Tasks
    <3>1. /\ <<w, Depth(w), Top(w).at>> \in Tasks <=> Depth(w) # 1
          /\ <<w, Depth(w), l>> \in Tasks <=> Depth(w) # 1
          /\ <<w, Depth(w) + 1, "run">> \in Tasks <=> Depth(w) + 1 # 1
      BY <1>1, <1>5
    <3> QED
      BY <1>4, <3>1
  <2>2. Cardinality(Marks' \cap Tasks) = Count(Tasks) - One(<<w, Depth(w), l>> \in Tasks)
                                            + One(<<w, Depth(w), l>> \in Tasks) + 1
    BY <1>8, <2>1 DEF One
  <2>3. \A m \in Nat, d \in {0, 1} : m - d + d + 1 = m + 1
    OBVIOUS
  <2>4. One(<<w, Depth(w), l>> \in Tasks) \in {0, 1}
    BY DEF One
  <2> QED
    BY <1>6, <1>7, <2>2, <2>3, <2>4
<1> QED
  BY <1>2, <1>3, <1>4, <1>6, <1>9, <1>10, <1>11

LEMMA ReturnAll ==
    ASSUME ContextsInv, NEW w \in Workers, ~InBase(w), Returns(w), Top(w) = Context("run")
    PROVE  /\ ContextsInv' /\ Others(w)
           /\ Top(w)'.at \in {"created", "executed"}
           /\ Base'[w] = Base[w]
           /\ contexts'[w][1].scopes = contexts[w][1].scopes /\ OpenScopes' = OpenScopes
           /\ Count(Executing) \in Nat /\ Count(Holding) \in Nat /\ Count(Tasks) \in Nat
           /\ Count(Executing)' = Count(Executing) /\ Count(Holding)' = Count(Holding)
           /\ Count(Tasks)' = Count(Tasks) - 1
<1>1. ContextsInv'
  BY ReturnContexts
<1>2. Top(w).at = "run" /\ Top(w).scopes = 0
  BY DEF Context
<1>3. /\ Others(w) /\ Base'[w] = Base[w] /\ Depth(w) > 1 /\ Depth(w) \in Nat
      /\ Top(w)' = contexts[w][Depth(w) - 1]
      /\ contexts'[w][1].scopes = contexts[w][1].scopes /\ OpenScopes' = OpenScopes
  BY <1>2, ReturnFacts, ReturnScopes, TopFacts DEF Others
<1>4. Top(w)'.at \in {"created", "executed"}
  <2>1. Depth(w) - 1 \in 1 .. Len(contexts[w]) - 1
    BY <1>3 DEF Depth
  <2> QED
    BY <1>3, <2>1 DEF ContextsInv
<1>5. /\ <<w, Depth(w), "run">> \notin Executing /\ <<w, Depth(w), "run">> \notin Holding
      /\ <<w, Depth(w), "run">> \in Tasks
  BY <1>3 DEF Executing, Holding, Tasks, Labels, MainLabels, CodeLabels
<1>6. /\ Count(Executing)' = Cardinality(Marks' \cap Executing)
      /\ Count(Holding)' = Cardinality(Marks' \cap Holding)
      /\ Count(Tasks)' = Cardinality(Marks' \cap Tasks)
  BY DEF Count, Executing, Holding, Tasks
<1>7. ASSUME NEW S
      PROVE  /\ Count(S) \in Nat
             /\ Cardinality(Marks' \cap S) = Count(S) - (IF <<w, Depth(w), Top(w).at>> \in S THEN 1 ELSE 0)
  BY ReturnCount
<1>8. /\ Count(Executing) \in Nat /\ Count(Holding) \in Nat /\ Count(Tasks) \in Nat
  BY <1>7
<1>9. /\ Cardinality(Marks' \cap Executing) = Count(Executing) - 0
      /\ Cardinality(Marks' \cap Holding) = Count(Holding) - 0
      /\ Cardinality(Marks' \cap Tasks) = Count(Tasks) - 1
  BY <1>2, <1>5, <1>7
<1>10. /\ Count(Executing)' = Count(Executing) /\ Count(Holding)' = Count(Holding)
       /\ Count(Tasks)' = Count(Tasks) - 1
  BY <1>6, <1>8, <1>9
<1> QED
  BY <1>1, <1>3, <1>4, <1>8, <1>10

\* Who is counted.
LEMMA Counted ==
    ASSUME ContextsInv, NEW w \in Workers
    PROVE  /\ Count(Executing) \in Nat /\ Count(Holding) \in Nat /\ Count(Tasks) \in Nat
           /\ ~InBase(w) => Count(Tasks) > 0
           /\ Top(w).at \in {"create", "popped"} => Count(Holding) > 0
           /\ Base[w] = "executed" => Count(Executing) > 0
<1>1. /\ \A S : IsFiniteSet(Marks \cap S)
      /\ \A S : Cardinality(Marks \cap S) \in Nat
  <2>1. IsFiniteSet(Marks)
    BY DEF ContextsInv
  <2>2. ASSUME NEW S PROVE IsFiniteSet(Marks \cap S)
    BY <2>1, FS_Intersection
  <2> QED
    BY <2>2, FS_CardinalityType
<1>2. ASSUME NEW S, NEW x \in Marks, x \in S PROVE Cardinality(Marks \cap S) > 0
  <2>1. IsFiniteSet(Marks \cap S) /\ Marks \cap S # {} /\ Cardinality(Marks \cap S) \in Nat
    BY <1>1, <1>2
  <2>2. Cardinality(Marks \cap S) # 0
    BY <2>1, FS_EmptySet
  <2> QED
    BY <2>1, <2>2
<1>3. /\ Depth(w) \in Nat \ {0} /\ (InBase(w) <=> Depth(w) = 1) /\ Top(w).at \in Labels
      /\ <<w, Depth(w), Top(w).at>> \in Marks
  BY TopFits, TopFacts, MarkTop
<1>4. ~InBase(w) => <<w, Depth(w), Top(w).at>> \in Tasks
  BY <1>3 DEF Tasks
<1>5. Top(w).at \in {"create", "popped"} => <<w, Depth(w), Top(w).at>> \in Holding
  BY <1>3 DEF Holding
<1>6. Base[w] = "executed" => <<w, 1, "executed">> \in Marks /\ <<w, 1, "executed">> \in Executing
  BY <1>3, TopFacts DEF Marks, Executing, Labels, ThreadLabels, LoopLabels, Depth
<1> QED
  BY <1>1, <1>2, <1>3, <1>4, <1>5, <1>6 DEF Count

CodeStep(w) == UserStep(w) \/ TaskStep(w)

\* Code runs in a runtime that is complete, and that of the main program not in atexit.
LEMMA CodeRuns ==
    ASSUME ContextsInv, PlaceInv, BusyInv, NEW w \in Workers,
           InUser(w) \/ Top(w).at \in CallLabels \cup {"reread"}
             \/ (Top(w).at = "loop" /\ g_num_tasks_waiting > 0)
    PROVE  /\ Base[0] \notin CreateLabels /\ runtime.up
           /\ w # 0 => Base[w] \in LoopLabels
           /\ w = 0 => Base[0] \in CodeLabels
           /\ w = 0 /\ Top(w).at # "reread" => ~exiting
<1>1. /\ Fits(w, Top(w))
      /\ InBase(w) => Base[w] = Top(w).at
      /\ ~InBase(w) => Base[w] \in {"created", "executed"} /\ (w # 0 => Base[w] = "executed")
  BY TopFits
<1>2. Top(w).at \in CodeLabels \cup {"loop"}
  BY DEF InUser, CodeLabels
<1>3. ASSUME w = 0 PROVE /\ Base[0] \notin CreateLabels /\ runtime.up /\ Base[0] \in CodeLabels
                         /\ Top(w).at # "reread" => ~exiting
  <2>1. CASE InBase(w)
    <3>1. Base[0] \in CodeLabels \ {"check_done"} /\ Base[0] = Top(w).at
      BY <1>1, <1>2, <1>3, <2>1
         DEF Fits, MainLabels, CreateLabels, TailLabels, KillLabels, CodeLabels, CallLabels, InUser
    <3>2. Base[0] # "run" => runtime.up
      BY <3>1 DEF PlaceInv, CodeLabels, CallLabels
    <3>3. Base[0] = "run" => runtime.up
      BY <3>1 DEF InUser, CallLabels
    <3> QED
      BY <3>1, <3>2, <3>3 DEF PlaceInv, CodeLabels, CallLabels, CreateLabels, TailLabels, KillLabels
  <2>2. CASE ~InBase(w)
    BY <1>1, <1>3, <2>2 DEF PlaceInv, CodeLabels, CallLabels, CreateLabels, TailLabels, KillLabels
  <2> QED
    BY <2>1, <2>2
<1>4. ASSUME w # 0 PROVE Base[0] \notin CreateLabels /\ runtime.up /\ Base[w] \in LoopLabels
  <2>0. w \in Threads
    BY <1>4 DEF Threads
  <2>1. CASE Base[w] \in {"popped", "executed"}
    <3>1. w \in At({"popped", "executed"})
      BY <2>0, <2>1 DEF At
    <3> QED
      BY <2>1, <3>1 DEF BusyInv, LoopLabels
  <2>2. CASE InBase(w) /\ Base[w] \notin {"popped", "executed"}
    <3>1. Base[w] = "loop" /\ Top(w).at = "loop"
      BY <1>1, <1>2, <1>4, <2>2 DEF Fits, ThreadLabels, UnbornLabels, LoopLabels, CodeLabels, CallLabels
    <3>2. g_num_tasks_waiting > 0
      BY <3>1 DEF InUser, CallLabels
    <3> QED
      BY <3>1, <3>2 DEF BusyInv, LoopLabels
  <2> QED
    BY <1>1, <1>4, <2>1, <2>2
<1> QED
  BY <1>3, <1>4

\* What a step of code keeps: everyone else's place, and what the counters count.
Balance == (created - finished) - (g_num_tasks_waiting + Count(Holding) + Count(Tasks))
Keeps(w) ==
    /\ ContextsInv' /\ Others(w)
    /\ Top(w)'.at \notin {"check_done"} \cup TailLabels
    /\ w = 0 => Base'[0] \in CodeLabels
    /\ w # 0 => Base'[w] = Base[w] \/ Base'[w] \in LoopLabels
    /\ g_num_tasks_waiting' \in Nat /\ created' \in 0 .. MaxTasks /\ finished' \in Nat
    /\ g_worker_status_board' = Count(Executing)'
    /\ Balance' = Balance
    /\ g_worker_status_board' - (Count(Tasks)' + finished') <= g_worker_status_board - (Count(Tasks) + finished)
    /\ (created' = created /\ finished' = finished) \/ ~InBase(w) \/ (w = 0 /\ contexts[0][1].scopes > 0)

\* The arithmetic of it: tasks are created, taken, executed and end.
LEMMA Sums ==
    ASSUME NEW c \in Nat, NEW f \in Nat, NEW q \in Nat, NEW h \in Nat, NEW t \in Nat, NEW b \in Nat
    PROVE  /\ ((c + 1) - f) - (q + (h + 1) + t) = (c - f) - (q + h + t)
           /\ (c - f) - ((q + 1) + (h - 1) + t) = (c - f) - (q + h + t)
           /\ (c - f) - (q + (h - 1) + (t + 1)) = (c - f) - (q + h + t)
           /\ (c - f) - ((q - 1) + (h + 1) + t) = (c - f) - (q + h + t)
           /\ (c - (f + 1)) - (q + h + (t - 1)) = (c - f) - (q + h + t)
           /\ (b + 1) - ((t + 1) + f) <= b - (t + f)
           /\ b - ((t + 1) + f) <= b - (t + f)
           /\ b - ((t - 1) + (f + 1)) <= b - (t + f)
           /\ (b - 1) - (t + f) <= b - (t + f)
           /\ b - (t + f) <= b - (t + f)
OBVIOUS

LEMMA StepFits ==
    ASSUME ContextsInv, NEW w \in Workers, NEW l \in CodeLabels \cup LoopLabels,
           InBase(w) /\ w = 0 => l \in CodeLabels /\ (l \in CallLabels => Top(w).scopes > 0),
           InBase(w) /\ w # 0 => l \in LoopLabels,
           ~InBase(w) => l \in CodeLabels /\ l # "check_done"
    PROVE  Fits(w, Put(w, l)) /\ l \in Labels
<1>1. Fits(w, Top(w)) /\ Top(w).scopes \in Nat
  BY TopFits
<1>2. l \in Labels
  BY DEF Labels, MainLabels, ThreadLabels
<1>3. Put(w, l) \in Contexts /\ Put(w, l).at = l /\ Put(w, l).scopes = Top(w).scopes
  BY <1>1, <1>2 DEF Put, Contexts
<1> QED
  BY <1>1, <1>2, <1>3 DEF Fits, MainLabels, ThreadLabels

LEMMA CodeTasks ==
    ASSUME ContextsInv, PlaceInv, BusyInv, TaskInv, NEW w \in Workers, TaskStep(w)
    PROVE  Keeps(w) /\ OpenScopes' = OpenScopes /\ contexts'[0][1].scopes = contexts[0][1].scopes
             /\ UNCHANGED <<runtime, g_sig_worker_alive, sig_die, sig_dying, loop, exiting>>
<1> DEFINE a == Top(w).at
           W == g_num_tasks_waiting
           E == Count(Executing)
           H == Count(Holding)
           T == Count(Tasks)
           Z == contexts'[0][1].scopes = contexts[0][1].scopes
<1>1. UNCHANGED <<runtime, g_sig_worker_alive, sig_die, sig_dying, loop, exiting>>
  BY DEF TaskStep, BeginCreate, Push, PushRefused, EndCreate, BeginWait, EndWait, Take, Execute, EndTask,
     NotBusy, dieVars, userVars
<1>2. /\ E \in Nat /\ H \in Nat /\ T \in Nat /\ W \in Nat /\ created \in Nat /\ finished \in Nat
      /\ g_worker_status_board = E /\ MaxTasks \in Nat /\ created \in 0 .. MaxTasks
  BY Counted DEF BusyInv, TaskInv
<1>3. /\ ~InBase(w) => T > 0
      /\ a \in {"create", "popped"} => H > 0
      /\ InBase(w) /\ a = "executed" => E > 0
  BY Counted, TopFits
<1>4. /\ InBase(w) /\ w = 0 => a \in MainLabels /\ (a \in CallLabels => Top(w).scopes > 0)
      /\ InBase(w) /\ w # 0 => a \in ThreadLabels
      /\ ~InBase(w) => a \in CodeLabels
      /\ InBase(w) => contexts[w][1] = Top(w)
  BY TopFits DEF Fits
<1>5. w = 0 => Base[0] \in CodeLabels
  BY CodeRuns DEF TaskStep, BeginCreate, MayUse, Push, PushRefused, EndCreate, BeginWait, EndWait, Take, Execute,
     EndTask, NotBusy, CallLabels
\* A step within the context.
<1>6. ASSUME NEW l \in CodeLabels \cup LoopLabels, Goto(w, l), l # "check_done",
             InBase(w) /\ w = 0 => l \in CodeLabels /\ (l \in CallLabels => Top(w).scopes > 0),
             InBase(w) /\ w # 0 => l \in LoopLabels,
             ~InBase(w) => l \in CodeLabels
      PROVE  /\ ContextsInv' /\ Others(w) /\ Z /\ OpenScopes' = OpenScopes
             /\ Top(w)'.at \notin {"check_done"} \cup TailLabels
             /\ w = 0 => Base'[0] \in CodeLabels
             /\ w # 0 => Base'[w] = Base[w] \/ Base'[w] \in LoopLabels
             /\ Count(Executing)' = E - One(a = "executed") + One(l = "executed")
             /\ Count(Holding)' = H - One(a \in {"create", "popped"}) + One(l \in {"create", "popped"})
             /\ Count(Tasks)' = T
  <2>1. Fits(w, Put(w, l)) /\ l \in Labels
    BY <1>6, StepFits
  <2>2. /\ ContextsInv' /\ Others(w) /\ Top(w)' = Put(w, l)
        /\ Base'[w] = (IF InBase(w) THEN l ELSE Base[w])
        /\ contexts'[w][1].scopes = contexts[w][1].scopes /\ OpenScopes' = OpenScopes
        /\ Count(Executing)' = E - One(a = "executed") + One(l = "executed")
        /\ Count(Holding)' = H - One(a \in {"create", "popped"}) + One(l \in {"create", "popped"})
        /\ Count(Tasks)' = T
    BY <1>6, <2>1, GotoAll
  <2>3. Z
    BY <2>2, WorkersFinite DEF Others
  <2>4. Top(w)'.at = l /\ l \notin {"check_done"} \cup TailLabels
    BY <1>6, <2>2 DEF Put, CodeLabels, CallLabels, LoopLabels, TailLabels, KillLabels
  <2> QED
    BY <1>5, <1>6, <2>2, <2>3, <2>4
\* A call of a task.
<1>7. ASSUME NEW l \in {"created", "executed"}, Call(w, l), a \in {"create", "popped"},
             w # 0 => ~(InBase(w) /\ l = "created")
      PROVE  /\ ContextsInv' /\ Others(w) /\ Z /\ OpenScopes' = OpenScopes
             /\ Top(w)'.at \notin {"check_done"} \cup TailLabels
             /\ w = 0 => Base'[0] \in CodeLabels
             /\ w # 0 => Base'[w] = Base[w] \/ Base'[w] \in LoopLabels
             /\ Count(Executing)' = E + One(l = "executed")
             /\ Count(Holding)' = H - 1 /\ Count(Tasks)' = T + 1
  <2>1. l \in CodeLabels \cup LoopLabels /\ l \in CallLabels /\ l # "check_done"
        /\ l \in CodeLabels /\ a \in CallLabels /\ (l = "executed" => l \in LoopLabels)
    BY <1>7 DEF CodeLabels, CallLabels, LoopLabels
  <2>2. Fits(w, Put(w, l))
    BY <1>4, <1>7, <2>1, StepFits
  <2>3. /\ ContextsInv' /\ Others(w) /\ Top(w)' = Context("run")
        /\ Base'[w] = (IF InBase(w) THEN l ELSE Base[w])
        /\ contexts'[w][1].scopes = contexts[w][1].scopes /\ OpenScopes' = OpenScopes
        /\ Count(Executing)' = E - One(a = "executed") + One(l = "executed")
        /\ Count(Holding)' = H - One(a \in {"create", "popped"})
        /\ Count(Tasks)' = T + 1
    BY <1>7, <2>2, CallAll
  <2>4. Z
    BY <2>3, WorkersFinite DEF Others
  <2>5. Top(w)'.at \notin {"check_done"} \cup TailLabels
    BY <2>3 DEF Context, TailLabels, KillLabels
  <2>6. One(a = "executed") = 0 /\ One(a \in {"create", "popped"}) = 1
    BY <1>7 DEF One
  <2>7. Count(Executing)' = E + One(l = "executed")
    BY <1>2, <2>3, <2>6 DEF One
  <2> QED
    BY <1>5, <1>7, <2>1, <2>3, <2>4, <2>5, <2>6, <2>7
<1>8. CASE BeginCreate(w)
  <2>1. /\ Goto(w, "create") /\ a = "run" /\ created' = created + 1 /\ created < MaxTasks
        /\ UNCHANGED <<finished, g_num_tasks_waiting, g_worker_status_board>>
        /\ w = 0 /\ InBase(0) => Top(0).scopes > 0
    BY <1>8 DEF BeginCreate, MayUse, InUser
  <2>2. "create" \in CodeLabels \cup LoopLabels /\ "create" \in CodeLabels
    BY DEF CodeLabels, CallLabels
  <2>3. InBase(w) /\ w # 0 => FALSE
    BY <1>4, <2>1 DEF ThreadLabels, UnbornLabels, LoopLabels
  <2>4. /\ One("create" = "executed") = 0 /\ One("create" \in {"create", "popped"}) = 1
        /\ One(a = "executed") = 0 /\ One(a \in {"create", "popped"}) = 0
    BY <2>1 DEF One
  <2>5. /\ ContextsInv' /\ Others(w) /\ Z /\ OpenScopes' = OpenScopes
        /\ Top(w)'.at \notin {"check_done"} \cup TailLabels
        /\ w = 0 => Base'[0] \in CodeLabels
        /\ w # 0 => Base'[w] = Base[w] \/ Base'[w] \in LoopLabels
        /\ Count(Executing)' = E /\ Count(Holding)' = H + 1 /\ Count(Tasks)' = T
    BY <1>2, <1>6, <2>1, <2>2, <2>3, <2>4
  <2>6. Balance' = Balance
    BY <1>2, <2>1, <2>5, Sums DEF Balance
  <2>7. g_worker_status_board' = Count(Executing)' /\ created' \in 0 .. MaxTasks
        /\ g_worker_status_board' - (Count(Tasks)' + finished') <= g_worker_status_board - (T + finished)
    BY <1>2, <2>1, <2>5, Sums
  <2>8. ~InBase(w) \/ (w = 0 /\ contexts[0][1].scopes > 0)
    BY <1>4, <2>1, <2>3
  <2> QED
    BY <1>1, <1>2, <2>1, <2>5, <2>6, <2>7, <2>8 DEF Keeps
<1>9. CASE Push(w)
  <2>1. /\ Goto(w, "created") /\ a = "create" /\ g_num_tasks_waiting' = W + 1
        /\ UNCHANGED <<created, finished, g_worker_status_board>>
    BY <1>9 DEF Push
  <2>2. "created" \in CodeLabels \cup LoopLabels /\ "created" \in CodeLabels /\ a \in CallLabels
    BY <2>1 DEF CodeLabels, CallLabels
  <2>3. InBase(w) /\ w # 0 => FALSE
    BY <1>4, <2>1 DEF ThreadLabels, UnbornLabels, LoopLabels
  <2>4. /\ One("created" = "executed") = 0 /\ One("created" \in {"create", "popped"}) = 0
        /\ One(a = "executed") = 0 /\ One(a \in {"create", "popped"}) = 1
    BY <2>1 DEF One
  <2>5. /\ ContextsInv' /\ Others(w) /\ Z /\ OpenScopes' = OpenScopes
        /\ Top(w)'.at \notin {"check_done"} \cup TailLabels
        /\ w = 0 => Base'[0] \in CodeLabels
        /\ w # 0 => Base'[w] = Base[w] \/ Base'[w] \in LoopLabels
        /\ Count(Executing)' = E /\ Count(Holding)' = H - 1 /\ Count(Tasks)' = T
    BY <1>2, <1>4, <1>6, <2>1, <2>2, <2>3, <2>4
  <2>6. Balance' = Balance
    BY <1>2, <2>1, <2>5, Sums DEF Balance
  <2>7. g_worker_status_board' = Count(Executing)' /\ W + 1 \in Nat
        /\ g_worker_status_board' - (Count(Tasks)' + finished') <= g_worker_status_board - (T + finished)
    BY <1>2, <2>1, <2>5, Sums
  <2> QED
    BY <1>1, <1>2, <2>1, <2>5, <2>6, <2>7 DEF Keeps
<1>10. CASE PushRefused(w)
  <2>1. /\ Call(w, "created") /\ a = "create"
        /\ UNCHANGED <<created, finished, g_worker_status_board, g_num_tasks_waiting>>
    BY <1>10 DEF PushRefused, taskVars
  <2>2. InBase(w) /\ w # 0 => FALSE
    BY <1>4, <2>1 DEF ThreadLabels, UnbornLabels, LoopLabels
  <2>3. One("created" = "executed") = 0
    BY DEF One
  <2>4. /\ ContextsInv' /\ Others(w) /\ Z /\ OpenScopes' = OpenScopes
        /\ Top(w)'.at \notin {"check_done"} \cup TailLabels
        /\ w = 0 => Base'[0] \in CodeLabels
        /\ w # 0 => Base'[w] = Base[w] \/ Base'[w] \in LoopLabels
        /\ Count(Executing)' = E /\ Count(Holding)' = H - 1 /\ Count(Tasks)' = T + 1
    BY <1>2, <1>7, <2>1, <2>2, <2>3
  <2>5. Balance' = Balance
    BY <1>2, <2>1, <2>4, Sums DEF Balance
  <2>6. g_worker_status_board' = Count(Executing)'
        /\ g_worker_status_board' - (Count(Tasks)' + finished') <= g_worker_status_board - (T + finished)
    BY <1>2, <2>1, <2>4, Sums
  <2> QED
    BY <1>1, <1>2, <2>1, <2>4, <2>5, <2>6 DEF Keeps
\* Steps that count nothing.
<1>11. CASE EndCreate(w) \/ BeginWait(w) \/ EndWait(w)
  <2> DEFINE l == IF BeginWait(w) THEN "wait" ELSE "run"
  <2>1. /\ Goto(w, l) /\ a \in {"created", "run", "wait"}
        /\ UNCHANGED <<created, finished, g_worker_status_board, g_num_tasks_waiting>>
        /\ l = "wait" /\ w = 0 /\ InBase(0) => Top(0).scopes > 0
    BY <1>11 DEF EndCreate, BeginWait, EndWait, taskVars, MayUse, InUser
  <2>2. l \in CodeLabels \cup LoopLabels /\ l \in CodeLabels /\ l # "check_done" /\ (l \in CallLabels => l = "wait")
    BY DEF CodeLabels, CallLabels
  <2>3. InBase(w) /\ w # 0 => FALSE
    BY <1>4, <2>1 DEF ThreadLabels, UnbornLabels, LoopLabels
  <2>4. /\ One(l = "executed") = 0 /\ One(l \in {"create", "popped"}) = 0
        /\ One(a = "executed") = 0 /\ One(a \in {"create", "popped"}) = 0
    BY <2>1 DEF One
  <2> HIDE DEF l
  <2>5. /\ ContextsInv' /\ Others(w) /\ Z /\ OpenScopes' = OpenScopes
        /\ Top(w)'.at \notin {"check_done"} \cup TailLabels
        /\ w = 0 => Base'[0] \in CodeLabels
        /\ w # 0 => Base'[w] = Base[w] \/ Base'[w] \in LoopLabels
        /\ Count(Executing)' = E /\ Count(Holding)' = H /\ Count(Tasks)' = T
    BY <1>2, <1>6, <2>1, <2>2, <2>3, <2>4
  <2>6. Balance' = Balance
    BY <1>2, <2>1, <2>5 DEF Balance
  <2>7. g_worker_status_board' = Count(Executing)'
        /\ g_worker_status_board' - (Count(Tasks)' + finished') <= g_worker_status_board - (T + finished)
    BY <1>2, <2>1, <2>5, Sums
  <2> QED
    BY <1>1, <1>2, <2>1, <2>5, <2>6, <2>7 DEF Keeps
<1>12. CASE Take(w)
  <2>1. /\ Goto(w, "popped") /\ a \in {"loop", "wait"} /\ g_num_tasks_waiting' = W - 1 /\ W > 0
        /\ UNCHANGED <<created, finished, g_worker_status_board>>
    BY <1>12 DEF Take
  <2>2. "popped" \in CodeLabels \cup LoopLabels /\ "popped" \in CodeLabels /\ "popped" \in LoopLabels
    BY DEF CodeLabels, CallLabels, LoopLabels
  <2>3. InBase(w) /\ w = 0 => Top(w).scopes > 0
    BY <1>4, <2>1 DEF MainLabels, CodeLabels, CallLabels, CreateLabels, TailLabels, KillLabels
  <2>4. /\ One("popped" = "executed") = 0 /\ One("popped" \in {"create", "popped"}) = 1
        /\ One(a = "executed") = 0 /\ One(a \in {"create", "popped"}) = 0
    BY <2>1 DEF One
  <2>5. /\ ContextsInv' /\ Others(w) /\ Z /\ OpenScopes' = OpenScopes
        /\ Top(w)'.at \notin {"check_done"} \cup TailLabels
        /\ w = 0 => Base'[0] \in CodeLabels
        /\ w # 0 => Base'[w] = Base[w] \/ Base'[w] \in LoopLabels
        /\ Count(Executing)' = E /\ Count(Holding)' = H + 1 /\ Count(Tasks)' = T
    BY <1>2, <1>6, <2>1, <2>2, <2>3, <2>4
  <2>6. Balance' = Balance
    BY <1>2, <2>1, <2>5, Sums DEF Balance
  <2>7. g_worker_status_board' = Count(Executing)' /\ W - 1 \in Nat
        /\ g_worker_status_board' - (Count(Tasks)' + finished') <= g_worker_status_board - (T + finished)
    BY <1>2, <2>1, <2>5, Sums
  <2> QED
    BY <1>1, <1>2, <2>1, <2>5, <2>6, <2>7 DEF Keeps
<1>13. CASE Execute(w)
  <2>1. /\ Call(w, "executed") /\ a = "popped" /\ g_worker_status_board' = g_worker_status_board + 1
        /\ UNCHANGED <<created, finished, g_num_tasks_waiting>>
    BY <1>13 DEF Execute
  <2>2. One("executed" = "executed") = 1
    BY DEF One
  <2>3. /\ ContextsInv' /\ Others(w) /\ Z /\ OpenScopes' = OpenScopes
        /\ Top(w)'.at \notin {"check_done"} \cup TailLabels
        /\ w = 0 => Base'[0] \in CodeLabels
        /\ w # 0 => Base'[w] = Base[w] \/ Base'[w] \in LoopLabels
        /\ Count(Executing)' = E + 1 /\ Count(Holding)' = H - 1 /\ Count(Tasks)' = T + 1
    BY <1>2, <1>7, <2>1, <2>2
  <2>4. Balance' = Balance
    BY <1>2, <2>1, <2>3, Sums DEF Balance
  <2>5. g_worker_status_board' = Count(Executing)'
        /\ g_worker_status_board' - (Count(Tasks)' + finished') <= g_worker_status_board - (T + finished)
    BY <1>2, <2>1, <2>3, Sums
  <2> QED
    BY <1>1, <1>2, <2>1, <2>3, <2>4, <2>5 DEF Keeps
<1>14. CASE EndTask(w)
  <2>1. /\ Returns(w) /\ ~InBase(w) /\ a = "run" /\ Top(w).scopes = 0 /\ finished' = finished + 1
        /\ UNCHANGED <<created, g_worker_status_board, g_num_tasks_waiting>>
    BY <1>14 DEF EndTask, Returns, InUser
  <2>2. Top(w) = Context("run")
    BY <2>1, TopFacts DEF Context, Contexts
  <2>3. /\ ContextsInv' /\ Others(w)
        /\ Top(w)'.at \in {"created", "executed"}
        /\ Base'[w] = Base[w]
        /\ contexts'[w][1].scopes = contexts[w][1].scopes /\ OpenScopes' = OpenScopes
        /\ Count(Executing)' = E /\ Count(Holding)' = H /\ Count(Tasks)' = T - 1
    BY <2>1, <2>2, ReturnAll
  <2>4. Balance' = Balance
    BY <1>2, <2>1, <2>3, Sums DEF Balance
  <2>5. g_worker_status_board' = Count(Executing)' /\ finished' \in Nat
        /\ g_worker_status_board' - (Count(Tasks)' + finished') <= g_worker_status_board - (T + finished)
    BY <1>2, <2>1, <2>3, Sums
  <2>6. Z
    BY <2>3, WorkersFinite DEF Others
  <2>7. Top(w)'.at \notin {"check_done"} \cup TailLabels
    BY <2>3 DEF TailLabels, KillLabels
  <2> QED
    BY <1>1, <1>2, <1>5, <2>1, <2>3, <2>4, <2>5, <2>6, <2>7 DEF Keeps
<1>15. CASE NotBusy(w)
  <2> DEFINE l == IF w # 0 /\ InBase(w) THEN "look" ELSE "wait"
  <2>1. /\ Goto(w, l) /\ a = "executed" /\ g_worker_status_board' = g_worker_status_board - 1
        /\ UNCHANGED <<created, finished, g_num_tasks_waiting>>
    BY <1>15 DEF NotBusy
  <2>2. /\ l \in CodeLabels \cup LoopLabels /\ l # "check_done" /\ a \in CallLabels
        /\ InBase(w) /\ w # 0 => l \in LoopLabels
        /\ (~InBase(w) \/ w = 0) => l \in CodeLabels
    BY <2>1 DEF CodeLabels, CallLabels, LoopLabels
  <2>3. InBase(w) /\ w = 0 => Top(w).scopes > 0
    BY <1>4, <2>2
  <2>4. /\ One(l = "executed") = 0 /\ One(l \in {"create", "popped"}) = 0
        /\ One(a = "executed") = 1 /\ One(a \in {"create", "popped"}) = 0
    BY <2>1 DEF One
  <2> HIDE DEF l
  <2>5. /\ ContextsInv' /\ Others(w) /\ Z /\ OpenScopes' = OpenScopes
        /\ Top(w)'.at \notin {"check_done"} \cup TailLabels
        /\ w = 0 => Base'[0] \in CodeLabels
        /\ w # 0 => Base'[w] = Base[w] \/ Base'[w] \in LoopLabels
        /\ Count(Executing)' = E - 1 /\ Count(Holding)' = H /\ Count(Tasks)' = T
    BY <1>2, <1>6, <2>1, <2>2, <2>3, <2>4
  <2>6. Balance' = Balance
    BY <1>2, <2>1, <2>5 DEF Balance
  <2>7. g_worker_status_board' = Count(Executing)'
        /\ g_worker_status_board' - (Count(Tasks)' + finished') <= g_worker_status_board - (T + finished)
    BY <1>2, <2>1, <2>5, Sums
  <2> QED
    BY <1>1, <1>2, <2>1, <2>5, <2>6, <2>7 DEF Keeps
<1> QED
  BY <1>8, <1>9, <1>10, <1>11, <1>12, <1>13, <1>14, <1>15 DEF TaskStep

LEMMA CodeScopes ==
    ASSUME ContextsInv, PlaceInv, BusyInv, ScopeInv, TaskInv, NEW w \in Workers, UserStep(w)
    PROVE  /\ Keeps(w) /\ InUser(w)
           /\ UNCHANGED <<g_sig_worker_alive, sig_die, sig_dying, loop, exiting, created, finished>>
           /\ runtime' \in [up : BOOLEAN, init_count : Int, destroyed : BOOLEAN] /\ runtime'.up
           /\ IsFiniteSet(OpenScopes')
           /\ runtime'.init_count - Cardinality(OpenScopes')
                = runtime.init_count - Cardinality(OpenScopes)
           /\ contexts'[0][1].scopes = 0 => contexts[0][1].scopes = 0 \/ Waited
<1> DEFINE a == Top(w).at
           k == Top(w).scopes
           n == Depth(w)
           s == contexts[w]
<1>1. /\ UNCHANGED <<g_sig_worker_alive, sig_die, sig_dying, loop, exiting, created, finished,
                     g_num_tasks_waiting, g_worker_status_board>>
      /\ a = "run" /\ runtime.up /\ InUser(w)
  BY DEF UserStep, CreateNested, SoftDestroy, Destroy, CloseScope, InUser, dieVars, taskVars, userVars
<1>2. /\ Fits(w, Top(w)) /\ k \in Nat /\ s[n] = Top(w) /\ Top(w) \in Contexts /\ n \in DOMAIN s
      /\ w # 0 => ~InBase(w)
      /\ InBase(w) <=> n = 1
      /\ Top(w) = [at |-> "run", scopes |-> k]
  <2>1. /\ Fits(w, Top(w)) /\ k \in Nat /\ s[n] = Top(w) /\ Top(w) \in Contexts /\ n \in DOMAIN s
        /\ InBase(w) <=> n = 1
    BY TopFits, TopFacts
  <2>2. w # 0 => ~InBase(w)
    BY <1>1, <2>1 DEF Fits, ThreadLabels, UnbornLabels, LoopLabels
  <2>3. Top(w) = [at |-> "run", scopes |-> k]
    BY <1>1, <2>1 DEF Contexts
  <2> QED
    BY <2>1, <2>2, <2>3
<1>3. w = 0 => Base[0] \in CodeLabels
  BY <1>1, CodeRuns
<1>4. IsFiniteSet(OpenScopes) /\ Cardinality(OpenScopes) \in Nat /\ runtime.init_count \in Int
  BY FS_CardinalityType DEF ScopeInv, PlaceInv
<1>5. /\ Count(Executing) \in Nat /\ Count(Holding) \in Nat /\ Count(Tasks) \in Nat
      /\ g_num_tasks_waiting \in Nat /\ created \in 0 .. MaxTasks /\ finished \in Nat
      /\ g_worker_status_board = Count(Executing)
  BY Counted DEF BusyInv, TaskInv
<1> HIDE DEF a, n, s
\* The top context is left at a label with other scopes.
<1>6. ASSUME NEW l \in {"run", "reread"}, NEW m \in Nat, Sets(w, [at |-> l, scopes |-> m])
      PROVE  /\ Keeps(w)
             /\ contexts'[0][1].scopes = IF w = 0 /\ InBase(0) THEN m ELSE contexts[0][1].scopes
  <2> DEFINE c == [at |-> l, scopes |-> m]
  <2>1. l \in CodeLabels /\ l \in MainLabels /\ l \in Labels /\ l \notin CallLabels
        /\ l \notin {"check_done"} \cup TailLabels
    BY DEF CodeLabels, MainLabels, Labels, CallLabels, TailLabels, KillLabels
  <2>2. c \in Contexts /\ c.at = l /\ c.scopes = m
    BY <2>1 DEF Contexts
  <2> HIDE DEF c
  <2>3. Fits(w, c)
    BY <1>2, <2>1, <2>2 DEF Fits
  <2>4. /\ ContextsInv' /\ Others(w) /\ Top(w)' = c
        /\ Base'[w] = (IF InBase(w) THEN c.at ELSE Base[w])
        /\ contexts'[w][1].scopes = (IF InBase(w) THEN c.scopes ELSE contexts[w][1].scopes)
        /\ Count(Executing)' = Count(Executing) - One(Top(w).at = "executed") + One(c.at = "executed")
        /\ Count(Holding)' = Count(Holding) - One(Top(w).at \in {"create", "popped"})
                                            + One(c.at \in {"create", "popped"})
        /\ Count(Tasks)' = Count(Tasks)
    BY <1>6, <2>3, SetsAll DEF c
  <2>5. /\ One(Top(w).at = "executed") = 0 /\ One(c.at = "executed") = 0
        /\ One(Top(w).at \in {"create", "popped"}) = 0 /\ One(c.at \in {"create", "popped"}) = 0
    BY <1>1, <2>2 DEF One, a
  <2>6. Count(Executing)' = Count(Executing) /\ Count(Holding)' = Count(Holding) /\ Count(Tasks)' = Count(Tasks)
    BY <1>5, <2>4, <2>5
  <2>7. Balance' = Balance
    BY <1>1, <2>6 DEF Balance
  <2>8. g_worker_status_board' - (Count(Tasks)' + finished') <= g_worker_status_board - (Count(Tasks) + finished)
    BY <1>1, <1>5, <2>6, Sums
  <2>9. Keeps(w)
    BY <1>1, <1>2, <1>3, <1>5, <2>1, <2>2, <2>4, <2>6, <2>7, <2>8 DEF Keeps
  <2>10. contexts'[0][1].scopes = IF w = 0 /\ InBase(0) THEN m ELSE contexts[0][1].scopes
    BY <2>2, <2>4, WorkersFinite DEF Others
  <2> QED
    BY <2>9, <2>10
<1>7. CASE CreateNested(w)
  <2>1. /\ contexts' = [contexts EXCEPT ![w] = [s EXCEPT ![n] = [s[n] EXCEPT !.scopes = @ + 1]]]
        /\ runtime' = [runtime EXCEPT !.init_count = @ + 1]
    BY <1>7 DEF CreateNested, OpenScope, n, s, Depth
  <2>2. [s[n] EXCEPT !.scopes = @ + 1] = [at |-> "run", scopes |-> k + 1]
    BY <1>2
  <2>3. Sets(w, [at |-> "run", scopes |-> k + 1]) /\ k + 1 \in Nat /\ k + 1 # 0
    <3>1. k + 1 \in Nat /\ k + 1 # 0
      BY <1>2
    <3>2. contexts' = [contexts EXCEPT ![w] = [s EXCEPT ![n] = [at |-> "run", scopes |-> k + 1]]]
      BY <2>1, <2>2
    <3>3. Sets(w, [at |-> "run", scopes |-> k + 1])
      BY <3>2 DEF Sets, n, s
    <3> QED
      BY <3>1, <3>3
  <2>4. /\ Keeps(w)
        /\ contexts'[0][1].scopes = IF w = 0 /\ InBase(0) THEN k + 1 ELSE contexts[0][1].scopes
    BY <1>6, <2>3
  <2>5. [at |-> "run", scopes |-> k + 1] \in Contexts
    BY <2>3 DEF Contexts, Labels, MainLabels, CodeLabels
  <2>6. OpenScopes' = OpenScopes \cup {<<w, n, k + 1>>} /\ <<w, n, k + 1>> \notin OpenScopes
    BY <2>3, <2>5, SetsScopes DEF n
  <2>7. IsFiniteSet(OpenScopes') /\ Cardinality(OpenScopes') = Cardinality(OpenScopes) + 1
    BY <1>4, <2>6, FS_AddElement
  <2>8. /\ runtime' \in [up : BOOLEAN, init_count : Int, destroyed : BOOLEAN] /\ runtime'.up
        /\ runtime'.init_count = runtime.init_count + 1
    BY <1>1, <2>1 DEF PlaceInv
  <2>9. runtime'.init_count - Cardinality(OpenScopes') = runtime.init_count - Cardinality(OpenScopes)
    BY <1>4, <2>7, <2>8
  <2> QED
    BY <1>1, <2>3, <2>4, <2>7, <2>8, <2>9
<1>8. CASE SoftDestroy(w) \/ Destroy(w)
  <2>1. PICK l \in {"run", "reread"} : CloseScope(w, l)
    BY <1>8 DEF SoftDestroy, Destroy
  <2>2. /\ contexts' = [contexts EXCEPT ![w] = [s EXCEPT ![n] = [at |-> l, scopes |-> s[n].scopes - 1]]]
        /\ runtime' = [runtime EXCEPT !.init_count = @ - 1] /\ k > 0
        /\ w = 0 /\ InBase(0) /\ k = 1 => Waited
    BY <2>1 DEF CloseScope, n, s, Depth
  <2>3. Sets(w, [at |-> l, scopes |-> k - 1]) /\ k - 1 \in Nat
    BY <1>2, <2>2 DEF Sets, n, s
  <2>4. /\ Keeps(w)
        /\ contexts'[0][1].scopes = IF w = 0 /\ InBase(0) THEN k - 1 ELSE contexts[0][1].scopes
    BY <1>6, <2>3
  <2>5. [at |-> l, scopes |-> k - 1] \in Contexts
    BY <2>3 DEF Contexts, Labels, MainLabels, CodeLabels
  <2>6. OpenScopes' = OpenScopes \ {<<w, n, k>>} /\ <<w, n, k>> \in OpenScopes
    BY <2>2, <2>3, <2>5, SetsScopes DEF n
  <2>7. IsFiniteSet(OpenScopes') /\ Cardinality(OpenScopes') = Cardinality(OpenScopes) - 1
    <3>1. ASSUME NEW O, IsFiniteSet(O), NEW x \in O
          PROVE  IsFiniteSet(O \ {x}) /\ Cardinality(O \ {x}) = Cardinality(O) - 1
      BY <3>1, FS_RemoveElement
    <3> QED
      BY <1>4, <2>6, <3>1
  <2>8. /\ runtime' \in [up : BOOLEAN, init_count : Int, destroyed : BOOLEAN] /\ runtime'.up
        /\ runtime'.init_count = runtime.init_count - 1
    BY <1>1, <2>2 DEF PlaceInv
  <2>9. runtime'.init_count - Cardinality(OpenScopes') = runtime.init_count - Cardinality(OpenScopes)
    BY <1>4, <2>7, <2>8
  <2>10. contexts'[0][1].scopes = 0 => contexts[0][1].scopes = 0 \/ Waited
    <3>1. k - 1 = 0 => k = 1
      BY <1>2
    <3> QED
      BY <2>2, <2>4, <3>1
  <2> QED
    BY <1>1, <2>4, <2>7, <2>8, <2>9, <2>10
<1> QED
  BY <1>7, <1>8 DEF UserStep
-----------------------------------------------------------------------------
(* The other steps, which count nothing *)

CountedLabels == {"create", "popped", "executed"}

\* What a step of w to a label keeps that nothing counts.
Moves(w, l) ==
    /\ ContextsInv' /\ Others(w) /\ Top(w)'.at = l
    /\ Base'[w] = IF InBase(w) THEN l ELSE Base[w]
    /\ contexts'[0][1].scopes = contexts[0][1].scopes /\ OpenScopes' = OpenScopes
    /\ Count(Executing)' = Count(Executing) /\ Count(Holding)' = Count(Holding) /\ Count(Tasks)' = Count(Tasks)

LEMMA MoveFacts ==
    ASSUME ContextsInv, NEW w \in Workers, NEW l \in Labels, Goto(w, l), Fits(w, Put(w, l)),
           Top(w).at \notin CountedLabels, l \notin CountedLabels
    PROVE  Moves(w, l)
<1>1. /\ ContextsInv' /\ Others(w) /\ Top(w)' = Put(w, l)
      /\ Base'[w] = (IF InBase(w) THEN l ELSE Base[w])
      /\ contexts'[w][1].scopes = contexts[w][1].scopes /\ OpenScopes' = OpenScopes
      /\ Count(Executing) \in Nat /\ Count(Holding) \in Nat /\ Count(Tasks) \in Nat
      /\ Count(Executing)' = Count(Executing) - One(Top(w).at = "executed") + One(l = "executed")
      /\ Count(Holding)' = Count(Holding) - One(Top(w).at \in {"create", "popped"})
                                          + One(l \in {"create", "popped"})
      /\ Count(Tasks)' = Count(Tasks)
  BY GotoAll
<1>2. /\ One(Top(w).at = "executed") = 0 /\ One(l = "executed") = 0
      /\ One(Top(w).at \in {"create", "popped"}) = 0 /\ One(l \in {"create", "popped"}) = 0
  BY DEF One, CountedLabels
<1>3. Count(Executing)' = Count(Executing) /\ Count(Holding)' = Count(Holding)
  BY <1>1, <1>2
<1>4. Top(w)'.at = l
  BY <1>1 DEF Put
<1>5. contexts'[0][1].scopes = contexts[0][1].scopes
  BY <1>1, WorkersFinite DEF Others
<1> QED
  BY <1>1, <1>3, <1>4, <1>5 DEF Moves

\* Nothing that the handshakes are about happens.
LEMMA AliveElsewhere ==
    ASSUME ContextsInv, AliveInv, ContextsInv',
           Base'[0] = Base[0]
             \/ (Base[0] \notin CreateLabels \cup KillLabels /\ Base'[0] \notin CreateLabels \cup KillLabels),
           \A v \in Threads : Base'[v] = Base[v] \/ (Base[v] \in LoopLabels /\ Base'[v] \in LoopLabels),
           loop' = loop \/ Base'[0] \notin CreateLabels,
           UNCHANGED <<g_sig_worker_alive, sig_die>>, sig_dying' \in [Workers -> BOOLEAN],
           runtime'.up = runtime.up
    PROVE  AliveInv'
<1>1. At(UnbornLabels)' = At(UnbornLabels) /\ At({"init", "signal"})' = At({"init", "signal"})
      /\ At(LoopLabels)' = At(LoopLabels)
  BY DEF At, UnbornLabels, LoopLabels
<1>2. LoopLabels \cap UnbornLabels = {} /\ "none" \notin LoopLabels /\ "init" \notin LoopLabels
  BY DEF LoopLabels, UnbornLabels
<1>3. Base[0] \notin {"none", "init"} => sig_die[0] \/ ~(runtime.up /\ Base[0] \notin KillLabels)
  BY WorkersFinite DEF AliveInv
<1>4. Base[0] \notin {"none", "init"} /\ Base'[0] \notin {"none", "init"}
  BY DEF ContextsInv, MainLabels, CodeLabels, CallLabels, CreateLabels, TailLabels, KillLabels
<1>5. Base'[0] \in CreateLabels <=> Base[0] \in CreateLabels
  OBVIOUS
<1>6. Base'[0] \in KillLabels <=> Base[0] \in KillLabels
  OBVIOUS
<1>7. ASSUME runtime'.up, Base'[0] \notin KillLabels, NEW v \in Workers, Base'[v] \notin {"none", "init"}
      PROVE  sig_die'[v]
  <2>1. Base[v] \notin {"none", "init"}
    BY <1>2, <1>4, <1>7 DEF Threads
  <2> QED
    BY <1>6, <1>7, <2>1 DEF AliveInv
<1>8. CASE Base[0] \in CreateLabels
  BY <1>1, <1>2, <1>5, <1>7, <1>8 DEF AliveInv
<1>9. CASE Base[0] \in KillLabels
  BY <1>1, <1>2, <1>5, <1>6, <1>7, <1>9 DEF AliveInv, CreateLabels, KillLabels
<1>10. CASE Base[0] \notin CreateLabels \cup KillLabels
  <2>1. \A v \in Threads : IF runtime'.up THEN Base'[v] \notin UnbornLabels ELSE Base'[v] = "none"
    BY <1>2, <1>10 DEF AliveInv
  <2> QED
    BY <1>5, <1>6, <1>7, <1>10, <2>1 DEF AliveInv
<1> QED
  BY <1>8, <1>9, <1>10

\* A thread in its loop, at a step of the loop itself.
LEMMA ThreadFacts ==
    ASSUME ContextsInv, NEW w \in Threads, ThreadStep(w)
    PROVE  /\ InBase(w) /\ w \in Workers /\ Base[w] = Top(w).at /\ Base[w] \notin CountedLabels
           /\ \E l \in ThreadLabels \ CountedLabels : Goto(w, l) /\ Moves(w, l)
           /\ Base'[w] \in ThreadLabels \ CountedLabels /\ Top(w)'.at = Base'[w]
           /\ \A l \in ThreadLabels : Goto(w, l) => Base'[w] = l
           /\ \A v \in Workers \ {w} : Base'[v] = Base[v]
           /\ Base'[0] = Base[0]
           /\ UNCHANGED <<runtime, g_num_tasks_waiting, g_worker_status_board, created, finished, loop, exiting>>
<1> DEFINE a == Top(w).at
<1>1. /\ w \in Workers /\ w # 0 /\ a \in {"init", "signal", "begin", "loop", "look", "dying", "end_idle", "die"}
  BY WorkersFinite DEF Threads, ThreadStep, LocalInitWorker, SignalAlive, BeginLoop, FindNone, Look, EndIdleTask,
     EndIdle, Die
<1>2. /\ Fits(w, Top(w)) /\ Top(w).scopes \in Nat
      /\ InBase(w) => Base[w] = a /\ contexts[w][1] = Top(w)
  BY <1>1, TopFits
<1>3. InBase(w)
  BY <1>1, <1>2 DEF Fits, CodeLabels, CallLabels
<1>4. UNCHANGED <<runtime, g_num_tasks_waiting, g_worker_status_board, created, finished, loop, exiting>>
  BY DEF ThreadStep, LocalInitWorker, SignalAlive, BeginLoop, FindNone, Look, EndIdleTask, EndIdle, Die,
     taskVars, userVars
<1>5. PICK l \in {"signal", "begin", "loop", "look", "dying", "end_idle", "die", "none"} : Goto(w, l)
  BY DEF ThreadStep, LocalInitWorker, SignalAlive, BeginLoop, FindNone, Look, EndIdleTask, EndIdle, Die
<1>6. l \in ThreadLabels \ CountedLabels /\ a \notin CountedLabels /\ l \in Labels /\ ThreadLabels \subseteq Labels
  BY <1>1 DEF ThreadLabels, UnbornLabels, LoopLabels, CountedLabels, Labels
<1>7. Put(w, l) \in Contexts /\ Put(w, l).at = l /\ Put(w, l).scopes = Top(w).scopes
  BY <1>2, <1>6 DEF Put, Contexts
<1>8. Fits(w, Put(w, l))
  BY <1>1, <1>2, <1>3, <1>6, <1>7 DEF Fits
<1>9. Moves(w, l)
  BY <1>1, <1>5, <1>6, <1>8, MoveFacts
<1>10. ASSUME NEW k \in ThreadLabels, Goto(w, k) PROVE Base'[w] = k
  <2> DEFINE c == [at |-> k, scopes |-> Top(w).scopes]
  <2>1. c \in Contexts /\ Sets(w, c) /\ c.at = k
    BY <1>1, <1>6, <1>10, GotoSets
  <2> HIDE DEF c
  <2>2. Base'[w] = IF Depth(w) = 1 THEN c.at ELSE Base[w]
    BY <1>1, <2>1, SetsFacts
  <2> QED
    BY <1>1, <1>3, <2>1, <2>2, TopFits
<1>11. /\ Base'[w] = l /\ Top(w)'.at = l
       /\ \A v \in Workers \ {w} : Base'[v] = Base[v]
  BY <1>3, <1>9 DEF Moves, Others
<1> QED
  BY <1>1, <1>2, <1>3, <1>4, <1>5, <1>6, <1>9, <1>10, <1>11, WorkersFinite

LEMMA AliveBirth ==
    ASSUME ContextsInv, AliveInv, NEW w \in Threads, LocalInitWorker(w) \/ SignalAlive(w)
    PROVE  AliveInv'
<1>1. /\ w \in Workers /\ Base[w] = Top(w).at
      /\ \A l \in ThreadLabels : Goto(w, l) => Base'[w] = l
      /\ \A v \in Workers \ {w} : Base'[v] = Base[v]
      /\ Base'[0] = Base[0]
      /\ UNCHANGED <<runtime, loop>>
  BY ThreadFacts DEF ThreadStep
<1>2. Base[w] \in {"init", "signal"}
  BY <1>1 DEF LocalInitWorker, SignalAlive
<1>3. Base[0] \in CreateLabels
  BY <1>2 DEF AliveInv, At, UnbornLabels
<1>a. "signal" \in ThreadLabels /\ "begin" \in ThreadLabels
  BY DEF ThreadLabels, UnbornLabels, LoopLabels
<1>4. ASSUME LocalInitWorker(w) PROVE AliveInv'
  <2>1. /\ Base[w] = "init" /\ Base'[w] = "signal"
        /\ sig_die' = [sig_die EXCEPT ![w] = TRUE] /\ UNCHANGED g_sig_worker_alive
        /\ sig_dying' = [sig_dying EXCEPT ![w] = FALSE]
    BY <1>1, <1>4, <1>a DEF LocalInitWorker, LocalInit
  <2>2. At(UnbornLabels)' = At(UnbornLabels)
    BY <1>1, <2>1, WorkersFinite DEF At, UnbornLabels
  <2>3. sig_die \in [Workers -> BOOLEAN] /\ sig_dying \in [Workers -> BOOLEAN]
    BY DEF AliveInv
  <2>4. sig_die' \in [Workers -> BOOLEAN] /\ sig_dying' \in [Workers -> BOOLEAN]
    BY <2>1, <2>3
  <2>5. \A v \in Threads : Base'[v] = "none" <=> loop <= v
    BY <1>1, <1>3, <2>1, WorkersFinite DEF AliveInv
  <2>6. runtime.up /\ Base[0] \notin KillLabels => \A v \in Workers : Base'[v] \notin {"none", "init"} => sig_die'[v]
    BY <1>1, <2>1, <2>3 DEF AliveInv
  <2> QED
    BY <1>1, <1>3, <2>1, <2>2, <2>4, <2>5, <2>6 DEF AliveInv
<1>5. ASSUME SignalAlive(w) PROVE AliveInv'
  <2>1. /\ Base[w] = "signal" /\ Base'[w] = "begin"
        /\ UNCHANGED <<sig_die, sig_dying>> /\ g_sig_worker_alive' = g_sig_worker_alive - 1
    BY <1>1, <1>5, <1>a DEF SignalAlive, dieVars
  <2>2. Cardinality(At(UnbornLabels)') = Cardinality(At(UnbornLabels))
            + (IF Base'[w] \in UnbornLabels THEN 1 ELSE 0) - (IF Base[w] \in UnbornLabels THEN 1 ELSE 0)
    BY <1>1, AtMoves
  <2>3. Cardinality(At(UnbornLabels)') = Cardinality(At(UnbornLabels)) - 1
    BY <2>1, <2>2, AtFinite DEF UnbornLabels
  <2>4. \A v \in Threads : Base'[v] = "none" <=> loop <= v
    BY <1>1, <1>3, <2>1, WorkersFinite DEF AliveInv
  <2>5. runtime.up /\ Base[0] \notin KillLabels => \A v \in Workers : Base'[v] \notin {"none", "init"} => sig_die'[v]
    BY <1>1, <2>1 DEF AliveInv
  <2> QED
    BY <1>1, <1>3, <2>1, <2>3, <2>4, <2>5 DEF AliveInv
<1> QED
  BY <1>4, <1>5

LEMMA AliveDeath ==
    ASSUME ContextsInv, PlaceInv, AliveInv, NEW w \in Threads, Die(w)
    PROVE  AliveInv'
<1>1. /\ w \in Workers /\ Base[w] = Top(w).at
      /\ \A l \in ThreadLabels : Goto(w, l) => Base'[w] = l
      /\ \A v \in Workers \ {w} : Base'[v] = Base[v]
      /\ Base'[0] = Base[0]
      /\ UNCHANGED <<runtime, loop>>
  BY ThreadFacts DEF ThreadStep
<1>2. /\ Base[w] = "die" /\ Base'[w] = "none"
      /\ ~sig_die[w] /\ sig_die' = [sig_die EXCEPT ![w] = TRUE]
      /\ g_sig_worker_alive' = g_sig_worker_alive - 1 /\ UNCHANGED sig_dying
  BY <1>1 DEF Die, ThreadLabels, UnbornLabels
<1>3. Base[0] \in KillLabels
  <2>1. runtime.up \/ Base[0] \in CreateLabels \cup KillLabels
    BY <1>2 DEF AliveInv
  <2>2. runtime.up => Base[0] \in KillLabels
    BY <1>1, <1>2 DEF AliveInv
  <2>3. Base[0] \notin CreateLabels \/ runtime.up
    BY DEF PlaceInv, CreateLabels
  <2> QED
    BY <2>1, <2>2, <2>3 DEF CreateLabels, KillLabels
<1>4. Cardinality(At(LoopLabels)') = Cardinality(At(LoopLabels))
            + (IF Base'[w] \in LoopLabels THEN 1 ELSE 0) - (IF Base[w] \in LoopLabels THEN 1 ELSE 0)
  BY <1>1, AtMoves
<1>5. Cardinality(At(LoopLabels)') = Cardinality(At(LoopLabels)) - 1
  BY <1>2, <1>4, AtFinite DEF LoopLabels
<1>6. At({"init", "signal"}) = {} => At({"init", "signal"})' = {}
  BY <1>1, <1>2, WorkersFinite DEF At
<1>7. sig_die \in [Workers -> BOOLEAN] /\ sig_dying \in [Workers -> BOOLEAN]
  BY DEF AliveInv
<1>8. sig_die' \in [Workers -> BOOLEAN] /\ sig_dying' \in [Workers -> BOOLEAN]
  BY <1>2, <1>7
<1> QED
  BY <1>1, <1>2, <1>3, <1>5, <1>6, <1>8 DEF AliveInv, CreateLabels, KillLabels

LEMMA LifeThread ==
    ASSUME LifeInv, NEW w \in Threads, ThreadStep(w)
    PROVE  LifeInv'
<1>0. ContextsInv /\ PlaceInv /\ AliveInv /\ BusyInv /\ ScopeInv /\ TaskInv
  BY DEF LifeInv
<1>1. /\ InBase(w) /\ w \in Workers /\ w # 0 /\ Base[w] = Top(w).at /\ Base[w] \notin CountedLabels
      /\ Base'[w] \in ThreadLabels \ CountedLabels /\ Top(w)'.at = Base'[w]
      /\ \A l \in ThreadLabels : Goto(w, l) => Base'[w] = l
      /\ \A v \in Workers \ {w} : Base'[v] = Base[v]
      /\ Base'[0] = Base[0]
      /\ UNCHANGED <<runtime, g_num_tasks_waiting, g_worker_status_board, created, finished, loop, exiting>>
  BY <1>0, ThreadFacts DEF Threads
<1>2. /\ ContextsInv' /\ Others(w)
      /\ contexts'[0][1].scopes = contexts[0][1].scopes /\ OpenScopes' = OpenScopes
      /\ Count(Executing)' = Count(Executing) /\ Count(Holding)' = Count(Holding) /\ Count(Tasks)' = Count(Tasks)
  <2>1. \E l \in ThreadLabels \ CountedLabels : Moves(w, l)
    BY <1>0, ThreadFacts
  <2> QED
    BY <2>1 DEF Moves
<1>3. PlaceInv'
  BY <1>0, <1>1 DEF PlaceInv
<1>4. AliveInv'
  <2>1. CASE LocalInitWorker(w) \/ SignalAlive(w)
    BY <1>0, <2>1, AliveBirth
  <2>2. CASE Die(w)
    BY <1>0, <2>2, AliveDeath
  <2>3. CASE BeginLoop(w) \/ FindNone(w) \/ Look(w) \/ EndIdleTask(w) \/ EndIdle(w)
    <3>1. /\ Base[w] \in LoopLabels
          /\ UNCHANGED <<g_sig_worker_alive, sig_die, sig_dying>>
      BY <1>1, <2>3 DEF BeginLoop, FindNone, Look, EndIdleTask, EndIdle, dieVars, LoopLabels
    <3>2. PICK l \in {"loop", "look", "dying", "end_idle", "die"} : Goto(w, l)
      BY <2>3 DEF BeginLoop, FindNone, Look, EndIdleTask, EndIdle
    <3>3. Base'[w] \in LoopLabels
      BY <1>1, <3>2 DEF LoopLabels, ThreadLabels
    <3>4. \A v \in Threads : Base'[v] = Base[v] \/ (Base[v] \in LoopLabels /\ Base'[v] \in LoopLabels)
      BY <1>1, <3>1, <3>3, WorkersFinite
    <3>5. sig_dying' \in [Workers -> BOOLEAN]
      BY <1>0, <3>1 DEF AliveInv
    <3> QED
      BY <1>0, <1>1, <1>2, <3>1, <3>4, <3>5, AliveElsewhere
  <2> QED
    BY <2>1, <2>2, <2>3 DEF ThreadStep
<1>5. BusyInv'
  <2>1. At({"popped", "executed"})' \subseteq At({"popped", "executed"})
    BY <1>1, WorkersFinite DEF At, CountedLabels
  <2> QED
    BY <1>0, <1>1, <1>2, <2>1 DEF BusyInv
<1>6. ScopeInv'
  BY <1>0, <1>1, <1>2 DEF ScopeInv
<1>7. TaskInv'
  <2>1. ASSUME NEW v \in Workers, InDestroy(v)' PROVE InDestroy(v)
    <3>1. Top(w)'.at \notin {"check_done", "freeze", "recorders", "kill", "wait_dead"}
      BY <1>1 DEF ThreadLabels, UnbornLabels, LoopLabels
    <3>2. v # w
      BY <2>1, <3>1 DEF InDestroy
    <3> QED
      BY <1>2, <2>1, <3>2 DEF InDestroy, Others
  <2> QED
    BY <1>0, <1>1, <1>2, <2>1 DEF TaskInv
<1> QED
  BY <1>2, <1>3, <1>4, <1>5, <1>6, <1>7 DEF LifeInv

LEMMA LifeCode ==
    ASSUME LifeInv, NEW w \in Workers, CodeStep(w)
    PROVE  LifeInv'
<1>0. ContextsInv /\ PlaceInv /\ AliveInv /\ BusyInv /\ ScopeInv /\ TaskInv
  BY DEF LifeInv
<1>1. /\ Keeps(w)
      /\ UNCHANGED <<g_sig_worker_alive, sig_die, sig_dying, loop, exiting>>
      /\ runtime' \in [up : BOOLEAN, init_count : Int, destroyed : BOOLEAN]
      /\ IsFiniteSet(OpenScopes')
      /\ runtime'.init_count - Cardinality(OpenScopes') = runtime.init_count - Cardinality(OpenScopes)
      /\ runtime.up => runtime'.up
  <2>1. CASE UserStep(w)
    BY <1>0, <2>1, CodeScopes
  <2>2. CASE TaskStep(w)
    <3>1. Keeps(w) /\ OpenScopes' = OpenScopes
          /\ UNCHANGED <<runtime, g_sig_worker_alive, sig_die, sig_dying, loop, exiting>>
      BY <1>0, <2>2, CodeTasks
    <3> QED
      BY <1>0, <3>1 DEF ScopeInv, PlaceInv
  <2> QED
    BY <2>1, <2>2 DEF CodeStep
<1>2. contexts'[0][1].scopes = 0 =>
        contexts[0][1].scopes = 0 \/ (Waited /\ UNCHANGED <<created, finished>>)
  <2>1. CASE UserStep(w)
    BY <1>0, <2>1, CodeScopes
  <2>2. CASE TaskStep(w)
    BY <1>0, <2>2, CodeTasks
  <2> QED
    BY <2>1, <2>2 DEF CodeStep
<1>3. /\ InUser(w) \/ Top(w).at \in CallLabels \/ (Top(w).at = "loop" /\ g_num_tasks_waiting > 0)
      /\ Top(w).at # "reread"
  <2>1. InUser(w) \/ Top(w).at \in CallLabels \/ (Top(w).at = "loop" /\ g_num_tasks_waiting > 0)
    BY DEF CodeStep, UserStep, CreateNested, SoftDestroy, Destroy, CloseScope, TaskStep, BeginCreate, Push,
       PushRefused, EndCreate, BeginWait, MayUse, EndWait, Take, Execute, EndTask, NotBusy, CallLabels
  <2> QED
    BY <2>1 DEF InUser, CallLabels
<1>4. /\ Base[0] \notin CreateLabels /\ runtime.up
      /\ w # 0 => Base[w] \in LoopLabels
      /\ w = 0 => Base[0] \in CodeLabels /\ ~exiting
  BY <1>0, <1>3, CodeRuns
<1>5. /\ ContextsInv' /\ Others(w)
      /\ \A v \in Workers \ {w} : Base'[v] = Base[v] /\ Top(v)' = Top(v)
      /\ w = 0 => Base'[0] \in CodeLabels
      /\ w # 0 => Base'[0] = Base[0] /\ Base'[w] \in LoopLabels
      /\ Top(w)'.at \notin {"check_done"} \cup TailLabels
  BY <1>1, <1>4, WorkersFinite DEF Keeps, Others
<1>6. CodeLabels \cap (CreateLabels \cup KillLabels \cup TailLabels \cup {"exit"}) = {}
  BY DEF CodeLabels, CallLabels, CreateLabels, KillLabels, TailLabels
<1>7. PlaceInv'
  BY <1>0, <1>1, <1>4, <1>5, <1>6 DEF PlaceInv
<1>8. AliveInv'
  <2>1. \A v \in Threads : Base'[v] = Base[v] \/ (Base[v] \in LoopLabels /\ Base'[v] \in LoopLabels)
    BY <1>4, <1>5 DEF Threads
  <2>2. Base'[0] = Base[0]
             \/ (Base[0] \notin CreateLabels \cup KillLabels /\ Base'[0] \notin CreateLabels \cup KillLabels)
    BY <1>4, <1>5, <1>6
  <2>3. sig_dying' \in [Workers -> BOOLEAN] /\ runtime'.up = runtime.up
    BY <1>0, <1>1, <1>4 DEF AliveInv, PlaceInv
  <2> QED
    BY <1>0, <1>1, <1>5, <2>1, <2>2, <2>3, AliveElsewhere
<1>9. Base'[0] \notin CreateLabels /\ runtime'.up
  BY <1>1, <1>4, <1>5, <1>6
<1>10. BusyInv'
  BY <1>1, <1>9 DEF BusyInv, Keeps
<1>11. ScopeInv'
  <2>1. ~exiting => runtime.init_count = Cardinality(OpenScopes)
    BY <1>0, <1>4 DEF ScopeInv
  <2>2. runtime.init_count \in Int /\ runtime'.init_count \in Int
    BY <1>0, <1>1 DEF PlaceInv
  <2>3. Cardinality(OpenScopes') \in Nat /\ Cardinality(OpenScopes) \in Nat
    BY <1>0, <1>1, FS_CardinalityType DEF ScopeInv
  <2>4. \A i, j \in Int : \A m, n \in Nat : i - m = j - n /\ j = n => i = m
    OBVIOUS
  <2>5. ~exiting => runtime'.init_count = Cardinality(OpenScopes')
    BY <1>1, <2>1, <2>2, <2>3, <2>4
  <2> QED
    BY <1>1, <1>9, <2>5 DEF ScopeInv
<1>12. TaskInv'
  <2>1. /\ Count(Executing) \in Nat /\ Count(Holding) \in Nat /\ Count(Tasks) \in Nat
        /\ ~InBase(w) => Count(Tasks) > 0
    BY <1>0, Counted
  <2>2. /\ Count(Executing)' \in Nat /\ Count(Holding)' \in Nat /\ Count(Tasks)' \in Nat
    <3>1. ContextsInv' => /\ Count(Executing)' \in Nat /\ Count(Holding)' \in Nat /\ Count(Tasks)' \in Nat
      <4>1. ASSUME NEW S, ContextsInv' PROVE Cardinality(Marks' \cap S) \in Nat
        BY <4>1, FS_Intersection, FS_CardinalityType DEF ContextsInv
      <4>2. /\ Count(Executing)' = Cardinality(Marks' \cap Executing)
            /\ Count(Holding)' = Cardinality(Marks' \cap Holding)
            /\ Count(Tasks)' = Cardinality(Marks' \cap Tasks)
        BY DEF Count, Executing, Holding, Tasks
      <4> QED
        BY <4>1, <4>2
    <3> QED
      BY <1>5, <3>1
  <2>3. /\ created \in Nat /\ finished \in Nat /\ g_num_tasks_waiting \in Nat
        /\ created - finished >= g_num_tasks_waiting + Count(Holding) + Count(Tasks)
        /\ g_worker_status_board \in Nat /\ g_worker_status_board <= Count(Tasks) + finished
        /\ Structured => created - finished = g_num_tasks_waiting + Count(Holding) + Count(Tasks)
    BY <1>0, <2>1 DEF TaskInv, BusyInv
  <2>4. /\ created' \in 0 .. MaxTasks /\ created' \in Nat /\ finished' \in Nat /\ g_num_tasks_waiting' \in Nat
        /\ g_worker_status_board' \in Nat
        /\ g_worker_status_board' - (Count(Tasks)' + finished') <= g_worker_status_board - (Count(Tasks) + finished)
        /\ (created' - finished') - (g_num_tasks_waiting' + Count(Holding)' + Count(Tasks)')
             = (created - finished) - (g_num_tasks_waiting + Count(Holding) + Count(Tasks))
    BY <1>1, <2>2 DEF Keeps, Balance
  <2>5. \A c, f, q, h, t, d, g, r, i, u \in Nat :
            (d - g) - (r + i + u) = (c - f) - (q + h + t) =>
                /\ c - f >= q + h + t => d - g >= r + i + u
                /\ c - f = q + h + t => d - g = r + i + u
    OBVIOUS
  <2>6. \A b, t, f, d, u, g \in Nat : d - (u + g) <= b - (t + f) /\ b <= t + f => d <= u + g
    OBVIOUS
  <2>7. /\ created' - finished' >= g_num_tasks_waiting' + Count(Holding)' + Count(Tasks)'
        /\ g_worker_status_board' <= Count(Tasks)' + finished'
        /\ Structured => created' - finished' = g_num_tasks_waiting' + Count(Holding)' + Count(Tasks)'
    BY <2>1, <2>2, <2>3, <2>4, <2>5, <2>6
  <2>8. finished = created => InBase(w)
    BY <2>1, <2>3
  <2>9. (created' = created /\ finished' = finished) \/ ~InBase(w) \/ (w = 0 /\ contexts[0][1].scopes > 0)
    BY <1>1 DEF Keeps
  <2>10. ASSUME Structured, contexts'[0][1].scopes = 0 \/ exiting PROVE finished' = created'
    <3>1. CASE Waited /\ UNCHANGED <<created, finished>>
      BY <2>10, <3>1 DEF Waited
    <3>2. CASE contexts[0][1].scopes = 0 \/ exiting
      <4>1. finished = created
        BY <1>0, <2>10, <3>2 DEF TaskInv
      <4>2. ~(w = 0 /\ contexts[0][1].scopes > 0)
        BY <1>4, <3>2
      <4> QED
        BY <2>8, <2>9, <4>1, <4>2
    <3> QED
      BY <1>2, <2>10, <3>1, <3>2
  <2>11. ASSUME Structured, NEW v \in Workers, InDestroy(v)' PROVE v = 0 /\ finished' = created'
    <3>1. v # w
      BY <1>5, <2>11 DEF InDestroy, TailLabels, KillLabels
    <3>2. v = 0 /\ finished = created /\ w # 0
      BY <1>0, <1>5, <2>11, <3>1 DEF TaskInv, InDestroy
    <3> QED
      BY <2>8, <2>9, <3>2
  <2> QED
    BY <1>1, <2>4, <2>7, <2>10, <2>11 DEF TaskInv
<1> QED
  BY <1>5, <1>7, <1>8, <1>10, <1>11, <1>12 DEF LifeInv

\* The main program stays where it is.
LEMMA StillFacts ==
    ASSUME ContextsInv, UNCHANGED contexts
    PROVE  /\ ContextsInv' /\ Base' = Base /\ OpenScopes' = OpenScopes
           /\ \A v \in Workers : Top(v)' = Top(v)
           /\ Count(Executing)' = Count(Executing) /\ Count(Holding)' = Count(Holding)
           /\ Count(Tasks)' = Count(Tasks)
<1>1. Marks' = Marks /\ OpenScopes' = OpenScopes /\ Base' = Base
  BY DEF Marks, OpenScopes, Base
<1>2. \A v \in Workers : Top(v)' = Top(v)
  BY DEF Top, Last
<1>3. ContextsInv'
  BY <1>1 DEF ContextsInv
<1>4. /\ Count(Executing)' = Count(Executing) /\ Count(Holding)' = Count(Holding)
      /\ Count(Tasks)' = Count(Tasks)
  BY <1>1 DEF Count, Executing, Holding, Tasks
<1> QED
  BY <1>1, <1>2, <1>3, <1>4

\* All stand in their base contexts and do nothing that is counted.
LEMMA NoCounts ==
    ASSUME \A v \in Workers : Len(contexts'[v]) = 1 /\ contexts'[v][1].at \notin CountedLabels
    PROVE  Count(Executing)' = 0 /\ Count(Holding)' = 0 /\ Count(Tasks)' = 0
<1>1. /\ Count(Executing)' = Cardinality(Marks' \cap Executing)
      /\ Count(Holding)' = Cardinality(Marks' \cap Holding)
      /\ Count(Tasks)' = Cardinality(Marks' \cap Tasks)
  BY DEF Count, Executing, Holding, Tasks
<1>2. ASSUME NEW m \in Marks' PROVE m \notin Executing /\ m \notin Holding /\ m \notin Tasks
  <2>1. m[1] \in Workers /\ m[2] \in 1 .. Len(contexts'[m[1]]) /\ contexts'[m[1]][m[2]].at = m[3]
    BY DEF Marks
  <2>2. m[2] = 1 /\ m[3] \notin CountedLabels
    BY <2>1
  <2> QED
    BY <2>2 DEF Executing, Holding, Tasks, CountedLabels
<1>3. Marks' \cap Executing = {} /\ Marks' \cap Holding = {} /\ Marks' \cap Tasks = {}
  BY <1>2
<1> QED
  BY <1>1, <1>3, FS_EmptySet

\* A scope that the main program has open below all tasks is open.
LEMMA MainScope ==
    ASSUME ContextsInv, ScopeInv, OpenScopes = {} \/ Cardinality(OpenScopes) <= 0
    PROVE  OpenScopes = {} /\ contexts[0][1].scopes = 0
<1>1. OpenScopes = {}
  BY FS_EmptySet, FS_CardinalityType DEF ScopeInv
<1>2. Depth(0) \in Nat \ {0} /\ contexts[0][1] \in Contexts
  BY WorkersFinite, TopFacts
<1>3. contexts[0][1].scopes \in Nat /\ (contexts[0][1].scopes # 0 => 1 \in 1 .. contexts[0][1].scopes)
  BY <1>2 DEF Contexts
<1>4. contexts[0][1].scopes # 0 => <<0, 1, 1>> \in OpenScopes
  BY <1>2, <1>3, WorkersFinite, ScopesIn DEF Depth
<1> QED
  BY <1>1, <1>4

\* The mirror of it: a main program that executes a task is within a scope.
LEMMA LastScope ==
    ASSUME LifeInv, NEW w \in Workers, Top(w).at = "reread", runtime.init_count <= 0
    PROVE  /\ ~InBase(w) => w # 0
           /\ Structured => w = 0 /\ finished = created
<1>0. ContextsInv /\ PlaceInv /\ AliveInv /\ BusyInv /\ ScopeInv /\ TaskInv
  BY DEF LifeInv
<1>1. Base[0] \notin CreateLabels /\ runtime.up
  BY <1>0, CodeRuns
<1>2. /\ Fits(w, Top(w))
      /\ ~InBase(w) => Base[w] \in {"created", "executed"}
  BY <1>0, TopFits
<1>3. ASSUME ~exiting PROVE contexts[0][1].scopes = 0
  <2>1. Cardinality(OpenScopes) <= 0
    BY <1>0, <1>1, <1>3 DEF ScopeInv
  <2> QED
    BY <1>0, <2>1, MainScope
<1>4. ASSUME ~InBase(w), w = 0 PROVE FALSE
  <2>1. Base[0] \in CallLabels /\ ~exiting
    BY <1>0, <1>2, <1>4 DEF CallLabels, PlaceInv, TailLabels, KillLabels
  <2> QED
    BY <1>0, <1>3, <2>1 DEF ContextsInv
<1>5. ASSUME Structured PROVE w = 0 /\ finished = created
  <2>1. finished = created
    BY <1>0, <1>3, <1>5 DEF TaskInv
  <2>2. InBase(w)
    <3>1. /\ Count(Holding) \in Nat /\ Count(Tasks) \in Nat /\ (~InBase(w) => Count(Tasks) > 0)
      BY <1>0, Counted
    <3>2. /\ created \in Nat /\ g_num_tasks_waiting \in Nat
          /\ created - finished = g_num_tasks_waiting + Count(Holding) + Count(Tasks)
      BY <1>0, <1>5 DEF TaskInv, BusyInv
    <3> QED
      BY <2>1, <3>1, <3>2
  <2>3. w = 0
    BY <1>2, <2>2 DEF Fits, ThreadLabels, UnbornLabels, LoopLabels
  <2> QED
    BY <2>1, <2>3
<1> QED
  BY <1>4, <1>5

LEMMA LifeReread ==
    ASSUME LifeInv, NEW w \in Workers, Reread(w)
    PROVE  LifeInv'
<1>0. ContextsInv /\ PlaceInv /\ AliveInv /\ BusyInv /\ ScopeInv /\ TaskInv
  BY DEF LifeInv
<1>1. /\ Top(w).at = "reread"
      /\ UNCHANGED <<g_sig_worker_alive, g_num_tasks_waiting, g_worker_status_board, created, finished,
                     sig_die, sig_dying, loop, exiting>>
  BY DEF Reread, taskVars, dieVars, userVars
<1>2. /\ Base[0] \notin CreateLabels /\ runtime.up
      /\ w = 0 => Base[0] \in CodeLabels
  BY <1>0, <1>1, CodeRuns
<1>3. /\ Fits(w, Top(w)) /\ Top(w).scopes \in Nat
      /\ InBase(w) => Base[w] = Top(w).at
      /\ ~InBase(w) => Base[w] \in {"created", "executed"}
  BY <1>0, TopFits
<1>4. InBase(w) => w = 0
  BY <1>1, <1>3 DEF Fits, ThreadLabels, UnbornLabels, LoopLabels
<1>5. w = 0 /\ exiting => InBase(0)
  BY <1>0, <1>3 DEF PlaceInv, TailLabels, KillLabels
<1>6. PICK l \in {"check_done", "run", "exit"} :
        /\ Goto(w, l)
        /\ l = "exit" <=> ~(runtime.init_count <= 0) /\ w = 0 /\ exiting
        /\ l = "check_done" <=> runtime.init_count <= 0
  BY DEF Reread, Caller
<1>7. l \in Labels /\ l \in MainLabels /\ l \notin CallLabels /\ l \notin CountedLabels
      /\ l \notin CreateLabels \cup TailLabels \cup KillLabels /\ (l # "exit" => l \in CodeLabels)
      /\ Top(w).at \notin CountedLabels
  BY <1>1 DEF Labels, MainLabels, CodeLabels, CallLabels, CountedLabels, CreateLabels, TailLabels, KillLabels
<1>8. Fits(w, Put(w, l))
  <2>1. Put(w, l) \in Contexts /\ Put(w, l).at = l
    BY <1>3, <1>7 DEF Put, Contexts
  <2>2. ~InBase(w) => l \in CodeLabels /\ (w = 0 => l # "check_done")
    BY <1>1, <1>5, <1>6, <1>7, LastScope
  <2> QED
    BY <1>4, <1>7, <2>1, <2>2 DEF Fits
<1>9. /\ ContextsInv' /\ Others(w) /\ Top(w)'.at = l
      /\ Base'[w] = (IF InBase(w) THEN l ELSE Base[w])
      /\ contexts'[0][1].scopes = contexts[0][1].scopes /\ OpenScopes' = OpenScopes
      /\ Count(Executing)' = Count(Executing) /\ Count(Holding)' = Count(Holding) /\ Count(Tasks)' = Count(Tasks)
  BY <1>0, <1>6, <1>7, <1>8, MoveFacts DEF Moves
<1>10. /\ \A v \in Threads : Base'[v] = Base[v]
       /\ Base'[0] = Base[0] \/ (w = 0 /\ InBase(0) /\ Base'[0] = l)
  BY <1>4, <1>9, WorkersFinite DEF Others, Threads
<1>11. /\ runtime' \in [up : BOOLEAN, init_count : Int, destroyed : BOOLEAN] /\ runtime'.up
       /\ runtime'.init_count = runtime.init_count
  BY <1>0, <1>2 DEF Reread, PlaceInv
<1>12. PlaceInv'
  BY <1>0, <1>1, <1>6, <1>10, <1>11 DEF PlaceInv
<1>13. AliveInv'
  <2>1. Base'[0] = Base[0]
             \/ (Base[0] \notin CreateLabels \cup KillLabels /\ Base'[0] \notin CreateLabels \cup KillLabels)
    BY <1>1, <1>3, <1>7, <1>10 DEF CreateLabels, KillLabels
  <2>2. sig_dying' \in [Workers -> BOOLEAN]
    BY <1>0, <1>1 DEF AliveInv
  <2> QED
    BY <1>0, <1>1, <1>2, <1>9, <1>10, <1>11, <2>1, <2>2, AliveElsewhere
<1>14. Base'[0] \notin CreateLabels
  BY <1>2, <1>7, <1>10
<1>15. BusyInv'
  BY <1>0, <1>1, <1>9, <1>11, <1>14 DEF BusyInv
<1>16. ScopeInv'
  BY <1>0, <1>1, <1>2, <1>9, <1>11, <1>14 DEF ScopeInv
<1>17. TaskInv'
  <2>1. ASSUME Structured, NEW v \in Workers, InDestroy(v)' PROVE v = 0 /\ finished = created
    <3>1. CASE v = w
      <4>1. l = "check_done"
        BY <1>9, <2>1, <3>1 DEF InDestroy
      <4> QED
        BY <1>1, <1>6, <2>1, <3>1, <4>1, LastScope
    <3>2. CASE v # w
      BY <1>0, <1>9, <2>1, <3>2 DEF InDestroy, Others, TaskInv
    <3> QED
      BY <3>1, <3>2
  <2> QED
    BY <1>0, <1>1, <1>9, <2>1 DEF TaskInv
<1> QED
  BY <1>9, <1>12, <1>13, <1>15, <1>16, <1>17 DEF LifeInv

\* Only the main program goes on to the tail of mir_destroy: a thread that has come
\* as far executes a task, and is on the status board.
LEMMA OnlyMainDestroys ==
    ASSUME LifeInv, NEW w \in Workers,
           Top(w).at \in TailLabels \/ (Top(w).at = "check_done" /\ g_worker_status_board = 0)
    PROVE  w = 0 /\ InBase(0) /\ Base[0] = Top(0).at /\ runtime.up /\ contexts[0][1] = Top(0)
<1>0. ContextsInv /\ PlaceInv /\ BusyInv
  BY DEF LifeInv
<1>1. /\ Fits(w, Top(w))
      /\ InBase(w) => Base[w] = Top(w).at /\ contexts[w][1] = Top(w)
      /\ ~InBase(w) /\ w # 0 => Base[w] = "executed"
  BY <1>0, TopFits
<1>2. ~InBase(w) => w # 0 /\ Top(w).at = "check_done"
  BY <1>1 DEF Fits, CodeLabels, CallLabels, TailLabels, KillLabels
<1>3. ~InBase(w) => g_worker_status_board # 0
  BY <1>0, <1>1, <1>2, Counted DEF BusyInv
<1>4. InBase(w)
  BY <1>2, <1>3 DEF TailLabels, KillLabels
<1>5. w = 0
  BY <1>1, <1>4 DEF Fits, ThreadLabels, UnbornLabels, LoopLabels, TailLabels, KillLabels
<1>6. runtime.up
  BY <1>0, <1>1, <1>4, <1>5 DEF PlaceInv, TailLabels, KillLabels
<1> QED
  BY <1>1, <1>4, <1>5, <1>6

\* The tail of mir_destroy until it waits for the dead.
TailStep(w) == CheckDone(w) \/ Freeze(w) \/ ShutRecorders(w) \/ Kill(w)

LEMMA TailFacts ==
    ASSUME LifeInv, NEW w \in Workers, TailStep(w)
    PROVE  /\ w = 0 /\ InBase(0) /\ Base[0] = Top(0).at /\ runtime.up
           /\ ContextsInv' /\ Base'[0] \in TailLabels /\ Top(0)'.at = Base'[0]
           /\ \A v \in Threads : Base'[v] = Base[v] /\ Top(v)' = Top(v)
           /\ contexts'[0][1].scopes = contexts[0][1].scopes /\ OpenScopes' = OpenScopes
           /\ Count(Executing)' = Count(Executing) /\ Count(Holding)' = Count(Holding)
           /\ Count(Tasks)' = Count(Tasks)
           /\ \A l \in TailLabels : Goto(0, l) => Base'[0] = l
           /\ UNCHANGED contexts => Base'[0] = Base[0]
<1>0. ContextsInv
  BY DEF LifeInv
<1>1. Top(w).at \in TailLabels \/ (Top(w).at = "check_done" /\ g_worker_status_board = 0)
  BY DEF TailStep, CheckDone, Freeze, ShutRecorders, Kill, TailLabels, KillLabels
<1>2. w = 0 /\ InBase(0) /\ Base[0] = Top(0).at /\ runtime.up
  BY <1>1, OnlyMainDestroys
<1>3. Top(0).scopes \in Nat
  BY <1>0, <1>2, TopFits
<1>4. TailLabels \cap CountedLabels = {} /\ Top(0).at \notin CountedLabels /\ TailLabels \subseteq Labels
      /\ TailLabels \subseteq MainLabels /\ TailLabels \cap CallLabels = {}
  BY <1>1, <1>2 DEF TailLabels, KillLabels, CountedLabels, Labels, MainLabels, CallLabels
<1>5. ASSUME NEW l \in TailLabels, Goto(0, l) PROVE Moves(0, l)
  <2>1. Put(0, l) \in Contexts /\ Put(0, l).at = l
    BY <1>3, <1>4 DEF Put, Contexts
  <2>2. Fits(0, Put(0, l))
    BY <1>2, <1>4, <2>1 DEF Fits
  <2> QED
    BY <1>0, <1>4, <1>5, <2>2, WorkersFinite, MoveFacts
<1>6. (\E l \in TailLabels : Goto(0, l)) \/ (UNCHANGED contexts /\ Top(0).at \in TailLabels)
  BY <1>1, <1>2 DEF TailStep, CheckDone, Freeze, ShutRecorders, Kill, TailLabels, KillLabels
<1>7. CASE \E l \in TailLabels : Goto(0, l)
  <2>1. PICK l \in TailLabels : Goto(0, l)
    BY <1>7
  <2>2. Moves(0, l)
    BY <1>5, <2>1
  <2>3. \A k \in TailLabels : Goto(0, k) => Base'[0] = k
    BY <1>2, <1>5 DEF Moves
  <2>4. UNCHANGED contexts => Base'[0] = Base[0]
    BY DEF Base
  <2> QED
    BY <1>2, <2>2, <2>3, <2>4 DEF Moves, Others, Threads
<1>8. CASE UNCHANGED contexts /\ Top(0).at \in TailLabels
  <2>1. \A k \in TailLabels : Goto(0, k) => Base'[0] = k
    BY <1>2, <1>5 DEF Moves
  <2> QED
    BY <1>0, <1>2, <1>8, <2>1, StillFacts, WorkersFinite
<1> QED
  BY <1>6, <1>7, <1>8

LEMMA LifeTail ==
    ASSUME LifeInv, NEW w \in Workers, TailStep(w)
    PROVE  LifeInv'
<1>0. ContextsInv /\ PlaceInv /\ AliveInv /\ BusyInv /\ ScopeInv /\ TaskInv
  BY DEF LifeInv
<1>1. /\ w = 0 /\ InBase(0) /\ Base[0] = Top(0).at /\ runtime.up
      /\ ContextsInv' /\ Base'[0] \in TailLabels /\ Top(0)'.at = Base'[0]
      /\ \A v \in Threads : Base'[v] = Base[v] /\ Top(v)' = Top(v)
      /\ contexts'[0][1].scopes = contexts[0][1].scopes /\ OpenScopes' = OpenScopes
      /\ Count(Executing)' = Count(Executing) /\ Count(Holding)' = Count(Holding)
      /\ Count(Tasks)' = Count(Tasks)
      /\ \A l \in TailLabels : Goto(0, l) => Base'[0] = l
      /\ UNCHANGED contexts => Base'[0] = Base[0]
  BY TailFacts
<1>2. /\ UNCHANGED <<runtime, g_num_tasks_waiting, g_worker_status_board, created, finished, exiting>>
      /\ Top(0).at \in {"check_done"} \cup TailLabels
  BY <1>1 DEF TailStep, CheckDone, Freeze, ShutRecorders, Kill, taskVars, userVars, TailLabels, KillLabels
<1>3. loop' \in 0 .. NumWorkers
  <2>1. loop \in 0 .. NumWorkers /\ (loop < NumWorkers => loop + 1 \in 0 .. NumWorkers) /\ 0 \in 0 .. NumWorkers
    BY <1>0 DEF PlaceInv
  <2> QED
    BY <2>1 DEF TailStep, CheckDone, Freeze, ShutRecorders, Kill
<1>4. TailLabels \cap (CreateLabels \cup {"exit", "run"}) = {} /\ Base[0] \notin CreateLabels
  BY <1>1, <1>2 DEF TailLabels, KillLabels, CreateLabels
<1>5. PlaceInv'
  BY <1>0, <1>1, <1>2, <1>3, <1>4 DEF PlaceInv
<1>6. AliveInv'
  <2>1. sig_die \in [Workers -> BOOLEAN] /\ sig_dying \in [Workers -> BOOLEAN]
    BY <1>0 DEF AliveInv
  <2>2. CASE CheckDone(w) \/ Freeze(w)
    <3>1. /\ UNCHANGED <<g_sig_worker_alive, sig_die>> /\ Base[0] \in {"check_done", "freeze"}
          /\ UNCHANGED sig_dying \/ sig_dying' = [sig_dying EXCEPT ![loop] = TRUE]
          /\ UNCHANGED contexts \/ \E l \in {"freeze", "recorders"} : Goto(0, l)
      BY <1>1, <2>2 DEF CheckDone, Freeze, dieVars
    <3>2. Base'[0] \in {"check_done", "freeze", "recorders"}
      BY <1>1, <3>1 DEF TailLabels
    <3>3. sig_dying' \in [Workers -> BOOLEAN]
      BY <2>1, <3>1
    <3> QED
      BY <1>0, <1>1, <1>2, <3>1, <3>2, <3>3, AliveElsewhere DEF CreateLabels, KillLabels
  <2>3. CASE ShutRecorders(w)
    <3>1. /\ UNCHANGED <<sig_die, sig_dying>> /\ Base[0] = "recorders"
      BY <1>1, <2>3 DEF ShutRecorders, dieVars
    <3>2. CASE UNCHANGED <<contexts, g_sig_worker_alive>>
      <4>1. Base'[0] = Base[0]
        BY <1>1, <3>2
      <4> QED
        BY <1>0, <1>1, <1>2, <2>1, <3>1, <3>2, <4>1, AliveElsewhere DEF CreateLabels
    <3>3. CASE Goto(0, "kill") /\ g_sig_worker_alive' = g_sig_worker_alive + NumWorkers - 1
      <4>1. Base'[0] = "kill"
        BY <1>1, <3>3 DEF TailLabels, KillLabels
      <4>2. /\ g_sig_worker_alive = 0 /\ \A v \in Threads : Base[v] \notin UnbornLabels
        BY <1>0, <1>1, <3>1 DEF AliveInv, CreateLabels, KillLabels
      <4>3. At(LoopLabels)' = Threads /\ At({"init", "signal"})' = {}
        BY <1>0, <1>1, <4>2 DEF At, ContextsInv, ThreadLabels, UnbornLabels
      <4> QED
        BY <1>1, <2>1, <3>1, <3>3, <4>1, <4>2, <4>3, WorkersFinite DEF AliveInv, CreateLabels, KillLabels
    <3> QED
      BY <1>1, <2>3, <3>2, <3>3 DEF ShutRecorders
  <2>4. CASE Kill(w)
    <3>1. /\ Base[0] = "kill" /\ UNCHANGED <<sig_dying, g_sig_worker_alive>>
          /\ sig_die' = [sig_die EXCEPT ![loop] = FALSE] \/ UNCHANGED sig_die
          /\ UNCHANGED contexts \/ Goto(0, "wait_dead")
      BY <1>1, <2>4 DEF Kill
    <3>2. Base'[0] \in {"kill", "wait_dead"}
      BY <1>1, <3>1 DEF TailLabels, KillLabels
    <3>3. sig_die' \in [Workers -> BOOLEAN]
      BY <2>1, <3>1
    <3>4. At(LoopLabels)' = At(LoopLabels) /\ At({"init", "signal"})' = At({"init", "signal"})
      BY <1>1, AtKept
    <3> QED
      BY <1>0, <2>1, <3>1, <3>2, <3>3, <3>4 DEF AliveInv, CreateLabels, KillLabels
  <2> QED
    BY <2>2, <2>3, <2>4 DEF TailStep
<1>7. BusyInv'
  BY <1>0, <1>1, <1>2, <1>4 DEF BusyInv
<1>8. ScopeInv'
  BY <1>0, <1>1, <1>2, <1>4 DEF ScopeInv
<1>9. TaskInv'
  <2>1. ASSUME NEW v \in Workers, InDestroy(v)' PROVE InDestroy(v)
    BY <1>1, <1>2, <2>1 DEF InDestroy, Threads, TailLabels, KillLabels
  <2> QED
    BY <1>0, <1>1, <1>2, <2>1 DEF TaskInv
<1> QED
  BY <1>1, <1>5, <1>6, <1>7, <1>8, <1>9 DEF LifeInv

\* When the count has come to zero, every thread has ended.
LEMMA AllDead ==
    ASSUME LifeInv, WaitDead(0)
    PROVE  /\ \A v \in Threads : Base[v] = "none" /\ InBase(v)
           /\ Base[0] = "wait_dead" /\ InBase(0) /\ runtime.up
<1>0. ContextsInv /\ AliveInv
  BY DEF LifeInv
<1>1. /\ Top(0).at = "wait_dead" /\ g_sig_worker_alive = 0
      /\ Base[0] = "wait_dead" /\ InBase(0) /\ runtime.up
  BY WorkersFinite, OnlyMainDestroys DEF WaitDead, TailLabels, KillLabels
<1>2. At(LoopLabels) = {} /\ At({"init", "signal"}) = {}
  BY <1>0, <1>1, AtFinite DEF AliveInv, CreateLabels, KillLabels
<1>3. \A v \in Threads : Base[v] = "none"
  BY <1>0, <1>2 DEF At, ContextsInv, ThreadLabels, UnbornLabels
<1>4. \A v \in Threads : InBase(v)
  BY <1>0, <1>3, TopFits, WorkersFinite
<1> QED
  BY <1>1, <1>3, <1>4

LEMMA LifeWaitDead ==
    ASSUME LifeInv, NEW w \in Workers, WaitDead(w)
    PROVE  LifeInv'
<1>0. ContextsInv /\ PlaceInv /\ AliveInv /\ BusyInv /\ ScopeInv /\ TaskInv
  BY DEF LifeInv
<1>1. w = 0 /\ InBase(0) /\ Base[0] = Top(0).at /\ runtime.up /\ Top(0).at = "wait_dead"
  BY OnlyMainDestroys DEF WaitDead, TailLabels, KillLabels
<1>2. \A v \in Threads : Base[v] = "none" /\ InBase(v)
  BY <1>1, AllDead
<1> DEFINE l == Caller(0)
           c == Context(l)
<1>3. /\ l \in {"exit", "run"} /\ (l = "exit" <=> exiting) /\ c.at = l /\ c.scopes = 0
      /\ l \in Labels /\ l \in MainLabels /\ l \notin CallLabels
      /\ l \notin CountedLabels \cup CreateLabels \cup KillLabels
      /\ c \in Contexts
  BY DEF Caller, Context, Contexts, Labels, MainLabels, CodeLabels, CallLabels, CountedLabels, CreateLabels,
     KillLabels
<1>4. Sets(0, c) /\ contexts' = [contexts EXCEPT ![0] = <<c>>]
  <2>1. Depth(0) = 1 /\ contexts[0] \in Seq(Contexts)
    BY <1>0, WorkersFinite, TopFacts, <1>1 DEF InBase, Depth
  <2>2. [contexts[0] EXCEPT ![1] = c] = <<c>>
    BY <2>1 DEF Depth
  <2>3. contexts' = [contexts EXCEPT ![0] = <<c>>]
    BY <1>1 DEF WaitDead
  <2> QED
    BY <2>1, <2>2, <2>3 DEF Sets
<1> HIDE DEF l, c
<1>5. Fits(0, c)
  BY <1>1, <1>3 DEF Fits
<1>6. /\ ContextsInv' /\ Others(0) /\ Top(0)' = c /\ Base'[0] = l
      /\ contexts'[0][1].scopes = 0
  BY <1>0, <1>1, <1>3, <1>4, <1>5, WorkersFinite, SetsAll
<1>7. /\ runtime' = NoRuntime /\ g_num_tasks_waiting' = 0 /\ g_worker_status_board' = 0
      /\ UNCHANGED <<g_sig_worker_alive, created, finished, sig_die, sig_dying, loop, exiting>>
      /\ g_sig_worker_alive = 0
  BY DEF WaitDead, dieVars, userVars
<1>8. \A v \in Threads : Base'[v] = "none" /\ contexts'[v] = contexts[v] /\ Top(v)' = Top(v)
  BY <1>2, <1>6, WorkersFinite DEF Others, Threads
<1>9. \A v \in Workers : /\ Len(contexts'[v]) = 1 /\ contexts'[v][1].scopes = 0
                         /\ contexts'[v][1].at = Base'[v] /\ Base'[v] \notin CountedLabels
  <2>1. \A v \in Threads : /\ Len(contexts'[v]) = 1 /\ contexts'[v][1].scopes = 0
                           /\ contexts'[v][1].at = Base'[v] /\ Base'[v] \notin CountedLabels
    <3> TAKE v \in Threads
    <3>1. v \in Workers /\ contexts'[v] = contexts[v] /\ Base[v] = "none" /\ Base'[v] = "none" /\ InBase(v)
      BY <1>2, <1>8, WorkersFinite
    <3>2. Len(contexts[v]) = 1 /\ contexts[v][1].scopes = 0 /\ contexts[v][1].at = "none"
      BY <1>0, <3>1 DEF InBase, ContextsInv, Base
    <3> QED
      BY <3>1, <3>2 DEF CountedLabels
  <2>2. /\ Len(contexts'[0]) = 1 /\ contexts'[0][1].scopes = 0
        /\ contexts'[0][1].at = Base'[0] /\ Base'[0] \notin CountedLabels
    <3>1. contexts'[0] = <<c>>
      BY <1>0, <1>4, WorkersFinite DEF ContextsInv
    <3> QED
      BY <1>3, <1>6, <3>1, WorkersFinite
  <2> QED
    BY <2>1, <2>2 DEF Threads
<1>10. Count(Executing)' = 0 /\ Count(Holding)' = 0 /\ Count(Tasks)' = 0
  BY <1>9, NoCounts
<1>11. PlaceInv'
  BY <1>0, <1>3, <1>6, <1>7 DEF PlaceInv, NoRuntime
<1>12. AliveInv'
  BY <1>0, <1>3, <1>6, <1>7, <1>8 DEF AliveInv, NoRuntime
<1>13. BusyInv'
  <2>1. At({"popped", "executed"})' = {}
    BY <1>8 DEF At
  <2> QED
    BY <1>7, <1>10, <2>1 DEF BusyInv
<1>14. ScopeInv'
  <2>1. OpenScopes' = {}
    <3>1. ASSUME NEW m \in OpenScopes' PROVE FALSE
      <4>1. m[1] \in Workers /\ m[2] \in 1 .. Len(contexts'[m[1]]) /\ m[3] \in 1 .. contexts'[m[1]][m[2]].scopes
        BY DEF OpenScopes
      <4>2. m[2] = 1 /\ m[3] \in 1 .. 0
        BY <1>9, <4>1
      <4> QED
        BY <4>2
    <3> QED
      BY <3>1
  <2>2. IsFiniteSet(OpenScopes')
    BY <2>1, FS_EmptySet
  <2> QED
    BY <1>6, <1>7, <1>3, <2>2 DEF ScopeInv, NoRuntime
<1>15. TaskInv'
  <2>1. /\ Count(Executing) \in Nat /\ Count(Holding) \in Nat /\ Count(Tasks) \in Nat
    BY <1>0, WorkersFinite, Counted
  <2>2. /\ created \in 0 .. MaxTasks /\ created \in Nat /\ finished \in Nat /\ g_num_tasks_waiting \in Nat
        /\ created - finished >= g_num_tasks_waiting + Count(Holding) + Count(Tasks)
    BY <1>0 DEF TaskInv, BusyInv
  <2>3. created - finished >= 0 + 0 + 0 /\ 0 <= 0 + finished
    BY <2>1, <2>2
  <2>4. Structured => finished = created
    BY <1>0, <1>1, WorkersFinite DEF TaskInv, InDestroy
  <2>5. Structured => created - finished = 0 + 0 + 0
    BY <2>2, <2>4
  <2>6. \A v \in Workers : ~InDestroy(v)'
    <3>1. \A v \in Threads : ~InDestroy(v)'
      BY <1>0, <1>2, <1>8, TopFits, WorkersFinite DEF InDestroy
    <3>2. ~InDestroy(0)'
      BY <1>3, <1>6 DEF InDestroy
    <3> QED
      BY <3>1, <3>2 DEF Threads
  <2> QED
    BY <1>7, <1>10, <2>2, <2>3, <2>4, <2>5, <2>6 DEF TaskInv
<1> QED
  BY <1>6, <1>11, <1>12, <1>13, <1>14, <1>15 DEF LifeInv

\* A step of the main program by itself.
LEMMA MainFacts ==
    ASSUME LifeInv, NEW l \in MainLabels, Goto(0, l), l \notin CallLabels,
           Top(0).at \in {"run", "spawn", "exit"}, InBase(0)
    PROVE  /\ ContextsInv' /\ Base[0] = Top(0).at /\ Base'[0] = l /\ Top(0)'.at = l
           /\ \A v \in Threads : Base'[v] = Base[v] /\ Top(v)' = Top(v)
           /\ contexts'[0][1].scopes = contexts[0][1].scopes /\ OpenScopes' = OpenScopes
           /\ Count(Executing)' = Count(Executing) /\ Count(Holding)' = Count(Holding)
           /\ Count(Tasks)' = Count(Tasks)
<1>0. ContextsInv
  BY DEF LifeInv
<1>1. Base[0] = Top(0).at /\ Top(0).scopes \in Nat
  BY <1>0, WorkersFinite, TopFits
<1>2. l \in Labels /\ l \notin CountedLabels /\ Top(0).at \notin CountedLabels
  BY DEF Labels, CountedLabels, CallLabels
<1>3. Put(0, l) \in Contexts /\ Put(0, l).at = l
  BY <1>1, <1>2 DEF Put, Contexts
<1>4. Fits(0, Put(0, l))
  BY <1>3 DEF Fits
<1>5. Moves(0, l)
  BY <1>0, <1>2, <1>4, WorkersFinite, MoveFacts
<1> QED
  BY <1>1, <1>5 DEF Moves, Others, Threads

\* mir_create starts, or the program exits, or a handler of atexit is called.
LEMMA LifeMain ==
    ASSUME LifeInv, CreateFirst \/ Exit \/ ExitHandler
    PROVE  LifeInv'
<1>0. ContextsInv /\ PlaceInv /\ AliveInv /\ BusyInv /\ ScopeInv /\ TaskInv
  BY DEF LifeInv
<1>1. /\ Top(0).at \in {"run", "exit"}
      /\ UNCHANGED <<g_num_tasks_waiting, g_worker_status_board, created, finished>>
  BY DEF CreateFirst, Exit, ExitHandler, taskVars
<1>2. InBase(0) /\ Base[0] = Top(0).at
  <2>1. /\ Fits(0, Top(0)) /\ (InBase(0) => Base[0] = Top(0).at)
        /\ ~InBase(0) => Base[0] \in {"created", "executed"}
    BY <1>0, WorkersFinite, TopFits
  <2>2. CASE CreateFirst
    BY <1>0, <2>1, <2>2 DEF CreateFirst, PlaceInv
  <2>3. CASE Exit
    BY <2>1, <2>3 DEF Exit
  <2>4. CASE ExitHandler
    BY <2>1, <2>4 DEF ExitHandler, Fits, CodeLabels, CallLabels
  <2> QED
    BY <2>1, <2>2, <2>3, <2>4
<1>3. TaskInv' /\ ContextsInv' /\ OpenScopes' = OpenScopes
      /\ contexts'[0][1].scopes = contexts[0][1].scopes
      /\ Count(Executing)' = Count(Executing) /\ \A v \in Threads : Base'[v] = Base[v]
  <2>1. /\ ContextsInv' /\ Top(0)'.at \in {"spawn", "exit", "reread"}
        /\ \A v \in Threads : Base'[v] = Base[v] /\ Top(v)' = Top(v)
        /\ contexts'[0][1].scopes = contexts[0][1].scopes /\ OpenScopes' = OpenScopes
        /\ Count(Executing)' = Count(Executing) /\ Count(Holding)' = Count(Holding)
        /\ Count(Tasks)' = Count(Tasks)
    <3>1. CASE UNCHANGED contexts /\ Top(0).at = "exit"
      BY <1>0, <3>1, StillFacts, WorkersFinite
    <3>2. CASE ~(UNCHANGED contexts /\ Top(0).at = "exit")
      <4>1. PICK l \in {"spawn", "exit", "reread"} : Goto(0, l)
        BY <3>2 DEF CreateFirst, Exit, ExitHandler
      <4>2. l \in MainLabels /\ l \notin CallLabels
        BY DEF MainLabels, CreateLabels, CodeLabels, CallLabels
      <4> QED
        BY <1>1, <1>2, <4>1, <4>2, MainFacts
    <3> QED
      BY <3>1, <3>2
  <2>2. Structured /\ exiting' => exiting \/ finished = created
    BY DEF CreateFirst, Exit, ExitHandler, Waited
  <2>3. ASSUME NEW v \in Workers, InDestroy(v)' PROVE InDestroy(v)
    BY <2>1, <2>3 DEF InDestroy, Threads
  <2>4. TaskInv'
    BY <1>0, <1>1, <2>1, <2>2, <2>3 DEF TaskInv
  <2> QED
    BY <2>1, <2>4
<1>4. \A l \in {"spawn", "exit", "reread"} : Goto(0, l) => Base'[0] = l
  <2>1. {"spawn", "exit", "reread"} \subseteq MainLabels \ CallLabels
    BY DEF MainLabels, CreateLabels, CodeLabels, CallLabels
  <2> QED
    BY <1>1, <1>2, <2>1, MainFacts
<1>5. CASE CreateFirst
  <2>1. /\ Base[0] = "run" /\ ~runtime.up /\ Base'[0] = "spawn" /\ loop' = 1 /\ UNCHANGED exiting /\ ~exiting
        /\ runtime' = [up |-> TRUE, init_count |-> 1, destroyed |-> FALSE]
        /\ g_sig_worker_alive' = g_sig_worker_alive + NumWorkers - 1
        /\ sig_die' = [sig_die EXCEPT ![0] = TRUE] /\ sig_dying' = [sig_dying EXCEPT ![0] = FALSE]
    BY <1>0, <1>2, <1>4, <1>5 DEF CreateFirst, LocalInit, PlaceInv, TailLabels, KillLabels
  <2>2. PlaceInv'
    BY <2>1 DEF PlaceInv
  <2>3. AliveInv'
    <3>1. g_sig_worker_alive = 0 /\ \A v \in Threads : Base[v] = "none" /\ Base'[v] = "none" /\ 1 <= v
      BY <1>0, <1>3, <2>1 DEF AliveInv, CreateLabels, KillLabels, Threads, Workers
    <3>2. At(UnbornLabels)' = Threads
      BY <3>1 DEF At, UnbornLabels
    <3>3. sig_die' \in [Workers -> BOOLEAN] /\ sig_dying' \in [Workers -> BOOLEAN] /\ sig_die'[0]
      BY <1>0, <2>1, WorkersFinite DEF AliveInv
    <3>4. \A v \in Workers : Base'[v] \notin {"none", "init"} => sig_die'[v]
      BY <3>1, <3>3 DEF Threads
    <3> QED
      BY <2>1, <3>1, <3>2, <3>3, <3>4, WorkersFinite DEF AliveInv, CreateLabels
  <2>4. BusyInv'
    <3>1. At({"popped", "executed"})' = At({"popped", "executed"})
      BY <1>3, AtKept
    <3> QED
      BY <1>0, <1>1, <1>3, <2>1, <3>1 DEF BusyInv
  <2>5. ScopeInv'
    BY <1>0, <1>3, <2>1 DEF ScopeInv, CreateLabels
  <2> QED
    BY <1>3, <2>2, <2>3, <2>4, <2>5 DEF LifeInv
<1>6. CASE Exit \/ ExitHandler
  <2>1. /\ Base[0] \in {"run", "exit"} /\ Base'[0] \in {"exit", "reread"} /\ exiting'
        /\ Base'[0] = "reread" => runtime.up
        /\ UNCHANGED <<g_sig_worker_alive, sig_die, sig_dying, loop>>
    <3>1. Base[0] = "exit" => exiting
      BY <1>0 DEF PlaceInv
    <3>2. UNCHANGED contexts => Base'[0] = Base[0]
      BY DEF Base
    <3> QED
      BY <1>1, <1>2, <1>4, <1>6, <3>1, <3>2 DEF Exit, ExitHandler, dieVars
  <2>2. /\ runtime' \in [up : BOOLEAN, init_count : Int, destroyed : BOOLEAN]
        /\ runtime'.up = runtime.up /\ (~runtime.up => runtime' = runtime)
    BY <1>0, <1>6 DEF Exit, ExitHandler, PlaceInv
  <2>3. PlaceInv'
    BY <1>0, <2>1, <2>2 DEF PlaceInv
  <2>4. AliveInv'
    BY <1>0, <1>3, <2>1, <2>2, AliveElsewhere DEF AliveInv, CreateLabels, KillLabels
  <2>5. At({"popped", "executed"})' = At({"popped", "executed"})
    BY <1>3, AtKept
  <2>6. BusyInv'
    BY <1>0, <1>1, <1>3, <2>1, <2>2, <2>5 DEF BusyInv, CreateLabels
  <2>7. ScopeInv'
    BY <1>0, <1>3, <2>1, <2>2 DEF ScopeInv, CreateLabels
  <2> QED
    BY <1>3, <2>3, <2>4, <2>6, <2>7 DEF LifeInv
<1> QED
  BY <1>5, <1>6

LEMMA LifeSpawn ==
    ASSUME LifeInv, Spawn
    PROVE  LifeInv'
<1>0. ContextsInv /\ PlaceInv /\ AliveInv /\ BusyInv /\ ScopeInv /\ TaskInv
  BY DEF LifeInv
<1>1. /\ Top(0).at = "spawn" /\ loop \in 0 .. NumWorkers
      /\ UNCHANGED <<runtime, g_sig_worker_alive, sig_die, sig_dying, exiting,
                     g_num_tasks_waiting, g_worker_status_board, created, finished>>
  BY <1>0 DEF Spawn, dieVars, taskVars, userVars, PlaceInv
<1>2. InBase(0) /\ Base[0] = "spawn"
  BY <1>0, <1>1, WorkersFinite, TopFits DEF Fits, CodeLabels, CallLabels
<1>3. /\ runtime.up /\ ~exiting /\ 1 <= loop
      /\ \A v \in Threads : Base[v] = "none" <=> loop <= v
  BY <1>0, <1>2 DEF PlaceInv, AliveInv, CreateLabels, TailLabels, KillLabels
<1>4. sig_die \in [Workers -> BOOLEAN] /\ sig_dying \in [Workers -> BOOLEAN]
  BY <1>0 DEF AliveInv
<1>5. \A v \in Workers : Base[v] \notin {"none", "init"} => sig_die[v]
  BY <1>0, <1>2, <1>3 DEF AliveInv, KillLabels
\* What both branches have in common.
<1>6. ASSUME ContextsInv', Base'[0] \in CreateLabels, Base'[0] = "wait_alive" => loop' = NumWorkers,
             contexts'[0][1].scopes = contexts[0][1].scopes, OpenScopes' = OpenScopes,
             Count(Executing)' = Count(Executing), Count(Holding)' = Count(Holding), Count(Tasks)' = Count(Tasks),
             \A v \in Workers : Top(v)' = Top(v) \/ Top(v)'.at \in {"init", "wait_alive"},
             \A v \in Threads : Base'[v] = Base[v] \/ (Base[v] = "none" /\ Base'[v] = "init"),
             loop' \in 1 .. NumWorkers, \A v \in Threads : Base'[v] = "none" <=> loop' <= v
      PROVE  LifeInv'
  <2>1. PlaceInv'
    BY <1>0, <1>1, <1>3, <1>6 DEF PlaceInv, CreateLabels
  <2>2. AliveInv'
    <3>1. At(UnbornLabels)' = At(UnbornLabels)
      BY <1>6 DEF At, UnbornLabels
    <3>2. \A v \in Workers : Base'[v] \notin {"none", "init"} => sig_die'[v]
      BY <1>1, <1>2, <1>5, <1>6 DEF Threads
    <3>3. g_sig_worker_alive = Cardinality(At(UnbornLabels))
      BY <1>0, <1>2 DEF AliveInv, CreateLabels
    <3> QED
      BY <1>1, <1>4, <1>6, <3>1, <3>2, <3>3 DEF AliveInv
  <2>3. BusyInv'
    <3>1. At({"popped", "executed"})' \subseteq At({"popped", "executed"})
      BY <1>6 DEF At
    <3> QED
      BY <1>0, <1>1, <1>2, <1>6, <3>1 DEF BusyInv, CreateLabels
  <2>4. ScopeInv'
    BY <1>0, <1>1, <1>2, <1>3, <1>6 DEF ScopeInv, CreateLabels
  <2>5. TaskInv'
    <3>1. ASSUME NEW v \in Workers, InDestroy(v)' PROVE InDestroy(v)
      BY <1>6, <3>1 DEF InDestroy
    <3> QED
      BY <1>0, <1>1, <1>6, <3>1 DEF TaskInv
  <2> QED
    BY <1>6, <2>1, <2>2, <2>3, <2>4, <2>5 DEF LifeInv
<1>7. CASE loop < NumWorkers
  <2>0. loop \in Threads /\ loop \in Workers /\ loop # 0 /\ Base[loop] = "none"
    BY <1>1, <1>3, <1>7 DEF Threads, Workers
  <2>1. PICK w \in Workers : w = loop
    BY <2>0
  <2>2. w \in Threads /\ w # 0 /\ Base[w] = "none" /\ Goto(w, "init") /\ loop' = w + 1
    BY <1>7, <2>0, <2>1 DEF Spawn, Goto
  <2>3. /\ InBase(w) /\ Top(w).at = "none" /\ Top(w).scopes = 0
    BY <1>0, <2>2, TopFits DEF Fits
  <2>4. "init" \in Labels /\ "init" \in ThreadLabels /\ {"init", "none"} \cap CountedLabels = {}
    BY DEF Labels, ThreadLabels, UnbornLabels, CountedLabels
  <2>5. Put(w, "init") \in Contexts /\ Put(w, "init").at = "init" /\ Put(w, "init").scopes = 0
    BY <2>3, <2>4 DEF Put, Contexts
  <2>6. Fits(w, Put(w, "init"))
    BY <2>2, <2>3, <2>4, <2>5 DEF Fits
  <2>7. Moves(w, "init")
    BY <1>0, <2>2, <2>3, <2>4, <2>6, MoveFacts
  <2>8. /\ Base'[w] = "init" /\ Base'[0] = Base[0] /\ Top(w)'.at = "init"
        /\ \A v \in Workers \ {w} : Base'[v] = Base[v] /\ Top(v)' = Top(v)
    BY <2>2, <2>3, <2>7, WorkersFinite DEF Moves, Others
  <2>9. \A v \in Threads : Base'[v] = "none" <=> loop' <= v
    <3> TAKE v \in Threads
    <3>1. v \in Int /\ w \in Int /\ (v # w => (w + 1 <= v <=> w <= v)) /\ ~(w + 1 <= w)
      BY DEF Threads, Workers
    <3>2. CASE v = w
      BY <2>2, <2>8, <3>1, <3>2
    <3>3. CASE v # w
      BY <1>3, <2>1, <2>2, <2>8, <3>1, <3>3, WorkersFinite
    <3> QED
      BY <3>2, <3>3
  <2>10. loop' \in 1 .. NumWorkers
    BY <1>1, <1>3, <1>7, <2>1, <2>2
  <2>11. /\ \A v \in Workers : Top(v)' = Top(v) \/ Top(v)'.at \in {"init", "wait_alive"}
         /\ \A v \in Threads : Base'[v] = Base[v] \/ (Base[v] = "none" /\ Base'[v] = "init")
    BY <2>2, <2>8, WorkersFinite
  <2>12. /\ ContextsInv' /\ contexts'[0][1].scopes = contexts[0][1].scopes /\ OpenScopes' = OpenScopes
         /\ Count(Executing)' = Count(Executing) /\ Count(Holding)' = Count(Holding)
         /\ Count(Tasks)' = Count(Tasks)
    BY <2>7 DEF Moves
  <2>13. Base'[0] \in CreateLabels /\ Base'[0] # "wait_alive"
    BY <1>2, <2>8 DEF CreateLabels
  <2> QED
    BY <1>6, <2>9, <2>10, <2>11, <2>12, <2>13
<1>8. CASE ~(loop < NumWorkers)
  <2>1. Goto(0, "wait_alive") /\ loop' = loop /\ loop = NumWorkers
    BY <1>1, <1>8 DEF Spawn
  <2>2. "wait_alive" \in MainLabels /\ "wait_alive" \notin CallLabels
    BY DEF MainLabels, CreateLabels, CallLabels
  <2>3. /\ ContextsInv' /\ Base'[0] = "wait_alive" /\ Top(0)'.at = "wait_alive"
        /\ \A v \in Threads : Base'[v] = Base[v] /\ Top(v)' = Top(v)
        /\ contexts'[0][1].scopes = contexts[0][1].scopes /\ OpenScopes' = OpenScopes
        /\ Count(Executing)' = Count(Executing) /\ Count(Holding)' = Count(Holding)
        /\ Count(Tasks)' = Count(Tasks)
    BY <1>1, <1>2, <2>1, <2>2, MainFacts
  <2>4. loop' \in 1 .. NumWorkers /\ \A v \in Threads : Base'[v] = "none" <=> loop' <= v
    BY <1>1, <1>3, <2>1, <2>3
  <2>5. \A v \in Workers : Top(v)' = Top(v) \/ Top(v)'.at \in {"init", "wait_alive"}
    BY <2>3 DEF Threads
  <2> QED
    BY <1>6, <2>1, <2>3, <2>4, <2>5 DEF CreateLabels
<1> QED
  BY <1>7, <1>8

LEMMA LifeWaitAlive ==
    ASSUME LifeInv, WaitAlive
    PROVE  LifeInv'
<1>0. ContextsInv /\ PlaceInv /\ AliveInv /\ BusyInv /\ ScopeInv /\ TaskInv
  BY DEF LifeInv
<1>1. /\ Top(0).at = "wait_alive" /\ g_sig_worker_alive = 0 /\ EnterScope
      /\ UNCHANGED <<runtime, g_sig_worker_alive, sig_die, sig_dying, loop, exiting,
                     g_num_tasks_waiting, g_worker_status_board, created, finished>>
  BY DEF WaitAlive, dieVars, taskVars
<1>2. InBase(0) /\ Base[0] = "wait_alive" /\ contexts[0][1] = Top(0) /\ Depth(0) = 1
  BY <1>0, <1>1, WorkersFinite, TopFits DEF Fits, CodeLabels, CallLabels
<1>3. /\ runtime.up /\ ~exiting /\ runtime.init_count = 1 /\ contexts[0][1].scopes = 0
  BY <1>0, <1>2 DEF PlaceInv, ScopeInv, CreateLabels, TailLabels, KillLabels
<1> DEFINE c == [at |-> "run", scopes |-> 1]
<1>4. /\ c \in Contexts /\ c.at = "run" /\ c.scopes = 1
      /\ "run" \in MainLabels /\ "run" \notin CallLabels /\ "run" \notin CreateLabels \cup KillLabels
  BY DEF Contexts, Labels, MainLabels, CodeLabels, CallLabels, CreateLabels, KillLabels
<1>5. Sets(0, c)
  <2>1. contexts[0] \in Seq(Contexts) /\ Len(contexts[0]) = 1
    BY <1>0, <1>2, WorkersFinite, TopFacts DEF Depth
  <2>2. [contexts[0] EXCEPT ![1] = c] = <<c>>
    BY <2>1
  <2>3. contexts' = [contexts EXCEPT ![0] = <<c>>]
    BY <1>1 DEF EnterScope
  <2> QED
    BY <1>2, <2>2, <2>3 DEF Sets
<1> HIDE DEF c
<1>6. Fits(0, c)
  BY <1>2, <1>4 DEF Fits
<1>7. /\ ContextsInv' /\ Others(0) /\ Top(0)' = c /\ Base'[0] = "run" /\ contexts'[0][1].scopes = 1
      /\ Count(Executing)' = Count(Executing) - One(Top(0).at = "executed") + One(c.at = "executed")
      /\ Count(Holding)' = Count(Holding) - One(Top(0).at \in {"create", "popped"})
                                          + One(c.at \in {"create", "popped"})
      /\ Count(Tasks)' = Count(Tasks)
      /\ Count(Executing) \in Nat /\ Count(Holding) \in Nat
  BY <1>0, <1>2, <1>4, <1>5, <1>6, WorkersFinite, SetsAll
<1>8. Count(Executing)' = Count(Executing) /\ Count(Holding)' = Count(Holding)
  <2>1. /\ One(Top(0).at = "executed") = 0 /\ One(c.at = "executed") = 0
        /\ One(Top(0).at \in {"create", "popped"}) = 0 /\ One(c.at \in {"create", "popped"}) = 0
    BY <1>1, <1>4 DEF One
  <2> QED
    BY <1>7, <2>1
<1>9. \A v \in Threads : Base'[v] = Base[v] /\ Top(v)' = Top(v)
  BY <1>7 DEF Others, Threads
<1>10. PlaceInv'
  BY <1>0, <1>1, <1>3, <1>7 DEF PlaceInv
<1>11. \A v \in Threads : Base[v] \notin UnbornLabels
  <2>1. At(UnbornLabels) = {}
    BY <1>0, <1>1, <1>2, AtFinite DEF AliveInv, CreateLabels
  <2> QED
    BY <2>1 DEF At
<1>12. AliveInv'
  <2>1. \A v \in Workers : Base'[v] \notin {"none", "init"} => sig_die[v]
    BY <1>0, <1>2, <1>3, <1>9 DEF AliveInv, KillLabels, Threads
  <2> QED
    BY <1>0, <1>1, <1>3, <1>4, <1>7, <1>9, <1>11, <2>1 DEF AliveInv
<1>13. BusyInv'
  BY <1>0, <1>1, <1>3, <1>4, <1>7, <1>8 DEF BusyInv
<1>14. ScopeInv'
  <2>1. OpenScopes = {}
    <3>1. \A v \in Workers : InBase(v) /\ contexts[v][1].scopes = 0
      <4>1. \A v \in Threads : InBase(v) /\ contexts[v][1].scopes = 0
        <5> TAKE v \in Threads
        <5>1. v \in Workers /\ v # 0 /\ v \notin At({"popped", "executed"})
          BY <1>0, <1>2, WorkersFinite DEF BusyInv, CreateLabels, Threads
        <5>2. Base[v] # "executed"
          BY <5>1 DEF At
        <5>3. InBase(v)
          BY <1>0, <5>1, <5>2, TopFits
        <5> QED
          BY <1>0, <5>3 DEF ContextsInv
      <4> QED
        BY <1>2, <1>3, <4>1 DEF Threads
    <3>2. ASSUME NEW m \in OpenScopes PROVE FALSE
      <4>1. m[1] \in Workers /\ m[2] \in 1 .. Len(contexts[m[1]]) /\ m[3] \in 1 .. contexts[m[1]][m[2]].scopes
        BY DEF OpenScopes
      <4>2. m[2] = 1 /\ m[3] \in 1 .. 0
        BY <3>1, <4>1 DEF InBase
      <4> QED
        BY <4>2
    <3> QED
      BY <3>2
  <2>2. OpenScopes' = OpenScopes \cup {<<0, 1, 1>>}
    <3>1. c.scopes = Top(0).scopes + 1 /\ Top(0).scopes + 1 = 1
      BY <1>2, <1>3, <1>4
    <3> QED
      BY <1>0, <1>2, <1>4, <1>5, <3>1, WorkersFinite, SetsScopes
  <2>3. IsFiniteSet(OpenScopes') /\ Cardinality(OpenScopes') = 1
    <3>1. OpenScopes' = {<<0, 1, 1>>}
      BY <2>1, <2>2
    <3>2. \A x : IsFiniteSet({x}) /\ Cardinality({x}) = 1
      BY FS_Singleton
    <3> QED
      BY <3>1, <3>2
  <2> QED
    BY <1>1, <1>3, <1>4, <1>7, <2>3 DEF ScopeInv
<1>15. TaskInv'
  <2>1. ASSUME NEW v \in Workers, InDestroy(v)' PROVE InDestroy(v)
    BY <1>4, <1>7, <1>9, <2>1 DEF InDestroy, Threads
  <2> QED
    BY <1>0, <1>1, <1>3, <1>7, <1>8, <2>1 DEF TaskInv
<1> QED
  BY <1>7, <1>10, <1>12, <1>13, <1>14, <1>15 DEF LifeInv
-----------------------------------------------------------------------------
(* Theorems *)

LEMMA LifeInit == Init => LifeInv
<1> SUFFICES ASSUME Init PROVE LifeInv
  OBVIOUS
<1>1. contexts = [w \in Workers |-> <<Context(IF w = 0 THEN "run" ELSE "none")>>]
  BY DEF Init
<1>2. ASSUME NEW w \in Workers
      PROVE  /\ contexts[w] \in Seq(Contexts) /\ Len(contexts[w]) = 1
             /\ contexts[w][1].at = (IF w = 0 THEN "run" ELSE "none") /\ contexts[w][1].scopes = 0
             /\ Top(w).at = (IF w = 0 THEN "run" ELSE "none")
  <2>1. Context(IF w = 0 THEN "run" ELSE "none") \in Contexts
    BY DEF Context, Contexts, Labels, MainLabels, CodeLabels, ThreadLabels, UnbornLabels
  <2> QED
    BY <1>1, <2>1 DEF Context, Top, Last
<1>3. Base[0] = "run" /\ \A v \in Threads : Base[v] = "none"
  BY <1>2, WorkersFinite DEF Base, Threads
<1>4. ASSUME NEW m \in Marks PROVE m[1] \in Workers /\ m = <<m[1], 1, contexts[m[1]][1].at>>
  <2>1. m \in Workers \X Nat \X Labels /\ m[2] \in 1 .. Len(contexts[m[1]]) /\ contexts[m[1]][m[2]].at = m[3]
    BY DEF Marks
  <2>2. m[2] = 1
    BY <1>2, <2>1
  <2> QED
    BY <2>1, <2>2
<1>5. IsFiniteSet(Marks)
  <2> DEFINE f == [w \in Workers |-> <<w, 1, contexts[w][1].at>>]
  <2>1. ASSUME NEW w \in Workers PROVE f[w] \in Marks
    <3>1. contexts[w][1].at \in Labels /\ 1 \in 1 .. Len(contexts[w])
      BY <1>2 DEF Labels, MainLabels, CodeLabels, ThreadLabels, UnbornLabels
    <3> QED
      BY <3>1 DEF Marks
  <2>2. \A m \in Marks : \E w \in Workers : f[w] = m
    BY <1>4
  <2>3. f \in Surjection(Workers, Marks)
    BY <2>1, <2>2 DEF Surjection
  <2> HIDE DEF f
  <2> QED
    BY <2>3, WorkersFinite, FS_Surjection
<1>6. ContextsInv
  <2>0. \A n \in {1} : ~(\E i \in 2 .. n : TRUE) /\ ~(\E i \in 1 .. n - 1 : TRUE)
    OBVIOUS
  <2>1. \A w \in Workers : ~(\E i \in 2 .. Len(contexts[w]) : TRUE)
    BY <1>2, <2>0
  <2>2. \A w \in Workers : ~(\E i \in 1 .. Len(contexts[w]) - 1 : TRUE)
    BY <1>2, <2>0
  <2>3. contexts \in [Workers -> Seq(Contexts)]
    BY <1>1, <1>2
  <2>4. \A w \in Workers : Len(contexts[w]) # 0 /\ contexts[w][1].scopes = 0
    BY <1>2
  <2>5. Base[0] \in MainLabels /\ Base[0] \notin CallLabels
    BY <1>3 DEF MainLabels, CodeLabels, CallLabels
  <2>6. \A w \in Threads : Base[w] \in ThreadLabels
    BY <1>3 DEF ThreadLabels, UnbornLabels
  <2> QED
    BY <1>5, <2>1, <2>2, <2>3, <2>4, <2>5, <2>6, WorkersFinite DEF ContextsInv
<1>7. OpenScopes = {}
  <2>1. ASSUME NEW m \in OpenScopes PROVE FALSE
    <3>1. m[1] \in Workers /\ m[2] \in 1 .. Len(contexts[m[1]]) /\ m[3] \in 1 .. contexts[m[1]][m[2]].scopes
      BY DEF OpenScopes
    <3>2. m[2] = 1 /\ m[3] \in 1 .. 0
      BY <1>2, <3>1
    <3> QED
      BY <3>2
  <2> QED
    BY <2>1
<1>8. Count(Executing) = 0 /\ Count(Holding) = 0 /\ Count(Tasks) = 0
  <2>1. \A m \in Marks : m \notin Executing /\ m \notin Holding /\ m \notin Tasks
    <3> TAKE m \in Marks
    <3>1. m[2] = 1 /\ m[3] \in {"run", "none"}
      BY <1>2, <1>4
    <3> QED
      BY <3>1 DEF Executing, Holding, Tasks
  <2>2. Marks \cap Executing = {} /\ Marks \cap Holding = {} /\ Marks \cap Tasks = {}
    BY <2>1
  <2> QED
    BY <2>2, FS_EmptySet DEF Count
<1>9. /\ runtime = NoRuntime /\ g_sig_worker_alive = 0 /\ g_num_tasks_waiting = 0 /\ g_worker_status_board = 0
      /\ sig_die = [w \in Workers |-> FALSE] /\ sig_dying = [w \in Workers |-> FALSE]
      /\ loop = 0 /\ exiting = FALSE /\ created = 0 /\ finished = 0
  BY DEF Init
<1>10. PlaceInv
  BY <1>3, <1>9 DEF PlaceInv, NoRuntime
<1>11. AliveInv
  BY <1>3, <1>9 DEF AliveInv, NoRuntime, CreateLabels, KillLabels
<1>12. BusyInv
  <2>1. At({"popped", "executed"}) = {}
    BY <1>3 DEF At
  <2> QED
    BY <1>8, <1>9, <2>1 DEF BusyInv
<1>13. ScopeInv
  BY <1>2, <1>3, <1>7, <1>9, WorkersFinite, FS_EmptySet DEF ScopeInv, NoRuntime, CreateLabels
<1>14. TaskInv
  <2>1. \A v \in Workers : ~InDestroy(v)
    BY <1>2 DEF InDestroy
  <2> QED
    BY <1>8, <1>9, <2>1 DEF TaskInv
<1> QED
  BY <1>6, <1>10, <1>11, <1>12, <1>13, <1>14 DEF LifeInv

LEMMA LifeStep == LifeInv /\ [Next]_vars => LifeInv'
<1> SUFFICES ASSUME LifeInv, [Next]_vars PROVE LifeInv'
  OBVIOUS
<1>1. CASE UNCHANGED vars
  <2>1. UNCHANGED <<contexts, runtime, g_sig_worker_alive, g_num_tasks_waiting, g_worker_status_board,
                    sig_die, sig_dying, loop, exiting, created, finished>>
    BY <1>1 DEF vars, taskVars, dieVars, userVars
  <2>2. /\ ContextsInv' /\ Base' = Base /\ OpenScopes' = OpenScopes
        /\ \A v \in Workers : Top(v)' = Top(v)
        /\ Count(Executing)' = Count(Executing) /\ Count(Holding)' = Count(Holding)
        /\ Count(Tasks)' = Count(Tasks)
    BY <2>1, StillFacts DEF LifeInv
  <2>3. PlaceInv' /\ BusyInv' /\ ScopeInv'
    <3>1. At({"popped", "executed"})' = At({"popped", "executed"})
      BY <2>2 DEF At
    <3> QED
      BY <2>1, <2>2, <3>1 DEF LifeInv, PlaceInv, BusyInv, ScopeInv
  <2>4. AliveInv'
    BY <2>1, <2>2, AliveElsewhere DEF LifeInv, AliveInv
  <2>5. TaskInv'
    <3>1. \A v \in Workers : InDestroy(v)' => InDestroy(v)
      BY <2>2 DEF InDestroy
    <3> QED
      BY <2>1, <2>2, <3>1 DEF LifeInv, TaskInv
  <2> QED
    BY <2>2, <2>3, <2>4, <2>5 DEF LifeInv
<1>2. CASE MainStep
  BY <1>2, LifeMain, LifeSpawn, LifeWaitAlive DEF MainStep
<1>3. ASSUME NEW w \in Workers, UserStep(w) \/ TaskStep(w) PROVE LifeInv'
  BY <1>3, LifeCode DEF CodeStep
<1>4. ASSUME NEW w \in Workers, DestroyStep(w) PROVE LifeInv'
  BY <1>4, LifeReread, LifeTail, LifeWaitDead DEF DestroyStep, TailStep
<1>5. ASSUME NEW w \in Threads, ThreadStep(w) PROVE LifeInv'
  BY <1>5, LifeThread
<1> QED
  BY <1>1, <1>2, <1>3, <1>4, <1>5 DEF Next

\* The invariant of the life cycle: the counters that mir_create and mir_destroy wait
\* on, or decide by, count what they are meant to, and the main program and the
\* threads stand where they can only stand together.
THEOREM LifeInvariant == Spec => []LifeInv
<1>1. Init => LifeInv
  BY LifeInit
<1>2. LifeInv /\ [Next]_vars => LifeInv'
  BY LifeStep
<1> QED
  BY <1>1, <1>2, PTL DEF Spec

\* For every number of workers: between mir_create's return and mir_destroy every
\* worker lives, initialised, with the lock that keeps it from dying; and when
\* mir_destroy has reset the globals every worker is dead.
THEOREM WorkersFollow == Spec => []WorkersFollowRuntime
<1>1. LifeInv => WorkersFollowRuntime
  <2> SUFFICES ASSUME LifeInv PROVE WorkersFollowRuntime
    OBVIOUS
  <2>0. ContextsInv /\ PlaceInv /\ AliveInv
    BY DEF LifeInv
  <2>1. ASSUME Top(0).at \notin {"spawn", "wait_alive", "recorders", "kill", "wait_dead"}, runtime.up
        PROVE  /\ g_sig_worker_alive = 0
               /\ \A w \in Threads : Top(w).at \notin {"none", "init", "signal"}
               /\ \A w \in Workers : sig_die[w]
    <3>1. Base[0] \notin CreateLabels \cup KillLabels
      BY <2>0, <2>1, WorkersFinite, TopFits DEF CreateLabels, KillLabels
    <3>2. g_sig_worker_alive = 0 /\ \A w \in Threads : Base[w] \notin UnbornLabels
      BY <2>0, <2>1, <3>1 DEF AliveInv
    <3>3. \A w \in Threads : Top(w).at \notin UnbornLabels
      BY <2>0, <3>2, TopFits, WorkersFinite DEF Fits, CodeLabels, CallLabels, UnbornLabels
    <3>4. \A w \in Workers : Base[w] \notin {"none", "init"}
      BY <2>0, <3>2 DEF UnbornLabels, Threads, ContextsInv, MainLabels, CodeLabels, CallLabels, CreateLabels,
         TailLabels, KillLabels
    <3> QED
      BY <2>0, <2>1, <3>1, <3>2, <3>3, <3>4 DEF AliveInv, UnbornLabels
  <2>2. ASSUME ~runtime.up PROVE \A w \in Threads : Top(w).at = "none"
    <3>1. Base[0] \notin CreateLabels \cup KillLabels
      BY <2>0, <2>2 DEF PlaceInv, CreateLabels, KillLabels
    <3>2. \A w \in Threads : Base[w] = "none"
      BY <2>0, <2>2, <3>1 DEF AliveInv
    <3> QED
      BY <2>0, <3>2, TopFits, WorkersFinite
  <2> QED
    BY <2>1, <2>2 DEF WorkersFollowRuntime
<1> QED
  BY <1>1, LifeInvariant, PTL

\* A program that waits for its tasks before its last scope ends: the one that gets
\* through mir_destroy is the main program, with every task ended, no scope open in
\* any other context, and nobody else in mir_destroy.  Tasks may open and close
\* scopes, execute other tasks while they wait or create, and call mir_destroy.
THEOREM DestroyedOnce == Structured => (Spec => []DestroyedIsUnused)
<1> SUFFICES ASSUME Structured PROVE Spec => []DestroyedIsUnused
  OBVIOUS
<1>1. LifeInv => DestroyedIsUnused
  <2> SUFFICES ASSUME LifeInv, NEW w \in Workers, InDestroy(w)
               PROVE  /\ finished = created
                      /\ \A v \in Workers \ {w} : Top(v).scopes = 0 /\ ~InDestroy(v)
    BY DEF DestroyedIsUnused
  <2>0. ContextsInv /\ BusyInv /\ TaskInv
    BY DEF LifeInv
  <2>1. w = 0 /\ finished = created
    BY <2>0 DEF TaskInv
  <2>2. ASSUME NEW v \in Workers \ {w} PROVE Top(v).scopes = 0 /\ ~InDestroy(v)
    <3>1. /\ Count(Holding) \in Nat /\ Count(Tasks) \in Nat /\ (~InBase(v) => Count(Tasks) > 0)
      BY <2>0, Counted
    <3>2. /\ created \in Nat /\ g_num_tasks_waiting \in Nat
          /\ created - finished = g_num_tasks_waiting + Count(Holding) + Count(Tasks)
      BY <2>0 DEF TaskInv, BusyInv
    <3>3. InBase(v)
      BY <2>1, <3>1, <3>2
    <3>4. Top(v).scopes = 0
      BY <2>0, <2>1, <3>3, TopFits DEF ContextsInv, Threads
    <3>5. ~InDestroy(v)
      BY <2>0, <2>1 DEF TaskInv
    <3> QED
      BY <3>4, <3>5
  <2> QED
    BY <2>1, <2>2
<1> QED
  BY <1>1, LifeInvariant, PTL

RecordersInv == freed \subseteq Workers /\ misused \subseteq Workers

LEMMA RecordersStep == LifeInv /\ RecordersInv /\ [Next]_vars => RecordersInv'
<1> SUFFICES ASSUME LifeInv, RecordersInv, [Next]_vars PROVE RecordersInv'
  OBVIOUS
<1> USE DEF RecordersInv
<1>1. ASSUME NEW w \in Workers, Use(w) PROVE RecordersInv'
  BY <1>1 DEF Use
<1>2. ASSUME UNCHANGED recorderVars PROVE RecordersInv'
  BY <1>2 DEF recorderVars
<1>3. ASSUME NEW w \in Workers, LocalInit(w) PROVE RecordersInv'
  BY <1>3 DEF LocalInit
<1>4. CASE UNCHANGED vars
  BY <1>2, <1>4 DEF vars
<1>5. CASE MainStep
  BY <1>1, <1>2, <1>3, <1>5, WorkersFinite DEF MainStep, CreateFirst, Spawn, WaitAlive, Exit, ExitHandler
<1>6. ASSUME NEW w \in Workers, UserStep(w) PROVE RecordersInv'
  BY <1>2, <1>6 DEF UserStep, CreateNested, SoftDestroy, Destroy
<1>7. ASSUME NEW w \in Workers, TaskStep(w) PROVE RecordersInv'
  BY <1>1, <1>2, <1>7 DEF TaskStep, BeginCreate, Push, PushRefused, EndCreate, BeginWait, EndWait, Take, Execute,
     EndTask, NotBusy
<1>8. ASSUME NEW w \in Workers, DestroyStep(w) PROVE RecordersInv'
  <2>1. CASE ShutRecorders(w)
    <3>1. loop < NumWorkers => loop \in Workers
      BY DEF LifeInv, PlaceInv, Workers
    <3> QED
      BY <2>1, <3>1 DEF ShutRecorders
  <2>2. CASE ~ShutRecorders(w)
    BY <1>1, <1>2, <1>8, <2>2 DEF DestroyStep, Reread, CheckDone, Freeze, Kill, WaitDead
  <2> QED
    BY <2>1, <2>2
<1>9. ASSUME NEW w \in Threads, ThreadStep(w) PROVE RecordersInv'
  BY <1>1, <1>2, <1>3, <1>9, WorkersFinite DEF ThreadStep, LocalInitWorker, SignalAlive, BeginLoop, FindNone, Look,
     EndIdleTask, EndIdle, Die
<1> QED
  BY <1>4, <1>5, <1>6, <1>7, <1>8, <1>9 DEF Next

\* The types of the life cycle: the birth and death counter never passes the number
\* of threads, nor the counters that mir_worker_check_done reads the tasks there are,
\* however deep tasks execute on top of one another.
THEOREM RuntimeTypes == Spec => []TypeOK
<1>1. Init => RecordersInv
  BY DEF Init, RecordersInv
<1>2. LifeInv /\ RecordersInv /\ [Next]_vars => RecordersInv'
  BY RecordersStep
<1>3. LifeInv /\ RecordersInv => TypeOK
  <2> SUFFICES ASSUME LifeInv, RecordersInv PROVE TypeOK
    OBVIOUS
  <2>0. ContextsInv /\ PlaceInv /\ AliveInv /\ BusyInv /\ TaskInv
    BY DEF LifeInv
  <2>1. g_sig_worker_alive \in 0 .. NumWorkers - 1
    BY <2>0, AtFinite DEF AliveInv
  <2>2. /\ Count(Executing) \in Nat /\ Count(Holding) \in Nat /\ Count(Tasks) \in Nat
    BY <2>0, WorkersFinite, Counted
  <2>3. /\ created \in 0 .. MaxTasks /\ finished \in Nat /\ g_num_tasks_waiting \in Nat
        /\ created - finished >= g_num_tasks_waiting + Count(Holding) + Count(Tasks)
        /\ g_worker_status_board \in Nat /\ g_worker_status_board <= Count(Tasks) + finished
    BY <2>0, <2>2 DEF TaskInv, BusyInv
  <2>4. g_num_tasks_waiting \in 0 .. MaxTasks /\ g_worker_status_board \in 0 .. MaxTasks
    BY <2>2, <2>3
  <2> QED
    BY <2>0, <2>1, <2>4 DEF TypeOK, PlaceInv, AliveInv, RecordersInv
<1> QED
  BY <1>1, <1>2, <1>3, LifeInvariant, PTL DEF Spec
=============================================================================
