--------------------------- MODULE TaskCreditProofs --------------------------
(***************************************************************************)
(* Proofs about TaskCredit, for any finite set of tasks, any way in which  *)
(* they share labels, and any number of calls side by side.                *)
(***************************************************************************)
EXTENDS TaskCredit, FiniteSetTheorems, TLAPS

\* What a call has in hand: a key, a row that it can raise because it was lower
\* than the score, a row to delete that names no foreign task.
CallOK(c) ==
  /\ c.stage # "idle" => c.key \in Key
  /\ c.stage = "raise" => c.found \in Key /\ c.was < c.credits
  /\ c.stage = "delete" => c.found \in Key /\ Named(c.found) \subseteq Named(c.key)

\* An earn that is about to insert has a task that is not credited under its other
\* spelling, nor about to be, unless the history says that it could not see it.
InsertOK(r) ==
  At(r, "insert") =>
    \A t \in Named(run[r].key) \ blind, s \in Key :
      s \in {t, LabelOf[t]} /\ s # run[r].key => ledger[s] = 0

PairOK(r, s) ==
  At(r, "insert") /\ At(s, "insert") /\ run[r].key # run[s].key =>
    Named(run[r].key) \cap Named(run[s].key) \subseteq blind

RunsOK ==
  /\ \A r \in Run : CallOK(run[r]) /\ InsertOK(r)
  /\ \A r, s \in Run : PairOK(r, s)

IInv == TypeOK /\ RunsOK /\ PaidOnce

-----------------------------------------------------------------------------
(***************************************************************************)
(* Sums.                                                                   *)
(***************************************************************************)
\* Induction over the subsets of a finite set, stated with a set for the property.
LEMMA SubsetInduction ==
  ASSUME NEW S, IsFiniteSet(S), NEW Good,
         \A U \in SUBSET S : (\A V \in SUBSET U : V # U => V \in Good) => U \in Good
  PROVE  SUBSET S \subseteq Good
<1> DEFINE Bad == (SUBSET S) \ Good
<1> SUFFICES ASSUME Bad # {} PROVE FALSE
  OBVIOUS
<1>1. IsWellFoundedOn(StrictSubsetOrdering(S), SUBSET S)
  <2>1. IsWellFoundedOn(StrictSubsetOrdering(S), FiniteSubsetsOf(S))
    BY FS_StrictSubsetOrderingWellFounded
  <2>2. FiniteSubsetsOf(S) = SUBSET S
    BY FS_FiniteSubsetsOfFinite
  <2> QED
    BY <2>1, <2>2
<1>2. PICK U \in Bad : \A V \in Bad : <<V, U>> \notin StrictSubsetOrdering(S)
  <2>1. Bad \subseteq SUBSET S
    OBVIOUS
  <2>2. PICK B : B = Bad
    OBVIOUS
  <2>3. \E U \in B : \A V \in B : ~(<<V, U>> \in StrictSubsetOrdering(S))
    BY <1>1, <2>1, <2>2, WFMin
  <2> QED
    BY <2>2, <2>3
<1>3. \A V \in SUBSET U : V # U => V \in Good
  BY <1>2 DEF StrictSubsetOrdering
<1> QED
  BY <1>2, <1>3

\* The element that MapThenSumSet takes out of a set.
Pick(s) == CHOOSE x \in s : TRUE

\* h is the function that MapThenSumSet iterates over the subsets of U.
Sums(g, U, h) ==
  h = [s \in SUBSET U |-> IF s = {} THEN 0 ELSE g[Pick(s)] + h[s \ {Pick(s)}]]

LEMMA TotalIs ==
  ASSUME NEW g, NEW S
  PROVE  Total(g, S) = (CHOOSE h : Sums(g, S, h))[S]
BY DEF Total, MapThenSumSet, MapThenFoldSet, Sums, Pick

LEMMA SumsAt ==
  ASSUME NEW g, NEW U, NEW h, Sums(g, U, h), NEW s \in SUBSET U
  PROVE  h[s] = IF s = {} THEN 0 ELSE g[Pick(s)] + h[s \ {Pick(s)}]
BY DEF Sums

\* The iteration does not depend on the set it is over.
LEMMA SumsAgree ==
  ASSUME NEW g, NEW U, NEW V, NEW h, NEW i, Sums(g, U, h), Sums(g, V, i),
         IsFiniteSet(U), U \subseteq V
  PROVE  \A s \in SUBSET U : h[s] = i[s]
<1> DEFINE Good == {s \in SUBSET U : h[s] = i[s]}
<1>1. ASSUME NEW s \in SUBSET U, \A r \in SUBSET s : r # s => r \in Good
      PROVE  s \in Good
  <2>1. /\ h[s] = IF s = {} THEN 0 ELSE g[Pick(s)] + h[s \ {Pick(s)}]
        /\ i[s] = IF s = {} THEN 0 ELSE g[Pick(s)] + i[s \ {Pick(s)}]
    <3>1. s \in SUBSET V
      OBVIOUS
    <3> HIDE DEF Good
    <3> QED
      BY <3>1, SumsAt
  <2>2. s # {} => s \ {Pick(s)} \in SUBSET s /\ s \ {Pick(s)} # s
    BY DEF Pick
  <2>3. s # {} => h[s \ {Pick(s)}] = i[s \ {Pick(s)}]
    BY <1>1, <2>2
  <2> QED
    BY <2>1, <2>3
<1> HIDE DEF Good
<1>2. SUBSET U \subseteq Good
  BY <1>1, SubsetInduction
<1> QED
  BY <1>2 DEF Good

LEMMA SumsExist ==
  ASSUME NEW g, NEW S, IsFiniteSet(S)
  PROVE  \E h : Sums(g, S, h)
<1> DEFINE Good == {U \in SUBSET S : \E h : Sums(g, U, h)}
<1>1. ASSUME NEW U \in SUBSET S, \A V \in SUBSET U : V # U => V \in Good
      PROVE  U \in Good
  <2> DEFINE Of(V) == CHOOSE h : Sums(g, V, h)
  <2> DEFINE low == [V \in SUBSET U |-> Of(V)[V]]
  <2> DEFINE f == [V \in SUBSET U |-> IF V = {} THEN 0 ELSE g[Pick(V)] + low[V \ {Pick(V)}]]
  <2>1. ASSUME NEW V \in SUBSET U, V # U PROVE Sums(g, V, Of(V))
    BY <1>1, <2>1
  <2>2. ASSUME NEW V \in SUBSET U, V # U PROVE f[V] = low[V]
    <3>0. V # {} => V \ {Pick(V)} \in SUBSET V /\ V \ {Pick(V)} # U
      BY <2>2
    <3>1. Of(V)[V] = IF V = {} THEN 0 ELSE g[Pick(V)] + Of(V)[V \ {Pick(V)}]
      BY <2>1, <2>2, SumsAt
    <3>2. ASSUME V # {}, NEW W, W = V \ {Pick(V)} PROVE Of(W)[W] = Of(V)[W]
      <4>1. IsFiniteSet(W)
        BY <3>2, FS_Subset
      <4>2. Sums(g, V, Of(V)) /\ Sums(g, W, Of(W))
        BY <2>1, <2>2, <3>0, <3>2
      <4> HIDE DEF Of
      <4> QED
        BY <3>0, <3>2, <4>1, <4>2, SumsAgree
    <3> HIDE DEF Of
    <3> QED
      BY <2>2, <3>0, <3>1, <3>2
  <2>3. Sums(g, U, f)
    <3>1. ASSUME NEW V \in SUBSET U, V # {} PROVE f[V \ {Pick(V)}] = low[V \ {Pick(V)}]
      <4>1. V \ {Pick(V)} \in SUBSET U /\ V \ {Pick(V)} # U
        BY <3>1 DEF Pick
      <4> HIDE DEF f, low
      <4> QED
        BY <2>2, <4>1
    <3>2. ASSUME NEW V \in SUBSET U
          PROVE  f[V] = IF V = {} THEN 0 ELSE g[Pick(V)] + f[V \ {Pick(V)}]
      <4>1. f[V] = IF V = {} THEN 0 ELSE g[Pick(V)] + low[V \ {Pick(V)}]
        OBVIOUS
      <4> HIDE DEF f, low
      <4> QED
        BY <3>1, <4>1
    <3>3. f = [V \in SUBSET U |-> f[V]]
      OBVIOUS
    <3> HIDE DEF f, low
    <3> QED
      BY <3>2, <3>3 DEF Sums
  <2> HIDE DEF f
  <2> QED
    BY <2>3
<1> HIDE DEF Good
<1>2. S \in Good
  BY <1>1, SubsetInduction
<1> QED
  BY <1>2 DEF Good

\* The sum over a set, one element at a time.
LEMMA TotalUnfolds ==
  ASSUME NEW g, NEW S, IsFiniteSet(S)
  PROVE  Total(g, S) = IF S = {} THEN 0 ELSE g[Pick(S)] + Total(g, S \ {Pick(S)})
<1> DEFINE h == CHOOSE f : Sums(g, S, f)
           W == S \ {Pick(S)}
           i == CHOOSE f : Sums(g, W, f)
<1>1. Sums(g, S, h)
  BY SumsExist
<1>2. IsFiniteSet(W)
  BY FS_Subset
<1>3. Sums(g, W, i)
  BY <1>2, SumsExist
<1>4. Total(g, S) = h[S] /\ Total(g, W) = i[W]
  BY TotalIs
<1> HIDE DEF h, i
<1>5. h[S] = IF S = {} THEN 0 ELSE g[Pick(S)] + h[W]
  BY <1>1, SumsAt
<1>6. h[W] = i[W]
  BY <1>1, <1>2, <1>3, SumsAgree
<1> QED
  BY <1>4, <1>5, <1>6

\* A sum of integers is an integer, and changes by as much as the one term that
\* changes.
LEMMA TotalType ==
  ASSUME NEW K, IsFiniteSet(K), NEW g \in [K -> Int]
  PROVE  \A S \in SUBSET K : Total(g, S) \in Int
<1> DEFINE Good == {S \in SUBSET K : Total(g, S) \in Int}
<1>1. ASSUME NEW S \in SUBSET K, \A V \in SUBSET S : V # S => V \in Good
      PROVE  S \in Good
  <2>1. IsFiniteSet(S)
    BY FS_Subset
  <2>2. Total(g, S) = IF S = {} THEN 0 ELSE g[Pick(S)] + Total(g, S \ {Pick(S)})
    BY <2>1, TotalUnfolds
  <2>3. S # {} => Pick(S) \in S
    BY DEF Pick
  <2>4. S # {} => Total(g, S \ {Pick(S)}) \in Int
    BY <1>1, <2>3
  <2>5. S # {} => g[Pick(S)] \in Int
    BY <2>3
  <2> QED
    BY <2>2, <2>4, <2>5
<1> HIDE DEF Good
<1>2. SUBSET K \subseteq Good
  BY <1>1, SubsetInduction
<1> QED
  BY <1>2 DEF Good

LEMMA TotalChanges ==
  ASSUME NEW K, IsFiniteSet(K), NEW g \in [K -> Int], NEW h \in [K -> Int],
         NEW k \in K, \A j \in K : j # k => h[j] = g[j]
  PROVE  Total(h, K) = Total(g, K) + h[k] - g[k]
<1> DEFINE Good == {S \in SUBSET K :
             Total(h, S) = IF k \in S THEN Total(g, S) + h[k] - g[k] ELSE Total(g, S)}
<1>1. ASSUME NEW S \in SUBSET K, \A V \in SUBSET S : V # S => V \in Good
      PROVE  S \in Good
  <2>x. PICK x : x = Pick(S)
    OBVIOUS
  <2>w. PICK W : W = S \ {x}
    OBVIOUS
  <2>1. /\ Total(g, S) = IF S = {} THEN 0 ELSE g[x] + Total(g, W)
        /\ Total(h, S) = IF S = {} THEN 0 ELSE h[x] + Total(h, W)
    BY <2>x, <2>w, FS_Subset, TotalUnfolds
  <2>2. CASE S = {}
    BY <2>1, <2>2
  <2>3. CASE S # {}
    <3>1. x \in S
      BY <2>3, <2>x DEF Pick
    <3>2. Total(g, W) \in Int /\ Total(h, W) \in Int
      BY <2>w, TotalType
    <3>3. Total(h, W) = IF k \in W THEN Total(g, W) + h[k] - g[k] ELSE Total(g, W)
      BY <1>1, <2>w, <3>1
    <3>4. g[x] \in Int /\ h[x] \in Int /\ g[k] \in Int /\ h[k] \in Int
      BY <3>1
    <3>5. CASE x = k
      BY <2>1, <2>3, <2>w, <3>1, <3>2, <3>3, <3>4, <3>5
    <3>6. CASE x # k
      BY <2>1, <2>3, <2>w, <3>1, <3>2, <3>3, <3>4, <3>6
    <3> QED
      BY <3>5, <3>6
  <2> QED
    BY <2>2, <2>3
<1> HIDE DEF Good
<1>2. K \in Good
  BY <1>1, SubsetInduction
<1> QED
  BY <1>2 DEF Good

LEMMA TotalOfZeros ==
  ASSUME NEW K, IsFiniteSet(K), NEW g, \A k \in K : g[k] = 0
  PROVE  Total(g, K) = 0
<1> DEFINE Good == {S \in SUBSET K : Total(g, S) = 0}
<1>1. ASSUME NEW S \in SUBSET K, \A V \in SUBSET S : V # S => V \in Good
      PROVE  S \in Good
  <2>1. Total(g, S) = IF S = {} THEN 0 ELSE g[Pick(S)] + Total(g, S \ {Pick(S)})
    BY FS_Subset, TotalUnfolds
  <2>2. S # {} => Pick(S) \in S
    BY DEF Pick
  <2>3. S # {} => Total(g, S \ {Pick(S)}) = 0 /\ g[Pick(S)] = 0
    BY <1>1, <2>2
  <2> QED
    BY <2>1, <2>3
<1> HIDE DEF Good
<1>2. K \in Good
  BY <1>1, SubsetInduction
<1> QED
  BY <1>2 DEF Good
-----------------------------------------------------------------------------
(***************************************************************************)
(* Keys.                                                                   *)
(***************************************************************************)
\* A task's key and its label are two keys, and both name it.
LEMMA TwoSpellings ==
  ASSUME NEW t \in Task
  PROVE  /\ t \in Key /\ LabelOf[t] \in Key /\ t # LabelOf[t]
         /\ t \in Named(t) /\ t \in Named(LabelOf[t])
BY ConstantsAssumption DEF Key, Named

\* The key of a row names that row only.
LEMMA RowNamesItself ==
  ASSUME NEW t \in Task
  PROVE  Named(t) = {t}
BY ConstantsAssumption DEF Named

LEMMA SpellingsAreKeys ==
  ASSUME NEW k \in Key
  PROVE  Spellings(k) \subseteq Key
BY ConstantsAssumption DEF Spellings, Key, Named

\* An unambiguous key leads to labels that name one row.
LEMMA UnambiguousLabel ==
  ASSUME NEW k, ~Ambiguous(k), NEW t \in Named(k)
  PROVE  Named(LabelOf[t]) = {t}
<1> DEFINE N == Named(LabelOf[t])
<1>1. t \in Task
  BY DEF Named
<1>2. t \in N
  BY <1>1, TwoSpellings
<1>3. IsFiniteSet(N)
  BY FS_Subset, ConstantsAssumption DEF Named
<1>4. Cardinality(N) \in Nat /\ ~(Cardinality(N) > 1)
  BY <1>3, FS_CardinalityType DEF Ambiguous
<1>5. Cardinality(N) # 0
  BY <1>2, <1>3, FS_EmptySet
<1>6. Cardinality(N) = 1
  BY <1>4, <1>5
<1>7. PICK x : N = {x}
  BY <1>3, <1>6, FS_Singleton
<1> QED
  BY <1>2, <1>7

\* What a revoke finds names no task that its key does not name.
LEMMA StrictlyItsOwn ==
  ASSUME NEW k \in Key, NEW h \in Best(k, CreditedStrictly(k))
  PROVE  h \in Key /\ Named(h) \subseteq Named(k)
<1>1. h \in CreditedStrictly(k)
  BY DEF Best
<1>2. CASE Ambiguous(k)
  BY <1>1, <1>2 DEF CreditedStrictly, Rows
<1>3. CASE ~Ambiguous(k)
  <2>1. h \in Spellings(k)
    BY <1>1, <1>3 DEF CreditedStrictly, Credited, Rows
  <2>2. h \in Key
    BY <2>1, SpellingsAreKeys
  <2>3. CASE h = k
    BY <2>2, <2>3
  <2>4. CASE h \in Named(k)
    BY <2>2, <2>4, RowNamesItself DEF Named
  <2>5. CASE \E t \in Named(k) : h = LabelOf[t]
    BY <2>2, <2>5, <1>3, UnambiguousLabel
  <2> QED
    BY <2>1, <2>3, <2>4, <2>5 DEF Spellings
<1> QED
  BY <1>2, <1>3
-----------------------------------------------------------------------------
(***************************************************************************)
(* The calls.                                                              *)
(***************************************************************************)
\* The step of a call leaves the others as they are, and itself a sound call
\* that is about to insert only after it has looked for a credit.
Stepped(r) ==
  \E c \in Call : /\ CallOK(c)
                  /\ run' = [run EXCEPT ![r] = c]
                  /\ c.stage = "insert" => Find(r) \/ FindExact(r)

Acts(r) ==
  \/ \E k \in Key, c \in 1..MaxPoints : Earn(r, k, c)
  \/ \E k \in Key : Revoke(r, k)
  \/ Find(r) \/ FindExact(r) \/ Insert(r) \/ FindAgain(r) \/ Raise(r)
  \/ Bank(r) \/ Die(r) \/ FindToRevoke(r) \/ Delete(r)

LEMMA PointsFromZero == MaxPoints \in Nat /\ 0 \in Points
<1>1. MaxPoints \in Nat
  BY Zenon, ConstantsAssumption
<1> QED
  BY <1>1 DEF Points

LEMMA IdleCall == Idle \in Call /\ CallOK(Idle) /\ Idle.stage = "idle"
BY PointsFromZero DEF Idle, Call, Stage, CallOK

LEMMA BeginStep ==
  ASSUME NEW r \in Run, NEW k \in Key, NEW c \in Points,
         NEW stage \in {"find", "find to revoke"}, Begin(r, k, c, stage)
  PROVE  Stepped(r)
<1> DEFINE new == [Idle EXCEPT !.stage = stage, !.key = k, !.credits = c]
<1>1. new \in Call /\ new.stage = stage /\ new.key = k
  <2>1. stage \in Stage
    BY DEF Stage
  <2> QED
    BY <2>1, IdleCall DEF Call
<1>2. CallOK(new)
  BY <1>1 DEF CallOK
<1>3. run' = [run EXCEPT ![r] = new]
  BY DEF Begin
<1> HIDE DEF new
<1> QED
  BY <1>1, <1>2, <1>3 DEF Stepped

LEMMA ResolvedStep ==
  ASSUME TypeOK, NEW r \in Run, CallOK(run[r]), run[r].stage # "idle",
         NEW hits \in SUBSET Key, NEW none \in Call, CallOK(none),
         none.stage = "insert" => Find(r) \/ FindExact(r),
         Resolved(r, hits, none)
  PROVE  Stepped(r)
<1>1. CASE hits = {}
  BY <1>1 DEF Resolved, Stepped
<1>2. CASE hits # {}
  <2>1. PICK h \in Best(run[r].key, hits) :
          run' = [run EXCEPT ![r] =
            IF BelowScore(h, @.credits)
            THEN [@ EXCEPT !.stage = "raise", !.found = h, !.was = ledger[h]]
            ELSE Idle]
    BY <1>2 DEF Resolved
  <2>2. h \in Key
    BY <2>1 DEF Best
  <2>3. run[r] \in Call /\ ledger[h] \in Points
    BY <2>2 DEF TypeOK
  <2> DEFINE up == [run[r] EXCEPT !.stage = "raise", !.found = h, !.was = ledger[h]]
  <2>4. /\ up \in Call /\ up.stage = "raise" /\ up.found = h
        /\ up.was = ledger[h] /\ up.credits = run[r].credits /\ up.key = run[r].key
    BY <2>2, <2>3 DEF Call, Stage
  <2>5. ASSUME BelowScore(h, run[r].credits) PROVE CallOK(up)
    BY <2>2, <2>4, <2>5 DEF CallOK, BelowScore
  <2>6. run' = [run EXCEPT ![r] = IF BelowScore(h, run[r].credits) THEN up ELSE Idle]
    BY <2>1, <2>3 DEF TypeOK
  <2> HIDE DEF up
  <2> QED
    BY <2>4, <2>5, <2>6, IdleCall DEF Stepped
<1> QED
  BY <1>1, <1>2

\* Every step is one of a call.
LEMMA CallStep ==
  ASSUME IInv, NEW r \in Run, Acts(r)
  PROVE  Stepped(r)
<1>1. TypeOK /\ CallOK(run[r]) /\ run[r] \in Call
  BY DEF IInv, RunsOK, TypeOK
<1>2. CASE \E k \in Key, c \in 1..MaxPoints : Earn(r, k, c)
  <2>1. PICK k \in Key, c \in 1..MaxPoints : Begin(r, k, c, "find")
    BY <1>2 DEF Earn
  <2>2. c \in Points
    BY PointsFromZero DEF Points
  <2> QED
    BY <2>1, <2>2, BeginStep
<1>3. CASE \E k \in Key : Revoke(r, k)
  <2>1. PICK k \in Key : Begin(r, k, 0, "find to revoke")
    BY <1>3 DEF Revoke
  <2>2. 0 \in Points
    BY PointsFromZero DEF Points
  <2> QED
    BY <2>1, <2>2, BeginStep
<1>4. CASE Find(r) \/ FindExact(r)
  <2>1. run[r].stage = "find" /\ run[r].key \in Key
    BY <1>1, <1>4 DEF Find, FindExact, At, CallOK
  <2>2. /\ Inserting(r) \in Call /\ Inserting(r).stage = "insert"
        /\ Inserting(r).key = run[r].key
    BY <1>1 DEF Inserting, Call, Stage
  <2>3. CallOK(Inserting(r))
    BY <2>1, <2>2 DEF CallOK
  <2>4. Credited(run[r].key) \subseteq Key /\ Rows({run[r].key}) \subseteq Key
    BY <2>1, SpellingsAreKeys DEF Credited, Rows
  <2>5. PICK hits \in SUBSET Key : Resolved(r, hits, Inserting(r))
    BY <1>4, <2>4 DEF Find, FindExact
  <2> QED
    BY <1>1, <1>4, <2>1, <2>2, <2>3, <2>5, ResolvedStep
<1>5. CASE Insert(r)
  <2>1. run[r].stage = "insert" /\ run[r].key \in Key
    BY <1>1, <1>5 DEF Insert, At, CallOK
  <2> DEFINE paid == [run[r] EXCEPT !.stage = "bank", !.owed = run[r].credits]
             lost == [run[r] EXCEPT !.stage = "again"]
  <2>2. /\ paid \in Call /\ paid.stage = "bank" /\ paid.key = run[r].key
        /\ lost \in Call /\ lost.stage = "again" /\ lost.key = run[r].key
    BY <1>1 DEF Call, Stage
  <2>3. CallOK(paid) /\ CallOK(lost)
    BY <2>1, <2>2 DEF CallOK
  <2>4. run' = [run EXCEPT ![r] = paid] \/ run' = [run EXCEPT ![r] = lost]
    BY <1>1, <1>5 DEF Insert, TypeOK
  <2> HIDE DEF paid, lost
  <2> QED
    BY <2>2, <2>3, <2>4 DEF Stepped
<1>6. CASE FindAgain(r)
  <2>1. run[r].stage # "idle" /\ run[r].key \in Key
    BY <1>1, <1>6 DEF FindAgain, At, CallOK
  <2>2. Credited(run[r].key) \subseteq Key /\ Rows({run[r].key}) \subseteq Key
    BY <2>1, SpellingsAreKeys DEF Credited, Rows
  <2>3. PICK hits \in SUBSET Key : Resolved(r, hits, Idle)
    BY <1>6, <2>2 DEF FindAgain
  <2> QED
    BY <1>1, <2>1, <2>3, IdleCall, ResolvedStep
<1>7. CASE Raise(r)
  <2>1. /\ run[r].stage = "raise" /\ run[r].key \in Key
        /\ run[r].was < run[r].credits
    BY <1>1, <1>7 DEF Raise, At, CallOK
  <2> DEFINE paid == [run[r] EXCEPT !.stage = "bank",
                                    !.owed = run[r].credits - run[r].was]
  <2>2. run[r].was \in Points /\ run[r].credits \in Points
    BY <1>1 DEF Call
  <2>3. run[r].credits - run[r].was \in Points
    BY <2>1, <2>2, PointsFromZero DEF Points
  <2>4. paid \in Call /\ paid.stage = "bank" /\ paid.key = run[r].key
    BY <1>1, <2>3 DEF Call, Stage
  <2>5. CallOK(paid)
    BY <2>1, <2>4 DEF CallOK
  <2>6. run' = [run EXCEPT ![r] = paid] \/ run' = [run EXCEPT ![r] = Idle]
    BY <1>1, <1>7 DEF Raise, Finished, TypeOK
  <2> HIDE DEF paid
  <2> QED
    BY <2>4, <2>5, <2>6, IdleCall DEF Stepped
<1>8. CASE Bank(r) \/ Die(r) \/ Delete(r)
  BY <1>8, IdleCall DEF Bank, Die, Delete, Finished, Stepped
<1>9. CASE FindToRevoke(r)
  <2>1. run[r].stage # "idle" /\ run[r].key \in Key
    BY <1>1, <1>9 DEF FindToRevoke, At, CallOK
  <2>2. PICK h : /\ h = run[r].key \/ h \in Best(run[r].key, CreditedStrictly(run[r].key))
                 /\ run' = [run EXCEPT ![r].stage = "delete", ![r].found = h]
    BY <1>9 DEF FindToRevoke, Target
  <2>3. h \in Key /\ Named(h) \subseteq Named(run[r].key)
    BY <2>1, <2>2, StrictlyItsOwn
  <2> DEFINE del == [run[r] EXCEPT !.stage = "delete", !.found = h]
  <2>4. /\ del \in Call /\ del.stage = "delete" /\ del.key = run[r].key
        /\ del.found = h
    BY <1>1, <2>3 DEF Call, Stage
  <2>5. CallOK(del)
    BY <2>1, <2>3, <2>4 DEF CallOK
  <2>6. run' = [run EXCEPT ![r] = del]
    BY <1>1, <2>2 DEF TypeOK
  <2> HIDE DEF del
  <2> QED
    BY <2>4, <2>5, <2>6 DEF Stepped
<1> QED
  BY <1>2, <1>3, <1>4, <1>5, <1>6, <1>7, <1>8, <1>9 DEF Acts
-----------------------------------------------------------------------------
(***************************************************************************)
(* The ledger.                                                             *)
(***************************************************************************)
\* Only the insert of an earn gives points to a key that has none.
NoNewRow == \A k \in Key : ledger[k] = 0 => ledger'[k] = 0

\* Only a delete takes all the points of a key.
NoRowGone == \A k \in Key : ledger[k] > 0 => ledger'[k] > 0

LEMMA LedgerStep ==
  ASSUME IInv, NEW r \in Run, Acts(r)
  PROVE  /\ ledger' \in [Key -> Points]
         /\ Insert(r) \/ NoNewRow
         /\ Delete(r) \/ NoRowGone
<1>1. /\ ledger \in [Key -> Points] /\ CallOK(run[r]) /\ run[r] \in Call
      /\ run[r].credits \in Points /\ run[r].was \in Points
  BY DEF IInv, RunsOK, TypeOK, Call
<1>2. \A p \in Points : p \in Int /\ p >= 0
  BY PointsFromZero DEF Points
<1>3. CASE Insert(r)
  <2>1. run[r].key \in Key
    BY <1>1, <1>3 DEF Insert, At, CallOK
  <2>2. \/ ledger' = ledger
        \/ /\ ledger[run[r].key] = 0
           /\ ledger' = [ledger EXCEPT ![run[r].key] = run[r].credits]
    BY <1>3 DEF Insert
  <2> QED
    BY <1>1, <1>2, <1>3, <2>1, <2>2 DEF NoRowGone
<1>4. CASE Raise(r)
  <2> DEFINE h == run[r].found
  <2>1. h \in Key /\ run[r].was < run[r].credits
    BY <1>1, <1>4 DEF Raise, At, CallOK
  <2>2. ledger' = [ledger EXCEPT ![h] = IF ledger[h] > 0 THEN run[r].credits ELSE 0]
    BY <1>4 DEF Raise
  <2>3. run[r].credits > 0
    BY <1>1, <1>2, <2>1
  <2> HIDE DEF h
  <2> QED
    BY <1>1, <1>2, <2>1, <2>2, <2>3, PointsFromZero DEF NoNewRow, NoRowGone
<1>5. CASE Delete(r)
  <2>1. run[r].found \in Key
    BY <1>1, <1>5 DEF Delete, At, CallOK
  <2>2. ledger' = [ledger EXCEPT ![run[r].found] = 0]
    BY <1>5 DEF Delete
  <2> QED
    BY <1>1, <1>5, <2>1, <2>2, PointsFromZero DEF NoNewRow
<1>6. CASE ledger' = ledger
  BY <1>1, <1>6 DEF NoNewRow, NoRowGone
<1> QED
  BY <1>3, <1>4, <1>5, <1>6
     DEF Acts, Earn, Revoke, Begin, Find, FindExact, FindAgain, Bank, Die, FindToRevoke

\* What the others know of the history stays known.
LEMMA BlindGrows ==
  ASSUME NEW r \in Run, Acts(r)
  PROVE  blind \subseteq blind'
BY DEF Acts, Earn, Revoke, Begin, Find, FindExact, Insert, FindAgain, Raise, Bank, Die,
       FindToRevoke, Delete

LEMMA TypeStep ==
  ASSUME IInv, NEW r \in Run, Acts(r)
  PROVE  TypeOK'
<1>1. TypeOK /\ run[r] \in Call /\ CallOK(run[r])
  BY DEF IInv, RunsOK, TypeOK
<1>2. run' \in [Run -> Call]
  <2>0. Stepped(r)
    BY CallStep
  <2>1. PICK c \in Call : run' = [run EXCEPT ![r] = c]
    BY <2>0 DEF Stepped
  <2> QED
    BY <1>1, <2>1 DEF TypeOK
<1>3. ledger' \in [Key -> Points]
  BY LedgerStep
<1>4. balance' \in Int
  <2>1. \A p \in Points : p \in Int
    BY DEF Points
  <2>2. CASE Bank(r)
    BY <1>1, <2>1, <2>2 DEF Bank, TypeOK, Call
  <2>3. CASE Delete(r)
    <3>1. run[r].found \in Key
      BY <1>1, <2>3 DEF Delete, At, CallOK
    <3>2. ledger[run[r].found] \in Int
      BY <1>1, <2>1, <3>1 DEF TypeOK
    <3> QED
      BY <1>1, <2>3, <3>2 DEF Delete, TypeOK
  <2>4. CASE balance' = balance
    BY <1>1, <2>4 DEF TypeOK
  <2> QED
    BY <2>2, <2>3, <2>4
       DEF Acts, Earn, Revoke, Begin, Find, FindExact, Insert, FindAgain, Raise, Die,
           FindToRevoke
<1>5. calls' \in 0..MaxCalls
  <2>1. MaxCalls \in Nat
    BY Zenon, ConstantsAssumption
  <2>2. calls' = calls \/ (calls < MaxCalls /\ calls' = calls + 1)
    BY DEF Acts, Earn, Revoke, Begin, Find, FindExact, Insert, FindAgain, Raise, Bank,
           Die, FindToRevoke, Delete
  <2> QED
    BY <1>1, <2>1, <2>2 DEF TypeOK
<1>6. faults' \in 0..MaxFaults
  <2>1. MaxFaults \in Nat
    BY Zenon, ConstantsAssumption
  <2>2. faults' = faults \/ (faults < MaxFaults /\ faults' = faults + 1)
    BY DEF Acts, Earn, Revoke, Begin, Find, FindExact, Insert, FindAgain, Raise, Bank,
           Die, FindToRevoke, Delete, Fallback
  <2> QED
    BY <1>1, <2>1, <2>2 DEF TypeOK
<1>7. blind' \subseteq Task
  <2>1. Unseen(r) \subseteq Task /\ Named(run[r].key) \subseteq Task
    BY DEF Unseen, Named
  <2>2. blind' = blind \/ blind' = blind \cup Unseen(r)
        \/ blind' = blind \cup Named(run[r].key)
    BY DEF Acts, Earn, Revoke, Begin, Find, FindExact, Insert, FindAgain, Raise, Bank,
           Die, FindToRevoke, Delete
  <2> QED
    BY <1>1, <2>1, <2>2 DEF TypeOK
<1>8. stale' \in BOOLEAN
  <2>1. stale' = stale \/ stale' \in BOOLEAN
    BY DEF Acts, Earn, Revoke, Begin, Find, FindExact, Insert, FindAgain, Raise, Bank,
           Die, FindToRevoke, Delete
  <2> QED
    BY <1>1, <2>1 DEF TypeOK
<1>9. died' \in BOOLEAN
  <2>1. died' = died \/ died' \in BOOLEAN
    BY DEF Acts, Earn, Revoke, Begin, Find, FindExact, Insert, FindAgain, Raise, Bank,
           Die, FindToRevoke, Delete
  <2> QED
    BY <1>1, <2>1 DEF TypeOK
<1> QED
  BY <1>2, <1>3, <1>4, <1>5, <1>6, <1>7, <1>8, <1>9 DEF TypeOK
-----------------------------------------------------------------------------
(***************************************************************************)
(* One spelling.                                                           *)
(***************************************************************************)
\* An earn goes on to insert when it has found nothing under any spelling, or
\* the history says that it could not look.
LEMMA FoundNothing ==
  ASSUME IInv, NEW r \in Run, Acts(r), run'[r].stage = "insert"
  PROVE  /\ Find(r) \/ FindExact(r)
         /\ run'[r].key = run[r].key /\ run[r].key \in Key
         /\ Unseen(r) \subseteq blind' \/ Named(run[r].key) \subseteq blind'
         /\ \A t \in Named(run[r].key) \ blind' : \A s \in {t, LabelOf[t]} : ledger'[s] = 0
<1>1. run \in [Run -> Call] /\ CallOK(run[r]) /\ run[r] \in Call
  BY DEF IInv, RunsOK, TypeOK
<1>2. Find(r) \/ FindExact(r)
  <2>0. Stepped(r)
    BY CallStep
  <2>1. PICK c \in Call : /\ run' = [run EXCEPT ![r] = c]
                          /\ c.stage = "insert" => Find(r) \/ FindExact(r)
    BY <2>0 DEF Stepped
  <2> QED
    BY <1>1, <2>1
<1>3. run[r].key \in Key
  BY <1>1, <1>2 DEF Find, FindExact, At, CallOK
<1>4. ASSUME NEW hits, Resolved(r, hits, Inserting(r))
      PROVE  hits = {} /\ run'[r] = Inserting(r)
  <2>1. CASE hits = {}
    BY <1>1, <1>4, <2>1 DEF Resolved
  <2>2. CASE hits # {}
    <3>1. PICK h : run' = [run EXCEPT ![r] =
            IF BelowScore(h, @.credits)
            THEN [@ EXCEPT !.stage = "raise", !.found = h, !.was = ledger[h]]
            ELSE Idle]
      BY <1>4, <2>2 DEF Resolved
    <3> DEFINE up == [run[r] EXCEPT !.stage = "raise", !.found = h, !.was = ledger[h]]
    <3>2. run'[r] = up \/ run'[r] = Idle
      BY <1>1, <3>1
    <3>3. up.stage = "raise"
      BY <1>1 DEF Call
    <3> HIDE DEF up
    <3> QED
      BY <3>2, <3>3, IdleCall
  <2> QED
    BY <2>1, <2>2
<1>5. Inserting(r).key = run[r].key
  BY <1>1 DEF Inserting, Call
<1>6. CASE Find(r)
  <2>1. Credited(run[r].key) = {} /\ run'[r] = Inserting(r)
    BY <1>4, <1>6 DEF Find
  <2>2. \A s \in Spellings(run[r].key) : ledger[s] = 0
    <3>1. \A p \in Points : p \in Nat
      BY DEF Points
    <3>2. \A s \in Spellings(run[r].key) : ledger[s] \in Nat /\ ~(ledger[s] > 0)
      BY <1>3, <2>1, <3>1, SpellingsAreKeys DEF Credited, Rows, IInv, TypeOK
    <3> QED
      BY <3>2
  <2>3. \A t \in Named(run[r].key) : {t, LabelOf[t]} \subseteq Spellings(run[r].key)
    BY DEF Spellings
  <2> QED
    BY <1>2, <1>3, <1>5, <1>6, <2>1, <2>2, <2>3 DEF Find
<1>7. CASE FindExact(r)
  <2>1. run'[r] = Inserting(r) /\ Named(run[r].key) \subseteq blind'
    BY <1>4, <1>7 DEF FindExact
  <2> QED
    BY <1>2, <1>3, <1>5, <2>1
<1> QED
  BY <1>2, <1>6, <1>7

LEMMA RunsStep ==
  ASSUME IInv, NEW r \in Run, Acts(r)
  PROVE  RunsOK'
<1>1. /\ run \in [Run -> Call] /\ ledger \in [Key -> Points]
      /\ \A s \in Run : CallOK(run[s]) /\ InsertOK(s)
      /\ \A s, q \in Run : PairOK(s, q)
  BY DEF IInv, RunsOK, TypeOK
<1>2. /\ \A s \in Run : s # r => run'[s] = run[s]
      /\ CallOK(run'[r])
  <2>0. Stepped(r)
    BY CallStep
  <2>1. PICK c \in Call : CallOK(c) /\ run' = [run EXCEPT ![r] = c]
    BY <2>0 DEF Stepped
  <2> QED
    BY <1>1, <2>1
<1>3. ASSUME NEW s \in Run PROVE CallOK(run'[s])
  BY <1>1, <1>2
<1>4. ASSUME NEW s \in Run PROVE InsertOK(s)'
  <2>1. CASE s = r
    BY <2>1, FoundNothing DEF InsertOK, At
  <2>2. CASE s # r
    <3> SUFFICES ASSUME At(s, "insert"), NEW t \in Named(run[s].key) \ blind',
                        NEW u \in Key, u \in {t, LabelOf[t]}, u # run[s].key
                 PROVE  ledger'[u] = 0
      BY <1>2, <2>2 DEF InsertOK, At
    <3>1. t \notin blind /\ ledger[u] = 0
      BY <1>1, BlindGrows DEF InsertOK
    <3>2. CASE NoNewRow
      BY <3>1, <3>2 DEF NoNewRow
    <3>3. CASE Insert(r)
      <4>1. t \in Named(u)
        BY TwoSpellings DEF Named
      <4>2. u # run[r].key
        BY <1>1, <3>1, <3>3, <4>1 DEF PairOK, Insert
      <4> QED
        BY <1>1, <3>1, <3>3, <4>2 DEF Insert
    <3> QED
      BY <3>2, <3>3, LedgerStep
  <2> QED
    BY <2>1, <2>2
<1>5. ASSUME NEW s \in Run, s # r, run'[r].stage = "insert", At(s, "insert"),
             run[s].key # run'[r].key
      PROVE  Named(run'[r].key) \cap Named(run[s].key) \subseteq blind'
  BY <1>5, FoundNothing DEF Unseen
<1>6. ASSUME NEW s \in Run, NEW q \in Run PROVE PairOK(s, q)'
  <2>1. CASE s = r /\ q = r
    BY <2>1 DEF PairOK
  <2>2. CASE s = r /\ q # r
    BY <1>2, <1>5, <2>2 DEF PairOK, At
  <2>3. CASE s # r /\ q = r
    BY <1>2, <1>5, <2>3 DEF PairOK, At
  <2>4. CASE s # r /\ q # r
    BY <1>1, <1>2, <2>4, BlindGrows DEF PairOK, At
  <2> QED
    BY <2>1, <2>2, <2>3, <2>4
<1> QED
  BY <1>3, <1>4, <1>6 DEF RunsOK

LEMMA PaidStep ==
  ASSUME IInv, NEW r \in Run, Acts(r)
  PROVE  PaidOnce'
<1> SUFFICES ASSUME NEW t \in Task \ blind'
             PROVE  ledger'[t] = 0 \/ ledger'[LabelOf[t]] = 0
  BY DEF PaidOnce
<1>1. /\ t \in Key /\ LabelOf[t] \in Key /\ t # LabelOf[t]
      /\ t \in Named(t) /\ t \in Named(LabelOf[t])
  BY TwoSpellings
<1>2. t \notin blind /\ (ledger[t] = 0 \/ ledger[LabelOf[t]] = 0)
  BY BlindGrows DEF IInv, PaidOnce
<1>3. CASE NoNewRow
  BY <1>1, <1>2, <1>3 DEF NoNewRow
<1>4. CASE Insert(r)
  <2>1. ledger \in [Key -> Points] /\ InsertOK(r)
    BY DEF IInv, RunsOK, TypeOK
  <2>2. \A k \in Key : k # run[r].key => ledger'[k] = ledger[k]
    BY <1>4, <2>1 DEF Insert
  <2>3. CASE run[r].key = t
    BY <1>1, <1>2, <1>4, <2>1, <2>2, <2>3 DEF Insert, InsertOK
  <2>4. CASE run[r].key = LabelOf[t]
    BY <1>1, <1>2, <1>4, <2>1, <2>2, <2>4 DEF Insert, InsertOK
  <2>5. CASE run[r].key \notin {t, LabelOf[t]}
    BY <1>1, <1>2, <2>2, <2>5
  <2> QED
    BY <2>3, <2>4, <2>5
<1> QED
  BY <1>3, <1>4, LedgerStep
-----------------------------------------------------------------------------
(***************************************************************************)
(* The balance.                                                            *)
(***************************************************************************)
\* Only an earn that is about to bank owes points.
OwedOK == \A r \in Run : ~At(r, "bank") => run[r].owed = 0

\* What a step moves: nothing, points of one key that its call then owes, what
\* its call owed, the points of one key with the balance.
Unmoved(r) ==
  ledger' = ledger /\ balance' = balance /\ run'[r].owed = run[r].owed
Credits(r) ==
  /\ balance' = balance /\ run[r].owed = 0
  /\ \E k \in Key : ledger' = [ledger EXCEPT ![k] = ledger[k] + run'[r].owed]
Banks(r) ==
  ledger' = ledger /\ balance' = balance + run[r].owed /\ run'[r].owed = 0
Debits(r) ==
  /\ run'[r].owed = run[r].owed
  /\ \E k \in Key : /\ ledger' = [ledger EXCEPT ![k] = 0]
                    /\ balance' = balance - ledger[k]

\* A call that has found its credit, or none, owes nothing.
LEMMA ResolvedOwesNothing ==
  ASSUME TypeOK, NEW r \in Run, run[r].owed = 0, NEW hits, NEW none, none.owed = 0,
         Resolved(r, hits, none)
  PROVE  run'[r].owed = 0
<1>1. run \in [Run -> Call] /\ run[r] \in Call
  BY DEF TypeOK
<1>2. CASE hits = {}
  BY <1>1, <1>2 DEF Resolved
<1>3. CASE hits # {}
  <2>1. PICK h : run' = [run EXCEPT ![r] =
          IF BelowScore(h, @.credits)
          THEN [@ EXCEPT !.stage = "raise", !.found = h, !.was = ledger[h]]
          ELSE Idle]
    BY <1>3 DEF Resolved
  <2> DEFINE up == [run[r] EXCEPT !.stage = "raise", !.found = h, !.was = ledger[h]]
  <2>2. run'[r] = up \/ run'[r] = Idle
    BY <1>1, <2>1
  <2>3. up.owed = 0 /\ Idle.owed = 0
    BY <1>1 DEF Call, Idle
  <2> HIDE DEF up
  <2> QED
    BY <2>2, <2>3
<1> QED
  BY <1>2, <1>3

LEMMA Moves ==
  ASSUME IInv, OwedOK, NEW r \in Run, Acts(r)
  PROVE  /\ run'[r].stage # "bank" => run'[r].owed = 0
         /\ died' \/ stale' \/ Unmoved(r) \/ Credits(r) \/ Banks(r) \/ Debits(r)
<1> DEFINE Goal == /\ run'[r].stage # "bank" => run'[r].owed = 0
                   /\ died' \/ stale' \/ Unmoved(r) \/ Credits(r) \/ Banks(r) \/ Debits(r)
<1> SUFFICES Goal
  OBVIOUS
<1>1. /\ TypeOK /\ CallOK(run[r]) /\ run \in [Run -> Call] /\ run[r] \in Call
      /\ ledger \in [Key -> Points] /\ balance \in Int
      /\ run[r].credits \in Int /\ run[r].was \in Int /\ run[r].owed \in Int
      /\ \A k \in Key : ledger[k] \in Nat
      /\ run[r].stage # "bank" => run[r].owed = 0
      /\ Idle.owed = 0
  <2>1. \A p \in Points : p \in Nat
    BY DEF Points
  <2> QED
    BY <2>1 DEF IInv, RunsOK, TypeOK, Call, OwedOK, At, Idle
<1>2. ASSUME ledger' = ledger, balance' = balance, run[r].owed = 0, run'[r].owed = 0
      PROVE  Goal
  BY <1>2 DEF Unmoved
<1>3. ASSUME NEW k, NEW c, NEW stage, Begin(r, k, c, stage) PROVE Goal
  <2> DEFINE new == [Idle EXCEPT !.stage = stage, !.key = k, !.credits = c]
  <2>1. new.owed = 0
    BY DEF Idle
  <2>2. run'[r] = new /\ run[r].stage = "idle"
    BY <1>1, <1>3 DEF Begin, At
  <2> HIDE DEF new
  <2>3. run[r].owed = 0 /\ run'[r].owed = 0
    BY <1>1, <2>1, <2>2
  <2> QED
    BY <1>2, <1>3, <2>3 DEF Begin
<1>4. CASE Find(r) \/ FindExact(r) \/ FindAgain(r)
  <2>1. run[r].owed = 0
    BY <1>1, <1>4 DEF Find, FindExact, FindAgain, At
  <2>2. Inserting(r).owed = 0
    BY <1>1, <2>1 DEF Inserting, Call
  <2>3. \E hits : Resolved(r, hits, Inserting(r)) \/ Resolved(r, hits, Idle)
    BY <1>4 DEF Find, FindExact, FindAgain
  <2>4. run'[r].owed = 0
    BY <1>1, <2>1, <2>2, <2>3, ResolvedOwesNothing
  <2> QED
    BY <1>2, <1>4, <2>1, <2>4 DEF Find, FindExact, FindAgain
<1>5. CASE Insert(r)
  <2>k. PICK k : k = run[r].key
    OBVIOUS
  <2>1. run[r].stage = "insert" /\ k \in Key /\ run[r].owed = 0
    BY <1>1, <1>5, <2>k DEF Insert, At, CallOK
  <2> DEFINE paid == [run[r] EXCEPT !.stage = "bank", !.owed = run[r].credits]
             lost == [run[r] EXCEPT !.stage = "again"]
  <2>2. /\ paid.stage = "bank" /\ paid.owed = run[r].credits
        /\ lost.stage = "again" /\ lost.owed = run[r].owed
    BY <1>1 DEF Call
  <2>3. \/ /\ ledger[k] = 0 /\ ledger' = [ledger EXCEPT ![k] = run[r].credits]
           /\ run'[r] = paid
        \/ ledger' = ledger /\ run'[r] = lost
    BY <1>1, <1>5, <2>k DEF Insert
  <2>4. balance' = balance
    BY <1>5 DEF Insert
  <2> HIDE DEF paid, lost
  <2>5. CASE ledger[k] = 0 /\ ledger' = [ledger EXCEPT ![k] = run[r].credits] /\ run'[r] = paid
    <3>1. ledger[k] + run'[r].owed = run[r].credits
      BY <1>1, <2>2, <2>5
    <3> QED
      BY <2>1, <2>2, <2>4, <2>5, <3>1 DEF Credits
  <2>6. CASE ledger' = ledger /\ run'[r] = lost
    BY <1>2, <2>1, <2>2, <2>4, <2>6
  <2> QED
    BY <2>3, <2>5, <2>6
<1>6. CASE Raise(r)
  <2>h. PICK h : h = run[r].found
    OBVIOUS
  <2>1. run[r].stage = "raise" /\ h \in Key /\ run[r].owed = 0
    BY <1>1, <1>6, <2>h DEF Raise, At, CallOK
  <2>2. /\ ledger' = [ledger EXCEPT ![h] = IF ledger[h] > 0 THEN run[r].credits ELSE 0]
        /\ balance' = balance
        /\ ~stale' => ledger[h] = run[r].was \/ ~(ledger[h] > 0)
    BY <1>6, <2>h DEF Raise
  <2> DEFINE paid == [run[r] EXCEPT !.stage = "bank", !.owed = run[r].credits - run[r].was]
  <2>3. paid.stage = "bank" /\ paid.owed = run[r].credits - run[r].was
    BY <1>1 DEF Call
  <2>4. IF ledger[h] > 0 THEN run'[r] = paid ELSE run'[r] = Idle
    BY <1>1, <1>6, <2>h DEF Raise, RaisedARow, Finished
  <2> HIDE DEF paid
  <2>5. CASE ledger[h] > 0 /\ ~stale'
    <3>1. ledger[h] + run'[r].owed = run[r].credits
      BY <1>1, <2>2, <2>3, <2>4, <2>5
    <3> QED
      BY <2>1, <2>2, <2>3, <2>4, <2>5, <3>1 DEF Credits
  <2>6. CASE ~(ledger[h] > 0)
    <3>1. ledger[h] = 0
      BY <1>1, <2>1, <2>6
    <3>2. ledger' = ledger
      BY <1>1, <2>1, <2>2, <3>1
    <3> QED
      BY <1>1, <1>2, <2>1, <2>2, <2>4, <2>6, <3>2
  <2>7. CASE stale' /\ ledger[h] > 0
    BY <2>3, <2>4, <2>7
  <2> QED
    BY <2>5, <2>6, <2>7
<1>7. CASE Bank(r)
  BY <1>1, <1>7 DEF Bank, Finished, Banks
<1>8. CASE Die(r)
  <2>1. ledger' = ledger /\ balance' = balance /\ run'[r].owed = 0
    BY <1>1, <1>8 DEF Die, Finished
  <2>2. died' \/ run[r].owed = 0
    BY <1>1, <1>8 DEF Die, At
  <2> QED
    BY <1>2, <2>1, <2>2
<1>9. CASE FindToRevoke(r)
  <2>1. run[r].stage = "find to revoke" /\ run[r].owed = 0
    BY <1>1, <1>9 DEF FindToRevoke, At
  <2>2. PICK h : run' = [run EXCEPT ![r].stage = "delete", ![r].found = h]
    BY <1>9 DEF FindToRevoke, Target
  <2>3. run'[r].owed = 0
    BY <1>1, <2>1, <2>2 DEF Call
  <2> QED
    BY <1>2, <1>9, <2>1, <2>3 DEF FindToRevoke
<1>10. CASE Delete(r)
  <2>1. run[r].stage = "delete" /\ run[r].found \in Key /\ run[r].owed = 0
    BY <1>1, <1>10 DEF Delete, At, CallOK
  <2>2. /\ ledger' = [ledger EXCEPT ![run[r].found] = 0]
        /\ balance' = balance - ledger[run[r].found]
        /\ run'[r].owed = 0
    BY <1>1, <1>10 DEF Delete, Finished
  <2> QED
    BY <2>1, <2>2 DEF Debits
<1>11. CASE \E k \in Key, c \in 1..MaxPoints : Earn(r, k, c)
  BY <1>3, <1>11 DEF Earn
<1>12. CASE \E k \in Key : Revoke(r, k)
  BY <1>3, <1>12 DEF Revoke
<1> QED
  BY <1>4, <1>5, <1>6, <1>7, <1>8, <1>9, <1>10, <1>11, <1>12 DEF Acts

LEMMA BalanceStep ==
  ASSUME IsFiniteSet(Label), IInv, OwedOK, BalanceExplained, NEW r \in Run, Acts(r)
  PROVE  OwedOK' /\ BalanceExplained'
<1> DEFINE O == [s \in Run |-> run[s].owed]
<1> DEFINE P == [s \in Run |-> run'[s].owed]
<1>1. /\ run \in [Run -> Call] /\ run' \in [Run -> Call]
      /\ ledger \in [Key -> Int] /\ ledger' \in [Key -> Int]
      /\ balance \in Int /\ balance' \in Int
  <2>1. TypeOK /\ TypeOK'
    BY TypeStep DEF IInv
  <2>2. Points \subseteq Int
    BY DEF Points
  <2> QED
    BY <2>1, <2>2 DEF TypeOK
<1>2. O \in [Run -> Int] /\ P \in [Run -> Int]
  <2>1. \A c \in Call : c.owed \in Int
    BY DEF Call, Points
  <2> QED
    BY <1>1, <2>1
<1>3. \A s \in Run : s # r => run'[s] = run[s]
  <2>0. Stepped(r)
    BY CallStep
  <2>1. PICK c \in Call : run' = [run EXCEPT ![r] = c]
    BY <2>0 DEF Stepped
  <2> QED
    BY <1>1, <2>1
<1>4. IsFiniteSet(Run) /\ IsFiniteSet(Key)
  <2>1. MaxRuns \in Nat
    BY Zenon, ConstantsAssumption
  <2>2. IsFiniteSet(Run)
    BY <2>1, FS_Interval DEF Run
  <2> QED
    BY <2>2, FS_Union, ConstantsAssumption DEF Key
<1>5. /\ Total(P, Run) = Total(O, Run) + run'[r].owed - run[r].owed
      /\ Total(O, Run) \in Int /\ run[r].owed \in Int /\ run'[r].owed \in Int
  <2>1. \A s \in Run : s # r => P[s] = O[s]
    BY <1>3
  <2>2. O[r] = run[r].owed /\ P[r] = run'[r].owed
    OBVIOUS
  <2>3. O[r] \in Int /\ P[r] \in Int
    BY <1>2
  <2> HIDE DEF O, P
  <2> QED
    BY <1>2, <1>4, <2>1, <2>2, <2>3, TotalChanges, TotalType
<1>6. ASSUME NEW k \in Key, NEW p \in Int, ledger' = [ledger EXCEPT ![k] = p]
      PROVE  Total(ledger', Key) = Total(ledger, Key) + p - ledger[k]
  <2>1. ledger'[k] = p /\ \A j \in Key : j # k => ledger'[j] = ledger[j]
    BY <1>1, <1>6
  <2> QED
    BY <1>1, <1>4, <2>1, TotalChanges
<1>7. Total(ledger, Key) \in Int /\ \A k \in Key : ledger[k] \in Int
  BY <1>1, <1>4, TotalType
<1>8. ~died' /\ ~stale' => balance + Total(O, Run) = Total(ledger, Key)
  <2>1. (died => died') /\ (stale => stale')
    <3>1. CASE Raise(r)
      BY <3>1 DEF Raise
    <3>2. CASE Die(r)
      BY <3>2 DEF Die
    <3>3. CASE UNCHANGED <<stale, died>>
      BY <3>3
    <3> QED
      BY <3>1, <3>2, <3>3 DEF Acts, Earn, Revoke, Begin, Find, FindExact, Insert,
         FindAgain, Bank, FindToRevoke, Delete
  <2> QED
    BY <2>1 DEF BalanceExplained, LedgerTotal, OwedTotal
<1> HIDE DEF O, P
<1>9. ASSUME ~died', ~stale'
      PROVE  balance' + Total(P, Run) = Total(ledger', Key)
  <2>1. CASE Unmoved(r)
    BY <1>1, <1>5, <1>7, <1>8, <1>9, <2>1 DEF Unmoved
  <2>2. CASE Credits(r)
    <3>1. PICK k \in Key : ledger' = [ledger EXCEPT ![k] = ledger[k] + run'[r].owed]
      BY <2>2 DEF Credits
    <3>2. ledger[k] + run'[r].owed \in Int
      BY <1>5, <1>7
    <3>3. Total(ledger', Key) = Total(ledger, Key) + (ledger[k] + run'[r].owed) - ledger[k]
      BY <1>6, <3>1, <3>2
    <3> QED
      BY <1>1, <1>5, <1>7, <1>8, <1>9, <2>2, <3>3 DEF Credits
  <2>3. CASE Banks(r)
    BY <1>1, <1>5, <1>7, <1>8, <1>9, <2>3 DEF Banks
  <2>4. CASE Debits(r)
    <3>1. PICK k \in Key : /\ ledger' = [ledger EXCEPT ![k] = 0]
                           /\ balance' = balance - ledger[k]
      BY <2>4 DEF Debits
    <3>2. Total(ledger', Key) = Total(ledger, Key) + 0 - ledger[k]
      <4>1. 0 \in Int
        OBVIOUS
      <4> QED
        BY <1>6, <3>1, <4>1
    <3> QED
      BY <1>1, <1>5, <1>7, <1>8, <1>9, <2>4, <3>1, <3>2 DEF Debits
  <2> QED
    BY <1>9, <2>1, <2>2, <2>3, <2>4, Moves
<1>10. BalanceExplained'
  BY <1>9 DEF BalanceExplained, LedgerTotal, OwedTotal, P
<1>11. OwedOK'
  BY <1>3, Moves DEF OwedOK, At
<1> QED
  BY <1>10, <1>11
-----------------------------------------------------------------------------
(***************************************************************************)
(* The theorems.                                                           *)
(***************************************************************************)
LEMMA InitIInv == Init => IInv
<1> SUFFICES ASSUME Init PROVE IInv
  OBVIOUS
<1>1. MaxCalls \in Nat /\ MaxFaults \in Nat
  BY Zenon, ConstantsAssumption
<1>2. TypeOK
  <2>1. run \in [Run -> Call]
    BY IdleCall DEF Init
  <2>2. ledger \in [Key -> Points]
    BY PointsFromZero DEF Init
  <2>3. calls \in 0..MaxCalls /\ faults \in 0..MaxFaults /\ balance \in Int
    BY <1>1 DEF Init
  <2> QED
    BY <2>1, <2>2, <2>3 DEF Init, TypeOK
<1>3. RunsOK
  BY IdleCall DEF Init, RunsOK, InsertOK, PairOK, At
<1>4. PaidOnce
  BY TwoSpellings DEF Init, PaidOnce
<1> QED
  BY <1>2, <1>3, <1>4 DEF IInv

LEMMA StepIInv == IInv /\ [Next]_vars => IInv'
<1> SUFFICES ASSUME IInv, [Next]_vars PROVE IInv'
  OBVIOUS
<1>1. CASE Next
  <2>1. PICK r \in Run : Acts(r)
    BY <1>1 DEF Next, Acts
  <2> QED
    BY <2>1, TypeStep, RunsStep, PaidStep DEF IInv
<1>2. CASE UNCHANGED vars
  BY <1>2 DEF vars, IInv, TypeOK, RunsOK, PaidOnce, InsertOK, PairOK, At
<1> QED
  BY <1>1, <1>2

LEMMA Invariance == Spec => []IInv
BY InitIInv, StepIInv, PTL DEF Spec

\* Every variable keeps its shape; in particular what a top-up owes is never
\* negative.
THEOREM TypeCorrect == Spec => []TypeOK
<1>1. IInv => TypeOK
  BY DEF IInv
<1> QED
  BY <1>1, Invariance, PTL

\* Whichever surfaces post a completion, and however many at once, a task is not
\* in the ledger under both spellings, but through a window that the history
\* names.
THEOREM PaidOnceAlways == Spec => []PaidOnce
<1>1. IInv => PaidOnce
  BY DEF IInv
<1> QED
  BY <1>1, Invariance, PTL

\* A credit is only taken back by the revoke of a key that names every task the
\* credit's key names, however the rows share their labels.
THEOREM OwnCreditOnly == Spec => RevokesItsOwn
<1> DEFINE Own(k) == ledger[k] > 0 /\ ledger'[k] = 0 =>
                       \E r \in Run : At(r, "delete") /\ Named(k) \subseteq Named(run[r].key)
<1>1. ASSUME IInv, [Next]_vars, NEW k \in Key PROVE Own(k)
  <2>1. CASE UNCHANGED vars
    BY <2>1 DEF vars
  <2>2. CASE Next
    <3>1. PICK r \in Run : Acts(r)
      BY <2>2 DEF Next, Acts
    <3>2. CASE NoRowGone
      BY <1>1, <3>2 DEF NoRowGone
    <3>3. CASE Delete(r)
      <4>1. /\ ledger \in [Key -> Points] /\ CallOK(run[r]) /\ At(r, "delete")
            /\ ledger' = [ledger EXCEPT ![run[r].found] = 0]
        BY <1>1, <3>3 DEF IInv, RunsOK, TypeOK, Delete
      <4>2. CASE k = run[r].found
        BY <4>1, <4>2 DEF CallOK, At
      <4>3. CASE k # run[r].found
        BY <1>1, <4>1, <4>3
      <4> QED
        BY <4>2, <4>3
    <3> QED
      BY <1>1, <3>1, <3>2, <3>3, LedgerStep
  <2> QED
    BY <1>1, <2>1, <2>2
<1>2. IInv /\ [Next]_vars => [\A k \in Key : Own(k)]_vars
  BY <1>1
<1> QED
  BY <1>2, Invariance, PTL DEF Spec, RevokesItsOwn

\* The balance is the ledger less what earns that are under way still owe it, as
\* long as no earn has died between the two and none has overwritten a row that had
\* changed (the comment at slot-store.js:2560).
THEOREM BalanceAlwaysExplained ==
  ASSUME IsFiniteSet(Label)
  PROVE  Spec => []BalanceExplained
<1> DEFINE Inv == IInv /\ OwedOK /\ BalanceExplained
<1>1. Init => Inv
  <2> SUFFICES ASSUME Init PROVE OwedOK /\ BalanceExplained
    BY InitIInv
  <2>1. IsFiniteSet(Run) /\ IsFiniteSet(Key)
    <3>1. MaxRuns \in Nat
      BY Zenon, ConstantsAssumption
    <3>2. IsFiniteSet(Run)
      BY <3>1, FS_Interval DEF Run
    <3> QED
      BY <3>2, FS_Union, ConstantsAssumption DEF Key
  <2>2. Idle.owed = 0
    BY DEF Idle
  <2> DEFINE O == [r \in Run |-> run[r].owed]
  <2>3. (\A r \in Run : O[r] = 0) /\ (\A k \in Key : ledger[k] = 0)
    BY <2>2 DEF Init
  <2>4. OwedOK
    BY <2>2 DEF Init, OwedOK
  <2> HIDE DEF O
  <2>5. Total(O, Run) = 0 /\ Total(ledger, Key) = 0
    BY <2>1, <2>3, TotalOfZeros
  <2>6. balance = 0
    BY DEF Init
  <2> QED
    BY <2>4, <2>5, <2>6 DEF BalanceExplained, OwedTotal, LedgerTotal, O
<1>2. Inv /\ [Next]_vars => Inv'
  <2> SUFFICES ASSUME Inv, [Next]_vars PROVE Inv'
    OBVIOUS
  <2>1. CASE Next
    <3>1. PICK r \in Run : Acts(r)
      BY <2>1 DEF Next, Acts
    <3> QED
      BY <3>1, BalanceStep, StepIInv
  <2>2. CASE UNCHANGED vars
    <3>1. IInv'
      BY StepIInv
    <3>2. OwedOK'
      BY <2>2 DEF vars, OwedOK, At
    <3>3. BalanceExplained'
      BY <2>2 DEF vars, BalanceExplained, LedgerTotal, OwedTotal
    <3> QED
      BY <3>1, <3>2, <3>3
  <2> QED
    BY <2>1, <2>2
<1>3. Inv => BalanceExplained
  OBVIOUS
<1> QED
  BY <1>1, <1>2, <1>3, PTL DEF Spec
=============================================================================
