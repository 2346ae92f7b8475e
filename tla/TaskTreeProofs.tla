---------------------------- MODULE TaskTreeProofs ----------------------------
(***************************************************************************)
(* Proofs about TaskTree, for any finite forest of rows, any requests and  *)
(* any bounds.                                                             *)
(***************************************************************************)
EXTENDS TaskTree, FiniteSetTheorems, WellFoundedInduction, TLAPS

Phases == {"idle", "sent", "read", "planned", "ready", "locking", "done"}
Kinds  == {"none", "move", "delete", "restore", "edit"}
States == {"absent", "live", "gone"}
Image  == [state : States, date : Int, ver : Nat, edits : Nat, token : 0..MaxRequests]
Sight  == [row : Row, date : Int, ver : Nat, edits : Nat]
Fields ==
  [kind : Kinds, phase : Phases, root : Row \cup {Nobody}, target : Day,
   token : 0..MaxRequests, ids : Seq(Row), plan : Seq(Sight), from : Int,
   marked : BOOLEAN]
Request == {r \in Fields : r.kind \in {"move", "delete"} => r.root \in Row}
Deletion == [token : 1..MaxRequests, ids : Seq(Row)]

\* The shape of every variable.
ShapeOK ==
  /\ row \in [Row -> Image]
  /\ DOMAIN tombs \subseteq Row \X Int /\ tombs = [x \in DOMAIN tombs |-> 1]
  /\ receipts \subseteq Row \X (1..MaxRequests)
  /\ undo \subseteq Deletion
  /\ owner \in [Row -> Holder]
  /\ advisory \in [{"moves", "deletions"} -> Holder]
  /\ req \in [Process -> Request]
  /\ sent \in 0..MaxRequests /\ resent \in 0..MaxResends
  /\ apart \subseteq Row

\* Only a request in its transaction holds locks.
LockedOK(p) ==
  (\E t \in Row : owner[t] = p) \/ (\E x \in {"moves", "deletions"} : advisory[x] = p)
    => req[p].phase = "locking"

-----------------------------------------------------------------------------
(***************************************************************************)
(* Moves.                                                                  *)
(***************************************************************************)
\* A move that has seen its root, and one that has seen the rest too.
HasPlan(p)  == req[p].kind = "move" /\ req[p].phase \in {"read", "planned", "ready", "locking"}
Plan(p)     == ToSet(req[p].plan)
Ids(p)      == ToSet(req[p].ids)

\* What was seen of a row is what the row is, or the row was written since.
StillSeen(x) == x.ver = row[x.row].ver
HonestSight(x) ==
  /\ row[x.row].state # "absent"
  /\ x.ver <= row[x.row].ver
  /\ StillSeen(x) =>
       Live(x.row) /\ x.date = row[x.row].date /\ x.edits = row[x.row].edits

PlanHonest(p) ==
  /\ \A x \in Plan(p) : HonestSight(x)
  /\ \A x, y \in Plan(p) : x.row = y.row => x = y
  /\ \E x \in Plan(p) : x.row = req[p].root /\ x.date = req[p].from

\* A plan is of a whole tree: with a row it has the parent, unless the row is the
\* root; and a row that it leaves out, although it has the parent, is not live, or
\* may lie elsewhere, or the parent was written since.
PlanWhole(p) ==
  /\ Ids(p) = {x.row : x \in Plan(p)}
  /\ \A t \in Ids(p) : req[p].root \in Above[t]
  /\ \A t \in Ids(p) \ {req[p].root} : t \in DOMAIN Parent /\ Parent[t] \in Ids(p)
  /\ \A x \in Plan(p), t \in DOMAIN Parent \ Ids(p) :
       Parent[t] = x.row /\ StillSeen(x) /\ Live(t) => t \in apart

PlanOK(p) ==
  /\ HasPlan(p) => PlanHonest(p)
  /\ HasPlan(p) /\ req[p].phase = "read" => Len(req[p].plan) = 1
  /\ Planned(p) => PlanWhole(p)

\* A row that a move has locked is as the move has seen it.
HeldOK(p) ==
  \A t \in Row : owner[t] = p /\ req[p].kind = "move" => Live(t) /\ ~Stale(p, t)

\* A move that is to leave a tombstone where there is one by now is stale.
TombOK(p) ==
  /\ req[p].kind = "move" /\ req[p].phase \in {"ready", "locking"}
  /\ ~req[p].marked /\ <<req[p].root, req[p].from>> \in DOMAIN tombs
  => \A x \in Plan(p) : x.row = req[p].root => ~StillSeen(x)

ProcessOK(p) == LockedOK(p) /\ PlanOK(p) /\ HeldOK(p) /\ TombOK(p)

-----------------------------------------------------------------------------
(***************************************************************************)
(* Deletions.                                                              *)
(***************************************************************************)
\* A deletion leaves receipts for all of its rows or for none, and a deleted row
\* has the receipt of the deletion that took it away.
DeletionsOK ==
  /\ \A u, v \in undo : u.token = v.token => u = v
  /\ \A u \in undo :
       /\ u.token <= sent
       /\ \A t \in ToSet(u.ids) : row[t].state # "absent"
       /\ \A t \in Row : <<t, u.token>> \in receipts =>
            t \in ToSet(u.ids) /\ \A s \in ToSet(u.ids) : <<s, u.token>> \in receipts
  /\ \A p \in Process : req[p].kind = "delete" =>
       \E u \in undo : u.token = req[p].token /\ ToSet(u.ids) = Ids(p)
  /\ \A x \in receipts : x[2] <= sent
  /\ \A t \in Row : row[t].state = "gone" => <<t, row[t].token>> \in receipts

\* No row is there before its parent.
ParentsFirst ==
  \A t \in DOMAIN Parent : row[Parent[t]].state = "absent" => row[t].state = "absent"

\* Rows that lie together: a live one and its parent, deleted or not, and two that
\* the same deletion took away.
Together ==
  \A t \in DOMAIN Parent \ apart :
    \/ Live(t)
    \/ /\ row[t].state = "gone" /\ row[Parent[t]].state = "gone"
       /\ row[t].token = row[Parent[t]].token
    => row[t].date = row[Parent[t]].date

IInv ==
  /\ ShapeOK
  /\ \A p \in Process : ProcessOK(p)
  /\ DeletionsOK /\ ParentsFirst /\ Together

-----------------------------------------------------------------------------
(***************************************************************************)
(* Rows in the order of their ids.                                         *)
(***************************************************************************)
Sorted(s, S) ==
  /\ s \in [1..Cardinality(S) -> S] /\ ToSet(s) = S
  /\ \A i, j \in DOMAIN s : i < j => Position[s[i]] < Position[s[j]]

\* A set of rows has one that comes first.
LEMMA HasFirst ==
  ASSUME NEW S \in SUBSET Row, S # {}
  PROVE  \E m \in S : \A t \in S \ {m} : Position[m] < Position[t]
<1> DEFINE T == {Position[t] : t \in S}
           R == OpToRel(<, Nat)
<1>1. Position \in [Row -> Nat] /\ \A t, u \in Row : Position[t] = Position[u] => t = u
  BY ConstantsAssumption
<1>2. T \subseteq Nat /\ T # {}
  BY <1>1
<1>3. PICK n \in T : \A k \in T : ~(<<k, n>> \in R)
  <2> HIDE DEF T
  <2>1. IsWellFoundedOn(R, Nat)
    BY NatLessThanWellFounded
  <2> HIDE DEF R
  <2> QED
    BY <1>2, <2>1, WFMin, Zenon
<1>4. \A k \in T : ~(k < n)
  BY <1>2, <1>3 DEF OpToRel
<1>5. PICK m \in S : Position[m] = n
  OBVIOUS
<1>6. ASSUME NEW t \in S \ {m}
      PROVE  Position[m] < Position[t]
  <2>1. Position[t] \in T /\ Position[t] \in Nat /\ Position[m] \in Nat
    BY <1>1
  <2>2. Position[t] # Position[m]
    BY <1>1
  <2> QED
    BY <1>4, <1>5, <2>1, <2>2
<1> QED
  BY <1>6

LEMMA SortedFirst ==
  ASSUME NEW S \in SUBSET Row, NEW m \in S, \A t \in S \ {m} : Position[m] < Position[t],
         NEW s, Sorted(s, S \ {m})
  PROVE  \E r : Sorted(r, S)
<1> DEFINE n == Cardinality(S \ {m})
           r == [i \in 1..n + 1 |-> IF i = 1 THEN m ELSE s[i - 1]]
<1>1. IsFiniteSet(S) /\ IsFiniteSet(S \ {m})
  BY ConstantsAssumption, FS_Subset
<1>2. n \in Nat /\ Cardinality(S) = n + 1
  BY <1>1, FS_RemoveElement, FS_CardinalityType
<1>3. /\ s \in [1..n -> S \ {m}] /\ ToSet(s) = S \ {m}
      /\ \A i, j \in 1..n : i < j => Position[s[i]] < Position[s[j]]
  BY DEF Sorted
<1> HIDE DEF n
<1>4. \A i \in 2..n + 1 : i - 1 \in 1..n /\ r[i] = s[i - 1] /\ i # 1
  BY <1>2
<1>5. r \in [1..n + 1 -> S] /\ r[1] = m
  BY <1>2, <1>3, <1>4
<1>6. ToSet(r) = S
  <2>1. ASSUME NEW t \in S \ {m}
        PROVE  t \in ToSet(r)
    <3>1. PICK i \in 1..n : s[i] = t
      BY <1>3 DEF ToSet
    <3>2. i + 1 \in 2..n + 1 /\ i + 1 \in 1..n + 1 /\ (i + 1) - 1 = i
      BY <1>2
    <3>3. r[i + 1] = t
      BY <1>4, <3>1, <3>2
    <3> QED
      BY <1>5, <3>2, <3>3 DEF ToSet
  <2>2. 1 \in 1..n + 1
    BY <1>2
  <2> QED
    BY <1>5, <2>1, <2>2 DEF ToSet
<1>7. ASSUME NEW i \in DOMAIN r, NEW j \in DOMAIN r, i < j
      PROVE  Position[r[i]] < Position[r[j]]
  <2>1. j \in 2..n + 1 /\ (i = 1 \/ i \in 2..n + 1)
    BY <1>2, <1>7
  <2>2. CASE i = 1
    BY <1>3, <1>4, <1>5, <2>1, <2>2
  <2>3. CASE i \in 2..n + 1
    <3>1. i - 1 < j - 1
      BY <1>2, <1>7
    <3> QED
      BY <1>3, <1>4, <2>1, <2>3, <3>1
  <2> QED
    BY <2>1, <2>2, <2>3
<1> QED
  <2> HIDE DEF r
  <2> QED
    BY <1>2, <1>5, <1>6, <1>7 DEF Sorted

\* A smallest set without an order would get one from the set without its first row.
LEMMA Ordered ==
  ASSUME NEW S \in SUBSET Row
  PROVE  InOrder(S) \in Seq(S) /\ ToSet(InOrder(S)) = S
<1> DEFINE Bad == {U \in SUBSET Row : ~\E s : Sorted(s, U)}
           R == StrictSubsetOrdering(Row)
           P == SUBSET Row
<1>1. IsWellFoundedOn(R, P)
  BY ConstantsAssumption, FS_StrictSubsetOrderingWellFounded, FS_FiniteSubsetsOfFinite
<1>2. ASSUME Bad # {}
      PROVE  FALSE
  <2>1. PICK U \in Bad : \A W \in Bad : ~(<<W, U>> \in R)
    <3>1. Bad \subseteq P
      OBVIOUS
    <3> HIDE DEF Bad, P, R
    <3> QED
      BY <1>1, <1>2, <3>1, WFMin, Zenon
  <2>2. CASE U = {}
    <3>1. Cardinality({}) = 0
      BY FS_EmptySet
    <3>2. << >> \in [1..0 -> {}] /\ ToSet(<< >>) = {} /\ DOMAIN << >> = {}
      BY DEF ToSet
    <3> QED
      BY <2>1, <2>2, <3>1, <3>2 DEF Sorted
  <2>3. CASE U # {}
    <3>1. PICK m \in U : \A t \in U \ {m} : Position[m] < Position[t]
      BY <2>3, HasFirst
    <3>2. <<U \ {m}, U>> \in R
      BY DEF StrictSubsetOrdering
    <3>3. PICK s : Sorted(s, U \ {m})
      BY <2>1, <3>2
    <3>4. \E r : Sorted(r, U)
      BY <3>1, <3>3, SortedFirst
    <3> QED
      BY <2>1, <3>4
  <2> QED
    BY <2>2, <2>3
<1>3. \E s : Sorted(s, S)
  BY <1>2
<1>4. Sorted(InOrder(S), S)
  BY <1>3 DEF InOrder, Sorted
<1>5. Cardinality(S) \in Nat
  BY ConstantsAssumption, FS_Subset, FS_CardinalityType
<1> QED
  BY <1>4, <1>5 DEF Sorted

\* The rows of two sequences, one after the other.
LEMMA Joined ==
  ASSUME NEW A, NEW s \in Seq(A), NEW r \in Seq(A)
  PROVE  s \o r \in Seq(A) /\ ToSet(s \o r) = ToSet(s) \cup ToSet(r)
<1>1. /\ s \o r \in Seq(A) /\ Len(s \o r) = Len(s) + Len(r)
      /\ Len(s) \in Nat /\ Len(r) \in Nat
      /\ DOMAIN s = 1..Len(s) /\ DOMAIN r = 1..Len(r) /\ DOMAIN (s \o r) = 1..Len(s) + Len(r)
      /\ \A i \in 1..Len(s) + Len(r) : (s \o r)[i] = IF i <= Len(s) THEN s[i] ELSE r[i - Len(s)]
  OBVIOUS
<1>2. ASSUME NEW t \in ToSet(s)
      PROVE  t \in ToSet(s \o r)
  BY <1>1 DEF ToSet
<1>3. ASSUME NEW t \in ToSet(r)
      PROVE  t \in ToSet(s \o r)
  <2>1. PICK i \in 1..Len(r) : r[i] = t
    BY <1>1 DEF ToSet
  <2>2. /\ Len(s) + i \in 1..Len(s) + Len(r) /\ ~(Len(s) + i <= Len(s))
        /\ (Len(s) + i) - Len(s) = i
    BY <1>1
  <2> QED
    BY <1>1, <2>1, <2>2 DEF ToSet
<1>4. ASSUME NEW t \in ToSet(s \o r)
      PROVE  t \in ToSet(s) \cup ToSet(r)
  <2>1. PICK i \in 1..Len(s) + Len(r) : (s \o r)[i] = t
    BY <1>1 DEF ToSet
  <2>2. CASE i <= Len(s)
    BY <1>1, <2>1, <2>2 DEF ToSet
  <2>3. CASE ~(i <= Len(s))
    <3>1. i - Len(s) \in 1..Len(r)
      BY <1>1, <2>3
    <3> QED
      BY <1>1, <2>1, <2>3, <3>1 DEF ToSet
  <2> QED
    BY <2>2, <2>3
<1> QED
  BY <1>1, <1>2, <1>3, <1>4

LEMMA RootFirstIs ==
  ASSUME NEW t \in Row, NEW S \in SUBSET Row
  PROVE  /\ RootFirst(t, S) \in Seq(Row) /\ ToSet(RootFirst(t, S)) = S
         /\ t \in S => /\ 1 \in DOMAIN RootFirst(t, S) /\ RootFirst(t, S)[1] = t
                       /\ \A i \in DOMAIN RootFirst(t, S) : i # 1 => RootFirst(t, S)[i] # t
<1>1. CASE t \in S
  <2> DEFINE rest == InOrder(S \ {t})
  <2>1. rest \in Seq(S \ {t}) /\ ToSet(rest) = S \ {t}
    BY Ordered
  <2> HIDE DEF rest
  <2>2. rest \in Seq(Row) /\ <<t>> \in Seq(Row) /\ ToSet(<<t>>) = {t}
    BY <2>1 DEF ToSet
  <2>3. <<t>> \o rest \in Seq(Row) /\ ToSet(<<t>> \o rest) = S
    <3> DEFINE top == <<t>>
    <3>1. top \in Seq(Row) /\ ToSet(top) = {t}
      BY <2>2
    <3> HIDE DEF top
    <3>2. top \o rest \in Seq(Row) /\ ToSet(top \o rest) = ToSet(top) \cup ToSet(rest)
      BY <2>2, <3>1, Joined
    <3> QED
      BY <1>1, <2>1, <3>1, <3>2 DEF top
  <2>4. (<<t>> \o rest)[1] = t /\ 1 \in DOMAIN (<<t>> \o rest)
    BY <2>2
  <2>5. ASSUME NEW i \in DOMAIN (<<t>> \o rest), i # 1
        PROVE  (<<t>> \o rest)[i] # t
    <3>1. i - 1 \in 1..Len(rest) /\ (<<t>> \o rest)[i] = rest[i - 1]
      BY <2>2, <2>5
    <3> QED
      BY <2>1, <3>1
  <2>6. RootFirst(t, S) = <<t>> \o rest
    BY <1>1 DEF RootFirst, rest
  <2> QED
    BY <2>3, <2>4, <2>5, <2>6
<1>2. CASE t \notin S
  <2>1. RootFirst(t, S) = InOrder(S)
    BY <1>2 DEF RootFirst
  <2> QED
    BY <1>2, <2>1, Ordered
<1> QED
  BY <1>1, <1>2

-----------------------------------------------------------------------------
(***************************************************************************)
(* The shape of the state.                                                 *)
(***************************************************************************)
LEMMA Constants ==
  /\ MaxRequests \in Nat /\ MaxResends \in Nat /\ Day \subseteq Int /\ Today \in Day
  /\ Nobody \notin Process /\ Nobody \notin Row
BY ConstantsAssumption

LEMMA NoRequestType ==
  NoRequest \in Request /\ NoRequest.kind = "none" /\ NoRequest.phase = "idle"
<1>1. << >> \in Seq(Row) /\ << >> \in Seq(Sight) /\ Today \in Int /\ 0 \in 0..MaxRequests
  BY Constants
<1> QED
  BY <1>1, Constants DEF NoRequest, Request, Fields, Kinds, Phases

\* A request that is changed is the only one.
LEMMA OneRequest ==
  ASSUME ShapeOK, NEW p \in Process, NEW r \in Request, req' = [req EXCEPT ![p] = r]
  PROVE  /\ req' \in [Process -> Request] /\ req'[p] = r
         /\ \A q \in Process \ {p} : req'[q] = req[q]
BY DEF ShapeOK

LEMMA NewPhase ==
  ASSUME ShapeOK, NEW p \in Process, NEW f \in Phases, req' = [req EXCEPT ![p].phase = f]
  PROVE  /\ req' \in [Process -> Request]
         /\ \A q \in Process \ {p} : req'[q] = req[q]
         /\ req'[p].phase = f /\ req'[p].kind = req[p].kind /\ req'[p].root = req[p].root
         /\ req'[p].token = req[p].token /\ req'[p].ids = req[p].ids
         /\ req'[p].plan = req[p].plan /\ req'[p].from = req[p].from
         /\ req'[p].marked = req[p].marked
<1> DEFINE r == [req[p] EXCEPT !.phase = f]
<1>1. req[p] \in Request
  BY DEF ShapeOK
<1>2. r \in Request
  BY <1>1 DEF Request, Fields
<1>3. req' = [req EXCEPT ![p] = r]
  OBVIOUS
<1>4. /\ r.phase = f /\ r.kind = req[p].kind /\ r.root = req[p].root
      /\ r.token = req[p].token /\ r.ids = req[p].ids /\ r.plan = req[p].plan
      /\ r.from = req[p].from /\ r.marked = req[p].marked
  BY <1>1 DEF Request, Fields
<1> HIDE DEF r
<1> QED
  BY <1>2, <1>3, <1>4, OneRequest

\* A transaction that ends is done and frees what it held, and only that.
LEMMA EndedIs ==
  ASSUME ShapeOK, NEW p \in Process, Ended(p)
  PROVE  /\ req' \in [Process -> Request]
         /\ \A q \in Process \ {p} : req'[q] = req[q]
         /\ req'[p].phase = "done" /\ req'[p].kind = req[p].kind
         /\ req'[p].token = req[p].token /\ req'[p].ids = req[p].ids
         /\ owner' \in [Row -> Holder]
         /\ \A t \in Row : owner'[t] = IF owner[t] = p THEN Nobody ELSE owner[t]
         /\ advisory' \in [{"moves", "deletions"} -> Holder]
         /\ \A x \in {"moves", "deletions"} :
              advisory'[x] = IF advisory[x] = p THEN Nobody ELSE advisory[x]
<1>1. "done" \in Phases
  BY DEF Phases
<1>2. owner \in [Row -> Holder] /\ advisory \in [{"moves", "deletions"} -> Holder]
  BY DEF ShapeOK
<1>3. owner' = Freed(owner, p) /\ advisory' = Freed(advisory, p)
  BY DEF Ended
<1>4. /\ owner' \in [Row -> Holder]
      /\ \A t \in Row : owner'[t] = IF owner[t] = p THEN Nobody ELSE owner[t]
  BY <1>2, <1>3 DEF Freed, Holder
<1>5. /\ advisory' \in [{"moves", "deletions"} -> Holder]
      /\ \A x \in {"moves", "deletions"} :
           advisory'[x] = IF advisory[x] = p THEN Nobody ELSE advisory[x]
  BY <1>2, <1>3 DEF Freed, Holder
<1> QED
  BY <1>1, <1>4, <1>5, NewPhase DEF Ended

\* What is left of the shape when the requests and the locks have theirs.
LEMMA Quiet ==
  ASSUME ShapeOK, req' \in [Process -> Request], owner' \in [Row -> Holder],
         advisory' \in [{"moves", "deletions"} -> Holder],
         UNCHANGED <<row, tombs, receipts, undo, sent, resent, apart>>
  PROVE  ShapeOK'
BY DEF ShapeOK

LEMMA SendShape ==
  ASSUME ShapeOK, NEW p \in Process, NEW r \in Request, Send(p, r), undo' \subseteq Deletion,
         UNCHANGED <<row, tombs, receipts, owner, advisory, resent, apart>>
  PROVE  /\ ShapeOK' /\ sent' = sent + 1 /\ sent' \in 1..MaxRequests
         /\ req' \in [Process -> Request] /\ req'[p] = r
         /\ \A q \in Process \ {p} : req'[q] = req[q]
         /\ req[p].phase \in {"idle", "done"}
<1>1. sent' = sent + 1 /\ sent' \in 1..MaxRequests /\ sent' \in 0..MaxRequests
  BY Constants DEF Send, ShapeOK
<1>2. /\ req' \in [Process -> Request] /\ req'[p] = r
      /\ \A q \in Process \ {p} : req'[q] = req[q]
  BY OneRequest DEF Send
<1>3. ShapeOK'
  BY <1>1, <1>2 DEF ShapeOK
<1> QED
  BY <1>1, <1>2, <1>3 DEF Send, Underway

LEMMA SendMoveShape ==
  ASSUME ShapeOK, NEW p \in Process, SendMove(p)
  PROVE  /\ ShapeOK' /\ sent' = sent + 1
         /\ \A q \in Process \ {p} : req'[q] = req[q]
         /\ req[p].phase \in {"idle", "done"}
         /\ req'[p].kind = "move" /\ req'[p].phase = "sent"
<1>1. PICK t \in Row, d \in Day :
        Send(p, [NoRequest EXCEPT !.kind = "move", !.phase = "sent", !.root = t, !.target = d])
  BY DEF SendMove
<1> DEFINE r == [NoRequest EXCEPT !.kind = "move", !.phase = "sent", !.root = t, !.target = d]
<1>2. r \in Request /\ r.kind = "move" /\ r.phase = "sent"
  BY NoRequestType DEF Request, Fields, Kinds, Phases
<1> HIDE DEF r
<1>3. undo' \subseteq Deletion
  BY DEF SendMove, ShapeOK
<1> QED
  BY <1>1, <1>2, <1>3, SendShape DEF SendMove, r

LEMMA SendEditShape ==
  ASSUME ShapeOK, NEW p \in Process, SendEdit(p)
  PROVE  /\ ShapeOK' /\ sent' = sent + 1
         /\ \A q \in Process \ {p} : req'[q] = req[q]
         /\ req[p].phase \in {"idle", "done"}
         /\ req'[p].kind = "edit" /\ req'[p].phase = "sent"
<1>1. PICK t \in Row, u \in Row :
        Send(p, [NoRequest EXCEPT !.kind = "edit", !.phase = "sent",
                                  !.ids = IF t = u THEN <<t>> ELSE <<t, u>>])
  BY DEF SendEdit
<1> DEFINE r == [NoRequest EXCEPT !.kind = "edit", !.phase = "sent",
                                  !.ids = IF t = u THEN <<t>> ELSE <<t, u>>]
<1>2. (IF t = u THEN <<t>> ELSE <<t, u>>) \in Seq(Row)
  OBVIOUS
<1>3. r \in Request /\ r.kind = "edit" /\ r.phase = "sent"
  BY <1>2, NoRequestType DEF Request, Fields, Kinds, Phases
<1> HIDE DEF r
<1>4. undo' \subseteq Deletion
  BY DEF SendEdit, ShapeOK
<1> QED
  BY <1>1, <1>3, <1>4, SendShape DEF SendEdit, r

LEMMA SendRestoreShape ==
  ASSUME ShapeOK, NEW p \in Process, SendRestore(p)
  PROVE  /\ ShapeOK' /\ sent' = sent + 1
         /\ \A q \in Process \ {p} : req'[q] = req[q]
         /\ req[p].phase \in {"idle", "done"}
         /\ req'[p].kind = "restore" /\ req'[p].phase = "sent"
<1>1. PICK u \in undo :
        Send(p, [NoRequest EXCEPT !.kind = "restore", !.phase = "sent",
                                  !.token = u.token, !.ids = u.ids])
  BY DEF SendRestore
<1> DEFINE r == [NoRequest EXCEPT !.kind = "restore", !.phase = "sent",
                                  !.token = u.token, !.ids = u.ids]
<1>2. u.ids \in Seq(Row) /\ u.token \in 0..MaxRequests
  BY Constants DEF ShapeOK, Deletion
<1>3. r \in Request /\ r.kind = "restore" /\ r.phase = "sent"
  BY <1>2, NoRequestType DEF Request, Fields, Kinds, Phases
<1> HIDE DEF r
<1>4. undo' \subseteq Deletion
  BY DEF SendRestore, ShapeOK
<1> QED
  BY <1>1, <1>3, <1>4, SendShape DEF SendRestore, r

\* A deletion is sent with an identity that no deletion has had, and for rows that
\* are live.
LEMMA SendDeleteShape ==
  ASSUME ShapeOK, NEW p \in Process, SendDelete(p)
  PROVE  /\ ShapeOK' /\ sent' = sent + 1
         /\ \A q \in Process \ {p} : req'[q] = req[q]
         /\ req[p].phase \in {"idle", "done"}
         /\ req'[p].kind = "delete" /\ req'[p].phase = "sent" /\ req'[p].token = sent + 1
         /\ req'[p].root \in Row
         /\ undo' = undo \cup {[token |-> sent + 1, ids |-> req'[p].ids]}
         /\ \A u \in ToSet(req'[p].ids) : Live(u)
<1>1. PICK t \in Row :
        LET shown == {u \in Tree(t) : Live(u) /\ row[u].date = row[t].date}
            ids   == RootFirst(t, shown)
        IN  /\ Send(p, [NoRequest EXCEPT !.kind = "delete", !.phase = "sent", !.root = t,
                                        !.token = sent + 1, !.ids = ids])
            /\ undo' = undo \cup {[token |-> sent + 1, ids |-> ids]}
  BY DEF SendDelete
<1> DEFINE shown == {u \in Tree(t) : Live(u) /\ row[u].date = row[t].date}
           ids   == RootFirst(t, shown)
           r     == [NoRequest EXCEPT !.kind = "delete", !.phase = "sent", !.root = t,
                                      !.token = sent + 1, !.ids = ids]
<1>2. shown \subseteq Row /\ \A u \in shown : Live(u)
  BY DEF Tree
<1>3. ids \in Seq(Row) /\ ToSet(ids) = shown
  <2> HIDE DEF shown
  <2> QED
    BY <1>2, RootFirstIs
<1> HIDE DEF ids
<1>4. sent + 1 \in 1..MaxRequests /\ sent + 1 \in 0..MaxRequests
  BY <1>1, Constants DEF Send, ShapeOK
<1>5. /\ r \in Request /\ r.kind = "delete" /\ r.phase = "sent" /\ r.token = sent + 1
      /\ r.ids = ids /\ r.root = t
  BY <1>3, <1>4, NoRequestType DEF Request, Fields, Kinds, Phases
<1>6. undo' = undo \cup {[token |-> sent + 1, ids |-> ids]} /\ Send(p, r)
  BY <1>1 DEF ids
<1> HIDE DEF r
<1>7. undo' \subseteq Deletion
  BY <1>3, <1>4, <1>6 DEF ShapeOK, Deletion
<1> QED
  BY <1>2, <1>3, <1>5, <1>6, <1>7, SendShape DEF SendDelete

LEMMA SendAgainShape ==
  ASSUME ShapeOK, NEW p \in Process, SendAgain(p)
  PROVE  /\ ShapeOK'
         /\ \A q \in Process \ {p} : req'[q] = req[q]
         /\ req[p].phase = "done" /\ req'[p].phase = "sent" /\ req'[p].kind = req[p].kind
         /\ req'[p].token = req[p].token /\ req'[p].ids = req[p].ids
<1>1. "sent" \in Phases
  BY DEF Phases
<1>2. resent' \in 0..MaxResends
  BY Constants DEF SendAgain, ShapeOK
<1>3. ShapeOK'
  BY <1>1, <1>2, NewPhase DEF SendAgain, ShapeOK
<1> QED
  BY <1>1, <1>3, NewPhase DEF SendAgain

\* A subtask is added where its parent is.
LEMMA CreateShape ==
  ASSUME ShapeOK, NEW t \in Late, Create(t)
  PROVE  /\ ShapeOK' /\ t \in Row /\ t \in DOMAIN Parent /\ Parent[t] \in Row
         /\ row[t].state = "absent" /\ Live(Parent[t]) /\ Parent[t] # t
         /\ row'[t] = [row[t] EXCEPT !.state = "live", !.date = row[Parent[t]].date]
         /\ row'[t].state = "live" /\ row'[t].date = row[Parent[t]].date
         /\ row'[t].ver = row[t].ver /\ row'[t].edits = row[t].edits
         /\ \A u \in Row \ {t} : row'[u] = row[u]
         /\ apart \subseteq apart'
<1>1. t \in Row /\ t \in DOMAIN Parent /\ Parent[t] \in Row
  BY ConstantsAssumption DEF Forest
<1>2. row[t].state = "absent" /\ Live(Parent[t]) /\ Parent[t] # t
  BY DEF Create, Live
<1> DEFINE r == [row[t] EXCEPT !.state = "live", !.date = row[Parent[t]].date]
<1>3. row' = [row EXCEPT ![t] = r]
  BY DEF Create
<1>4. /\ r \in Image /\ r.state = "live" /\ r.date = row[Parent[t]].date
      /\ r.ver = row[t].ver /\ r.edits = row[t].edits
  <2>1. row[t] \in Image /\ row[Parent[t]].date \in Int
    BY <1>1 DEF ShapeOK, Image
  <2> QED
    BY <2>1 DEF Image, States
<1>5. row' \in [Row -> Image] /\ row'[t] = r /\ \A u \in Row \ {t} : row'[u] = row[u]
  BY <1>1, <1>3, <1>4 DEF ShapeOK
<1>6. apart' \subseteq Row /\ apart \subseteq apart'
  BY <1>1 DEF Create, ShapeOK
<1>7. ShapeOK'
  BY <1>5, <1>6 DEF Create, ShapeOK
<1> QED
  BY <1>1, <1>2, <1>4, <1>5, <1>6, <1>7

LEMMA RefuseShape ==
  ASSUME ShapeOK, NEW p \in Process, Refuse(p)
  PROVE  ShapeOK'
BY EndedIs, Quiet DEF Refuse

LEMMA SeenIs ==
  ASSUME ShapeOK, NEW t \in Row
  PROVE  /\ Seen(t) \in Sight /\ Seen(t).row = t /\ Seen(t).date = row[t].date
         /\ Seen(t).ver = row[t].ver /\ Seen(t).edits = row[t].edits
<1>1. row[t] \in Image
  BY DEF ShapeOK
<1> QED
  BY <1>1 DEF Seen, Sight, Image

\* The root is seen.
LEMMA ReadParentShape ==
  ASSUME ShapeOK, NEW p \in Process, ReadParent(p), ~Refuse(p)
  PROVE  /\ ShapeOK' /\ UNCHANGED owner
         /\ \A q \in Process \ {p} : req'[q] = req[q]
         /\ req[p].phase = "sent" /\ req'[p].phase = "read" /\ req'[p].kind = "move"
         /\ req'[p].root \in Row /\ Live(req'[p].root)
         /\ req'[p].from = row[req'[p].root].date
         /\ req'[p].plan = <<Seen(req'[p].root)>>
<1> DEFINE t == req[p].root
           r == [req[p] EXCEPT !.phase = "read", !.from = row[t].date, !.plan = <<Seen(t)>>]
<1>1. /\ req' = [req EXCEPT ![p] = r] /\ Live(t)
      /\ UNCHANGED <<row, tombs, receipts, undo, owner, advisory, sent, resent, apart>>
      /\ req[p].kind = "move" /\ req[p].phase = "sent"
  BY DEF ReadParent
<1>2. req[p] \in Request /\ t \in Row
  BY <1>1 DEF ShapeOK, Request
<1>3. row[t].date \in Int /\ <<Seen(t)>> \in Seq(Sight)
  BY <1>2, SeenIs DEF ShapeOK, Image
<1>4. /\ r \in Request /\ r.phase = "read" /\ r.kind = "move" /\ r.root = t
      /\ r.from = row[t].date /\ r.plan = <<Seen(t)>>
  BY <1>1, <1>2, <1>3 DEF Request, Fields, Phases
<1> HIDE DEF r
<1>5. /\ req' \in [Process -> Request] /\ req'[p] = r
      /\ \A q \in Process \ {p} : req'[q] = req[q]
  BY <1>1, <1>4, OneRequest
<1>6. ShapeOK'
  BY <1>1, <1>5, Quiet DEF ShapeOK
<1> QED
  BY <1>1, <1>2, <1>4, <1>5, <1>6

\* The rest of the plan: the rows under the root, as they are by then.
LEMMA ReadPoolShape ==
  ASSUME ShapeOK, NEW p \in Process, ReadPool(p), NEW x, req[p].plan = <<x>>, x \in Sight,
         x.row = req[p].root
  PROVE  /\ ShapeOK' /\ UNCHANGED owner
         /\ \A q \in Process \ {p} : req'[q] = req[q]
         /\ req[p].phase = "read" /\ req'[p].phase = "planned" /\ req'[p].kind = "move"
         /\ req'[p].root = req[p].root /\ req'[p].from = req[p].from /\ req[p].root \in Row
         /\ ToSet(req'[p].ids) = Subtree(req[p].root, req[p].from)
         /\ ToSet(req'[p].plan)
              = {x} \cup {Seen(t) : t \in Subtree(req[p].root, req[p].from) \ {req[p].root}}
<1> DEFINE t == req[p].root
           S == Subtree(t, req[p].from)
           ids == RootFirst(t, S)
           plan == [i \in DOMAIN ids |-> IF i = 1 THEN req[p].plan[1] ELSE Seen(ids[i])]
           r == [req[p] EXCEPT !.phase = "planned", !.ids = ids, !.plan = plan]
<1>1. /\ req' = [req EXCEPT ![p] = r]
      /\ UNCHANGED <<row, tombs, receipts, undo, owner, advisory, sent, resent, apart>>
      /\ req[p].kind = "move" /\ req[p].phase = "read"
  BY DEF ReadPool
<1>2. req[p] \in Request /\ t \in Row
  BY <1>1 DEF ShapeOK, Request
<1>3. S \subseteq Row /\ t \in S
  <2>1. t \in Above[t] /\ Between(t, t) \subseteq {t}
    BY <1>2, ConstantsAssumption DEF Forest, Between
  <2> QED
    BY <1>2, <2>1 DEF Subtree, Tree
<1> HIDE DEF S
<1>4. /\ ids \in Seq(Row) /\ ToSet(ids) = S /\ 1 \in DOMAIN ids /\ ids[1] = t
      /\ \A i \in DOMAIN ids : i # 1 => ids[i] # t
  BY <1>2, <1>3, RootFirstIs
<1> HIDE DEF ids
<1>5. \A i \in DOMAIN ids : plan[i] = IF i = 1 THEN x ELSE Seen(ids[i])
  OBVIOUS
<1>6. \A i \in DOMAIN ids : ids[i] \in Row
  BY <1>4
<1>7. plan \in Seq(Sight)
  <2>1. plan \in [DOMAIN ids -> Sight]
    BY <1>5, <1>6, SeenIs
  <2>2. DOMAIN ids = 1..Len(ids) /\ Len(ids) \in Nat
    BY <1>4
  <2> HIDE DEF plan
  <2> QED
    BY <2>1, <2>2
<1>8. ToSet(plan) = {x} \cup {Seen(u) : u \in S \ {t}}
  <2>0. DOMAIN plan = DOMAIN ids
    OBVIOUS
  <2>1. ASSUME NEW y \in ToSet(plan)
        PROVE  y \in {x} \cup {Seen(u) : u \in S \ {t}}
    <3>1. PICK i \in DOMAIN ids : y = plan[i]
      BY <2>0 DEF ToSet
    <3>2. CASE i = 1
      BY <1>5, <3>1, <3>2
    <3>3. CASE i # 1
      <4>1. ids[i] \in S \ {t} /\ y = Seen(ids[i])
        BY <1>4, <1>5, <3>1, <3>3 DEF ToSet
      <4> QED
        BY <4>1
    <3> QED
      BY <3>2, <3>3
  <2>2. x \in ToSet(plan)
    BY <1>4, <1>5, <2>0 DEF ToSet
  <2>3. ASSUME NEW u \in S \ {t}
        PROVE  Seen(u) \in ToSet(plan)
    <3>1. PICK i \in DOMAIN ids : ids[i] = u
      BY <1>4 DEF ToSet
    <3>2. i # 1
      BY <1>4, <3>1
    <3>3. plan[i] = Seen(u)
      BY <1>5, <3>1, <3>2
    <3> QED
      BY <2>0, <3>3 DEF ToSet
  <2> QED
    BY <2>1, <2>2, <2>3
<1> HIDE DEF plan
<1>9. /\ r \in Request /\ r.phase = "planned" /\ r.kind = "move" /\ r.root = t
      /\ r.from = req[p].from /\ r.ids = ids /\ r.plan = plan
  BY <1>1, <1>2, <1>4, <1>7 DEF Request, Fields, Phases
<1> HIDE DEF r
<1>10. /\ req' \in [Process -> Request] /\ req'[p] = r
       /\ \A q \in Process \ {p} : req'[q] = req[q]
  BY <1>1, <1>9, OneRequest
<1>11. ShapeOK'
  BY <1>1, <1>10, Quiet DEF ShapeOK
<1> QED
  BY <1>1, <1>2, <1>4, <1>8, <1>9, <1>10, <1>11 DEF S

LEMMA LookShape ==
  ASSUME ShapeOK, NEW p \in Process, LookForTombstone(p)
  PROVE  /\ ShapeOK'
         /\ UNCHANGED <<row, tombs, receipts, undo, owner, advisory, sent, apart>>
         /\ \A q \in Process \ {p} : req'[q] = req[q]
         /\ req[p].kind = "move" /\ req'[p].kind = "move"
         /\ req[p].phase = "planned" /\ req'[p].phase = "ready"
         /\ req'[p].root = req[p].root /\ req'[p].from = req[p].from
         /\ req'[p].ids = req[p].ids /\ req'[p].plan = req[p].plan
         /\ req'[p].marked <=> <<req[p].root, req[p].from>> \in DOMAIN tombs
<1> DEFINE b == <<req[p].root, req[p].from>> \in DOMAIN tombs
           r == [req[p] EXCEPT !.phase = "ready", !.marked = b]
<1>1. /\ req' = [req EXCEPT ![p] = r]
      /\ UNCHANGED <<row, tombs, receipts, undo, owner, advisory, sent, resent, apart>>
      /\ req[p].kind = "move" /\ req[p].phase = "planned"
  BY DEF LookForTombstone, BagIn, BagToSet
<1>2. b \in BOOLEAN
  OBVIOUS
<1>3. req[p] \in Request
  BY DEF ShapeOK
<1> HIDE DEF b
<1>4. /\ r \in Request /\ r.phase = "ready" /\ r.kind = req[p].kind
      /\ r.root = req[p].root /\ r.from = req[p].from
      /\ r.ids = req[p].ids /\ r.plan = req[p].plan
  BY <1>2, <1>3 DEF Request, Fields, Phases
<1>5. r.marked <=> b
  <2>1. "marked" \in DOMAIN req[p]
    BY <1>3 DEF Request, Fields
  <2>2. r.marked = b
    BY <2>1
  <2> QED
    BY <2>2
<1> HIDE DEF r
<1>6. /\ req' \in [Process -> Request] /\ req'[p] = r
      /\ \A q \in Process \ {p} : req'[q] = req[q]
  BY <1>1, <1>4, OneRequest
<1>7. ShapeOK'
  BY <1>1, <1>6, Quiet DEF ShapeOK
<1> QED
  BY <1>1, <1>4, <1>5, <1>6, <1>7 DEF b

LEMMA BeginMoveShape ==
  ASSUME ShapeOK, NEW p \in Process, BeginMove(p)
  PROVE  /\ ShapeOK'
         /\ UNCHANGED <<row, tombs, receipts, undo, owner, sent, apart>>
         /\ \A q \in Process \ {p} : req'[q] = req[q]
         /\ req[p].kind = "move" /\ req'[p].kind = "move"
         /\ req[p].phase = "ready" /\ req'[p].phase = "locking"
         /\ req'[p].root = req[p].root /\ req'[p].from = req[p].from
         /\ req'[p].ids = req[p].ids /\ req'[p].plan = req[p].plan
         /\ req'[p].marked = req[p].marked
         /\ \A q \in Process \ {p}, x \in {"moves", "deletions"} :
              advisory'[x] = q => advisory[x] = q
<1>1. "locking" \in Phases
  BY DEF Phases
<1>2. advisory' \in [{"moves", "deletions"} -> Holder]
  BY DEF BeginMove, ShapeOK, Holder
<1>3. \A q \in Process \ {p}, x \in {"moves", "deletions"} :
        advisory'[x] = q => advisory[x] = q
  BY DEF BeginMove, ShapeOK
<1>4. /\ req' \in [Process -> Request]
      /\ \A q \in Process \ {p} : req'[q] = req[q]
      /\ req'[p].phase = "locking" /\ req'[p].kind = req[p].kind
      /\ req'[p].root = req[p].root /\ req'[p].from = req[p].from
      /\ req'[p].ids = req[p].ids /\ req'[p].plan = req[p].plan
      /\ req'[p].marked = req[p].marked
  BY <1>1, NewPhase DEF BeginMove
<1>5. owner' \in [Row -> Holder]
  BY DEF BeginMove, ShapeOK
<1>6. ShapeOK'
  BY <1>2, <1>4, <1>5, Quiet DEF BeginMove
<1> QED
  BY <1>3, <1>4, <1>6 DEF BeginMove

\* A deletion locks rows of its own, in another order.
LEMMA BeginDeleteShape ==
  ASSUME ShapeOK, NEW p \in Process, BeginDelete(p)
  PROVE  /\ ShapeOK'
         /\ UNCHANGED <<row, tombs, receipts, undo, owner, sent, apart>>
         /\ \A q \in Process \ {p} : req'[q] = req[q]
         /\ req[p].kind = "delete" /\ req'[p].kind = "delete"
         /\ req[p].phase = "sent" /\ req'[p].phase = "locking"
         /\ req'[p].token = req[p].token /\ ToSet(req'[p].ids) = ToSet(req[p].ids)
         /\ \A q \in Process \ {p}, x \in {"moves", "deletions"} :
              advisory'[x] = q => advisory[x] = q
<1> DEFINE all  == ToSet(req[p].ids)
           live == {t \in all : Live(t)}
           ids  == RootFirst(req[p].root, live) \o InOrder(all)
           r    == [req[p] EXCEPT !.phase = "locking", !.ids = ids]
<1>1. /\ req' = [req EXCEPT ![p] = r] /\ req[p].kind = "delete" /\ req[p].phase = "sent"
      /\ UNCHANGED <<row, tombs, receipts, undo, owner, sent, resent, apart>>
      /\ advisory' = advisory \/ advisory' = [advisory EXCEPT !["deletions"] = p]
  BY DEF BeginDelete
<1>2. req[p] \in Request /\ req[p].root \in Row /\ req[p].ids \in Seq(Row)
  BY <1>1 DEF ShapeOK, Request, Fields
<1>3. all \subseteq Row
  BY <1>2 DEF ToSet
<1> HIDE DEF all
<1>4. live \subseteq Row /\ live \subseteq all
  BY <1>3
<1> HIDE DEF live
<1>5. ids \in Seq(Row) /\ ToSet(ids) = all
  <2>1. RootFirst(req[p].root, live) \in Seq(Row) /\ ToSet(RootFirst(req[p].root, live)) = live
    BY <1>2, <1>4, RootFirstIs
  <2>2. InOrder(all) \in Seq(all) /\ ToSet(InOrder(all)) = all
    BY <1>3, Ordered
  <2>3. InOrder(all) \in Seq(Row)
    BY <1>3, <2>2
  <2>4. ids \in Seq(Row) /\ ToSet(ids) = live \cup all
    BY <2>1, <2>2, <2>3, Joined
  <2> QED
    BY <1>4, <2>4
<1> HIDE DEF ids
<1>6. r \in Request /\ r.phase = "locking" /\ r.kind = "delete" /\ r.token = req[p].token
      /\ r.ids = ids
  BY <1>1, <1>2, <1>5 DEF Request, Fields, Phases
<1> HIDE DEF r
<1>7. /\ req' \in [Process -> Request] /\ req'[p] = r
      /\ \A q \in Process \ {p} : req'[q] = req[q]
  BY <1>1, <1>6, OneRequest
<1>8. /\ advisory' \in [{"moves", "deletions"} -> Holder]
      /\ \A q \in Process \ {p}, x \in {"moves", "deletions"} :
           advisory'[x] = q => advisory[x] = q
  BY <1>1 DEF ShapeOK, Holder
<1>9. owner' \in [Row -> Holder]
  BY <1>1 DEF ShapeOK
<1>10. ShapeOK'
  BY <1>1, <1>7, <1>8, <1>9, Quiet
<1> QED
  BY <1>1, <1>5, <1>6, <1>7, <1>8, <1>10 DEF all

LEMMA BeginBatchShape ==
  ASSUME ShapeOK, NEW p \in Process, BeginBatch(p)
  PROVE  /\ ShapeOK'
         /\ UNCHANGED <<row, tombs, receipts, undo, owner, advisory, sent, apart>>
         /\ \A q \in Process \ {p} : req'[q] = req[q]
         /\ req[p].phase = "sent" /\ req'[p].phase = "locking"
         /\ req'[p].kind \in {"restore", "edit"}
<1> DEFINE old == req[p].ids
           ids == IF req[p].kind = "restore" THEN InOrder(ToSet(old)) ELSE old
           r   == [req[p] EXCEPT !.phase = "locking", !.ids = ids]
<1>1. /\ req' = [req EXCEPT ![p] = r]
      /\ req[p].kind \in {"restore", "edit"} /\ req[p].phase = "sent"
      /\ UNCHANGED <<row, tombs, receipts, undo, owner, advisory, sent, resent, apart>>
  BY DEF BeginBatch
<1>2. req[p] \in Request /\ old \in Seq(Row)
  BY DEF ShapeOK, Request, Fields
<1>3. ids \in Seq(Row)
  <2>1. ToSet(old) \subseteq Row
    BY <1>2 DEF ToSet
  <2>2. InOrder(ToSet(old)) \in Seq(ToSet(old))
    BY <2>1, Ordered
  <2>3. InOrder(ToSet(old)) \in Seq(Row)
    BY <2>1, <2>2
  <2> QED
    BY <1>2, <2>3
<1> HIDE DEF ids
<1>4. r \in Request /\ r.phase = "locking" /\ r.kind = req[p].kind
  BY <1>1, <1>2, <1>3 DEF Request, Fields, Phases
<1> HIDE DEF r
<1>5. /\ req' \in [Process -> Request] /\ req'[p] = r
      /\ \A q \in Process \ {p} : req'[q] = req[q]
  BY <1>1, <1>4, OneRequest
<1>6. ShapeOK'
  BY <1>1, <1>5, Quiet DEF ShapeOK
<1> QED
  BY <1>1, <1>4, <1>5, <1>6

\* A row is locked that is fit for the request.
LEMMA LockShape ==
  ASSUME ShapeOK, NEW p \in Process, Lock(p), ~Refuse(p)
  PROVE  /\ ShapeOK'
         /\ UNCHANGED <<row, tombs, receipts, undo, advisory, req, sent, apart>>
         /\ req[p].phase = "locking"
         /\ \A t \in Row : \/ owner'[t] = owner[t]
                           \/ owner'[t] = p /\ ~Unfit(p, t)
<1> DEFINE t == NextNeeded(p)
<1>1. /\ req[p].phase = "locking" /\ ~Unfit(p, t) /\ owner' = [owner EXCEPT ![t] = p]
      /\ UNCHANGED <<row, tombs, receipts, undo, advisory, req, sent, resent, apart>>
  BY DEF Lock
<1> HIDE DEF t
<1>2. owner' \in [Row -> Holder]
  BY <1>1 DEF ShapeOK, Holder
<1>3. ASSUME NEW u \in Row
      PROVE  owner'[u] = owner[u] \/ (owner'[u] = p /\ ~Unfit(p, u))
  BY <1>1 DEF ShapeOK
<1>4. ShapeOK'
  BY <1>1, <1>2, Quiet DEF ShapeOK
<1> QED
  BY <1>1, <1>3, <1>4

-----------------------------------------------------------------------------
(***************************************************************************)
(* Requests that a step leaves alone.                                      *)
(***************************************************************************)
\* A row that is there stays there, and is written under a new version.
Grows ==
  \A u \in Row : row[u].state # "absent" =>
    /\ row'[u].state # "absent"
    /\ row'[u] = row[u] \/ row'[u].ver > row[u].ver

\* A row that comes to lie in a tree whose rows a move has read, under a parent
\* that is not written at the same time, may lie elsewhere.
Joins ==
  \A q \in Process, t \in DOMAIN Parent :
    /\ Planned(q) /\ req[q].root \in Above[t]
    /\ ~Live(t) /\ Live(t)' /\ row'[Parent[t]] = row[Parent[t]]
    => t \in apart'

\* What was seen of a row stays true of it until the row is written.
LEMMA SightKept ==
  ASSUME ShapeOK, ShapeOK', Grows, NEW x \in Sight, HonestSight(x)
  PROVE  /\ HonestSight(x)'
         /\ StillSeen(x)' => StillSeen(x) /\ row'[x.row] = row[x.row]
<1>1. x.row \in Row /\ x.ver \in Nat
  BY DEF Sight
<1>2. row[x.row] \in Image /\ row'[x.row] \in Image
  BY <1>1 DEF ShapeOK
<1>3. row[x.row].ver \in Nat /\ row'[x.row].ver \in Nat
  BY <1>2 DEF Image
<1>4. /\ row[x.row].state # "absent" /\ row'[x.row].state # "absent"
      /\ row'[x.row] = row[x.row] \/ row'[x.row].ver > row[x.row].ver
      /\ x.ver <= row[x.row].ver
  BY <1>1 DEF Grows, HonestSight
<1>5. CASE row'[x.row] = row[x.row]
  BY <1>4, <1>5 DEF HonestSight, StillSeen, Live
<1>6. CASE row'[x.row].ver > row[x.row].ver
  <2>1. x.ver <= row'[x.row].ver /\ x.ver # row'[x.row].ver
    BY <1>1, <1>3, <1>4, <1>6
  <2> QED
    BY <1>4, <2>1 DEF HonestSight, StillSeen
<1> QED
  BY <1>4, <1>5, <1>6

\* The rows of a plan, as they were seen, are rows.
LEMMA PlanType ==
  ASSUME ShapeOK, NEW q \in Process
  PROVE  Plan(q) \subseteq Sight /\ Ids(q) \subseteq Row
<1>1. req[q] \in Request
  BY DEF ShapeOK
<1>2. req[q].plan \in Seq(Sight) /\ req[q].ids \in Seq(Row)
  BY <1>1 DEF Request, Fields
<1> QED
  BY <1>2 DEF Plan, Ids, ToSet

LEMMA ProcessKept ==
  ASSUME ShapeOK, ShapeOK', NEW q \in Process, ProcessOK(q),
         Grows, Joins, apart \subseteq apart', req'[q] = req[q],
         \A t \in Row : owner'[t] = q =>
           owner[t] = q /\ (req[q].kind = "move" => row'[t] = row[t]),
         \A x \in {"moves", "deletions"} : advisory'[x] = q => advisory[x] = q,
         \A k \in DOMAIN tombs' \ DOMAIN tombs :
           row[k[1]].state # "absent" /\ row'[k[1]] # row[k[1]]
  PROVE  ProcessOK(q)'
<1>0. Plan(q)' = Plan(q) /\ Ids(q)' = Ids(q) /\ Plan(q) \subseteq Sight
  BY PlanType DEF Plan, Ids
<1>1. LockedOK(q)'
  BY DEF ProcessOK, LockedOK
<1>2. /\ HasPlan(q)' <=> HasPlan(q)
      /\ Planned(q)' <=> Planned(q)
      /\ Planned(q) => HasPlan(q)
  BY DEF HasPlan, Planned
<1>3. ASSUME HasPlan(q)
      PROVE  PlanHonest(q)'
  <2>1. PlanHonest(q)
    BY <1>3 DEF ProcessOK, PlanOK
  <2>2. \A x \in Plan(q) : HonestSight(x)'
    BY <1>0, <2>1, SightKept DEF PlanHonest
  <2> QED
    BY <1>0, <2>1, <2>2 DEF PlanHonest
<1>4. ASSUME Planned(q)
      PROVE  PlanWhole(q)'
  <2>1. PlanHonest(q) /\ PlanWhole(q)
    BY <1>2, <1>4 DEF ProcessOK, PlanOK
  <2>2. ASSUME NEW x \in Plan(q), NEW t \in DOMAIN Parent \ Ids(q),
               Parent[t] = x.row, StillSeen(x)', Live(t)'
        PROVE  t \in apart'
    <3>1. StillSeen(x) /\ row'[x.row] = row[x.row]
      BY <1>0, <2>1, <2>2, SightKept DEF PlanHonest
    <3>2. CASE Live(t)
      BY <2>1, <2>2, <3>1, <3>2 DEF PlanWhole
    <3>3. CASE ~Live(t)
      <4>1. t \in Row /\ x.row \in Row /\ x.row \in Ids(q) /\ x.row = Parent[t]
        BY <1>0, <2>1, <2>2, ConstantsAssumption DEF PlanWhole, Sight, Forest
      <4>2. req[q].root \in Above[x.row] /\ Above[x.row] \subseteq Above[t]
        BY <2>1, <4>1, ConstantsAssumption DEF PlanWhole, Forest
      <4> QED
        BY <1>4, <2>2, <3>1, <3>3, <4>1, <4>2 DEF Joins
    <3> QED
      BY <3>2, <3>3
  <2>3. Ids(q) = {x.row : x \in Plan(q)}
    BY <2>1 DEF PlanWhole
  <2> QED
    BY <1>0, <2>1, <2>2 DEF PlanWhole
<1>5. ASSUME NEW t \in Row, owner'[t] = q, req[q].kind = "move"
      PROVE  Live(t)' /\ ~Stale(q, t)'
  <2>1. owner[t] = q /\ row'[t] = row[t]
    BY <1>5
  <2>2. Live(t) /\ ~Stale(q, t)
    BY <1>5, <2>1 DEF ProcessOK, HeldOK
  <2>3. Expected(q, t)' = Expected(q, t)
    BY DEF Expected
  <2> QED
    BY <2>1, <2>2, <2>3 DEF Live, Stale
<1>6. TombOK(q)'
  <2> SUFFICES ASSUME req[q].kind = "move", req[q].phase \in {"ready", "locking"},
                      ~req[q].marked, <<req[q].root, req[q].from>> \in DOMAIN tombs',
                      NEW x \in Plan(q), x.row = req[q].root, StillSeen(x)'
               PROVE  FALSE
    BY <1>0 DEF TombOK
  <2>1. HasPlan(q)
    BY DEF HasPlan
  <2>2. StillSeen(x) /\ row'[x.row] = row[x.row]
    BY <1>0, <2>1, SightKept DEF ProcessOK, PlanOK, PlanHonest
  <2>3. <<req[q].root, req[q].from>> \in DOMAIN tombs
    <3>1. <<req[q].root, req[q].from>>[1] = x.row
      OBVIOUS
    <3> QED
      BY <2>2, <3>1
  <2> QED
    BY <2>2, <2>3 DEF ProcessOK, TombOK
<1>7. HasPlan(q) /\ req[q].phase = "read" => Len(req[q].plan) = 1
  BY DEF ProcessOK, PlanOK
<1> QED
  BY <1>1, <1>2, <1>3, <1>4, <1>5, <1>6, <1>7 DEF ProcessOK, PlanOK, HeldOK

\* A request that is no move, or has no plan yet or no longer, and holds nothing or
\* is in its transaction.
LEMMA ProcessIdle ==
  ASSUME NEW p \in Process,
         \/ /\ \A t \in Row : owner'[t] # p
            /\ \A x \in {"moves", "deletions"} : advisory'[x] # p
         \/ req'[p].kind # "move" /\ req'[p].phase = "locking",
         req'[p].kind = "move" => req'[p].phase \in {"sent", "done"}
  PROVE  ProcessOK(p)'
<1>1. LockedOK(p)'
  BY DEF LockedOK
<1>2. PlanOK(p)' /\ TombOK(p)'
  BY DEF PlanOK, HasPlan, Planned, TombOK
<1>3. HeldOK(p)'
  BY DEF HeldOK
<1> QED
  BY <1>1, <1>2, <1>3 DEF ProcessOK

\* The other requests, when rows, tombstones and apart stay as they are.
LEMMA OthersQuiet ==
  ASSUME IInv, ShapeOK', NEW p \in Process,
         UNCHANGED <<row, tombs, apart>>,
         \A q \in Process \ {p} : req'[q] = req[q],
         \A q \in Process \ {p}, t \in Row : owner'[t] = q => owner[t] = q,
         \A q \in Process \ {p}, x \in {"moves", "deletions"} :
           advisory'[x] = q => advisory[x] = q
  PROVE  \A q \in Process \ {p} : ProcessOK(q)'
<1>1. ShapeOK /\ \A q \in Process : ProcessOK(q)
  BY DEF IInv
<1>2. Grows
  BY DEF Grows
<1>3. Joins
  BY DEF Joins, Live
<1>4. DOMAIN tombs' \ DOMAIN tombs = {}
  OBVIOUS
<1> QED
  BY <1>1, <1>2, <1>3, <1>4, ProcessKept

\* A request that is not in its transaction holds nothing.
LEMMA HoldsNothing ==
  ASSUME IInv, NEW p \in Process, req[p].phase # "locking"
  PROVE  /\ \A t \in Row : owner[t] # p
         /\ \A x \in {"moves", "deletions"} : advisory[x] # p
BY DEF IInv, ProcessOK, LockedOK

\* Deletions, when none is carried out.
LEMMA DeletionsKept ==
  ASSUME IInv, ShapeOK', UNCHANGED <<receipts, undo>>, sent' \in {sent, sent + 1},
         \A u \in Row :
           /\ row[u].state # "absent" => row'[u].state # "absent"
           /\ row'[u].state = "gone" => row[u].state = "gone" /\ row'[u].token = row[u].token,
         \A p \in Process : req'[p].kind = "delete" =>
           /\ req[p].kind = "delete" /\ req'[p].token = req[p].token
           /\ ToSet(req'[p].ids) = ToSet(req[p].ids)
  PROVE  DeletionsOK'
<1>1. DeletionsOK /\ ShapeOK
  BY DEF IInv
<1>2. sent \in Nat /\ sent' \in Nat /\ sent <= sent'
  BY <1>1, Constants DEF ShapeOK
<1>3. ASSUME NEW u \in undo
      PROVE  /\ u.token <= sent' /\ ToSet(u.ids) \subseteq Row
             /\ \A t \in ToSet(u.ids) : row'[t].state # "absent"
             /\ \A t \in Row : <<t, u.token>> \in receipts =>
                  t \in ToSet(u.ids) /\ \A s \in ToSet(u.ids) : <<s, u.token>> \in receipts
  <2>1. u \in Deletion
    BY <1>1 DEF ShapeOK
  <2>2. u.token \in Nat /\ ToSet(u.ids) \subseteq Row
    BY <2>1, Constants DEF Deletion, ToSet
  <2>3. u.token <= sent'
    BY <1>1, <1>2, <2>2 DEF DeletionsOK
  <2> QED
    BY <1>1, <2>2, <2>3 DEF DeletionsOK
<1>4. ASSUME NEW p \in Process, req'[p].kind = "delete"
      PROVE  \E u \in undo : u.token = req'[p].token /\ ToSet(u.ids) = Ids(p)'
  BY <1>1, <1>4 DEF DeletionsOK, Ids
<1>5. ASSUME NEW x \in receipts
      PROVE  x[2] <= sent'
  <2>1. x[2] \in Nat
    BY <1>1, Constants DEF ShapeOK
  <2>2. x[2] <= sent
    BY <1>1 DEF DeletionsOK
  <2> QED
    BY <1>2, <2>1, <2>2
<1>6. ASSUME NEW t \in Row, row'[t].state = "gone"
      PROVE  <<t, row'[t].token>> \in receipts
  BY <1>1, <1>6 DEF DeletionsOK
<1>7. \A u, v \in undo : u.token = v.token => u = v
  BY <1>1 DEF DeletionsOK
<1> QED
  BY <1>3, <1>4, <1>5, <1>6, <1>7 DEF DeletionsOK

\* The rows, when none is written.
LEMMA RestQuiet ==
  ASSUME IInv, ShapeOK', UNCHANGED <<row, receipts, undo, apart>>, sent' \in {sent, sent + 1},
         \A p \in Process : req'[p].kind = "delete" =>
           /\ req[p].kind = "delete" /\ req'[p].token = req[p].token
           /\ ToSet(req'[p].ids) = ToSet(req[p].ids)
  PROVE  DeletionsOK' /\ ParentsFirst' /\ Together'
<1>1. DeletionsOK'
  BY DeletionsKept
<1>2. ParentsFirst' /\ Together'
  BY DEF IInv, ParentsFirst, Together, Live
<1> QED
  BY <1>1, <1>2

LEMMA Assembled ==
  ASSUME NEW p \in Process, ShapeOK', ProcessOK(p)', \A q \in Process \ {p} : ProcessOK(q)',
         DeletionsOK' /\ ParentsFirst' /\ Together'
  PROVE  IInv'
<1>1. \A q \in Process : ProcessOK(q)'
  OBVIOUS
<1> QED
  BY <1>1 DEF IInv

\* A request is sent, for anything but a deletion.
LEMMA SendKeeps ==
  ASSUME IInv, NEW p \in Process, SendMove(p) \/ SendRestore(p) \/ SendEdit(p)
  PROVE  IInv'
<1>1. ShapeOK
  BY DEF IInv
<1>2. /\ ShapeOK' /\ sent' = sent + 1
      /\ \A q \in Process \ {p} : req'[q] = req[q]
      /\ req[p].phase \in {"idle", "done"}
      /\ req'[p].kind # "delete" /\ req'[p].phase = "sent"
      /\ UNCHANGED <<row, tombs, receipts, undo, owner, advisory, resent, apart>>
  BY <1>1, SendMoveShape, SendRestoreShape, SendEditShape
     DEF SendMove, SendRestore, SendEdit
<1>3. ProcessOK(p)'
  BY <1>2, HoldsNothing, ProcessIdle
<1>4. \A q \in Process \ {p} : ProcessOK(q)'
  BY <1>2, OthersQuiet
<1>5. DeletionsOK' /\ ParentsFirst' /\ Together'
  BY <1>2, RestQuiet
<1> QED
  BY <1>2, <1>3, <1>4, <1>5, Assembled

LEMMA SendAgainKeeps ==
  ASSUME IInv, NEW p \in Process, SendAgain(p)
  PROVE  IInv'
<1>1. ShapeOK
  BY DEF IInv
<1>2. /\ ShapeOK'
      /\ \A q \in Process \ {p} : req'[q] = req[q]
      /\ req[p].phase = "done" /\ req'[p].phase = "sent" /\ req'[p].kind = req[p].kind
      /\ req'[p].token = req[p].token /\ req'[p].ids = req[p].ids
      /\ UNCHANGED <<row, tombs, receipts, undo, owner, advisory, sent, apart>>
  BY <1>1, SendAgainShape DEF SendAgain
<1>3. ProcessOK(p)'
  BY <1>2, HoldsNothing, ProcessIdle
<1>4. \A q \in Process \ {p} : ProcessOK(q)'
  BY <1>2, OthersQuiet
<1>5. DeletionsOK' /\ ParentsFirst' /\ Together'
  BY <1>2, RestQuiet
<1> QED
  BY <1>2, <1>3, <1>4, <1>5, Assembled

\* A deletion is sent: no receipt carries its token yet.
LEMMA SendDeleteKeeps ==
  ASSUME IInv, NEW p \in Process, SendDelete(p)
  PROVE  IInv'
<1>1. ShapeOK /\ DeletionsOK
  BY DEF IInv
<1>2. /\ ShapeOK' /\ sent' = sent + 1
      /\ \A q \in Process \ {p} : req'[q] = req[q]
      /\ req[p].phase \in {"idle", "done"}
      /\ req'[p].kind = "delete" /\ req'[p].phase = "sent" /\ req'[p].token = sent + 1
      /\ undo' = undo \cup {[token |-> sent + 1, ids |-> req'[p].ids]}
      /\ \A u \in ToSet(req'[p].ids) : Live(u)
      /\ UNCHANGED <<row, tombs, receipts, owner, advisory, resent, apart>>
  BY <1>1, SendDeleteShape DEF SendDelete
<1>3. ProcessOK(p)'
  BY <1>2, HoldsNothing, ProcessIdle
<1>4. \A q \in Process \ {p} : ProcessOK(q)'
  BY <1>2, OthersQuiet
<1>5. ParentsFirst' /\ Together'
  BY <1>2 DEF IInv, ParentsFirst, Together, Live
<1> DEFINE new == [token |-> sent + 1, ids |-> req'[p].ids]
<1>6. new.token = sent + 1 /\ new.ids = req'[p].ids /\ undo' = undo \cup {new}
  BY <1>2
<1> HIDE DEF new
<1>7. sent \in Nat
  BY <1>1, Constants DEF ShapeOK
<1>8. \A u \in undo : u.token \in Nat /\ u.token <= sent
  BY <1>1, Constants DEF ShapeOK, Deletion, DeletionsOK
<1>9. \A x \in receipts : x[2] \in Nat /\ x[2] <= sent
  BY <1>1, Constants DEF ShapeOK, DeletionsOK
<1>10. \A u, v \in undo' : u.token = v.token => u = v
  <2>1. \A u \in undo : u.token # new.token
    BY <1>6, <1>7, <1>8
  <2>2. \A u, v \in undo : u.token = v.token => u = v
    BY <1>1 DEF DeletionsOK
  <2> QED
    BY <1>6, <2>1, <2>2
<1>11. ASSUME NEW u \in undo'
       PROVE  /\ u.token <= sent'
              /\ \A t \in ToSet(u.ids) : row'[t].state # "absent"
              /\ \A t \in Row : <<t, u.token>> \in receipts' =>
                   t \in ToSet(u.ids) /\ \A s \in ToSet(u.ids) : <<s, u.token>> \in receipts'
  <2>1. CASE u \in undo
    <3>1. u.token <= sent'
      BY <1>2, <1>7, <1>8, <2>1
    <3> QED
      BY <1>1, <1>2, <2>1, <3>1 DEF DeletionsOK
  <2>2. CASE u = new
    <3>1. u.token <= sent'
      BY <1>2, <1>6, <1>7, <2>2
    <3>2. \A t \in ToSet(u.ids) : row'[t].state # "absent"
      BY <1>2, <1>6, <2>2 DEF Live
    <3>3. ASSUME NEW t \in Row
          PROVE  <<t, u.token>> \notin receipts'
      <4>1. u.token = sent + 1 /\ ~(sent + 1 <= sent)
        BY <1>6, <1>7, <2>2
      <4>2. <<t, u.token>>[2] = u.token
        OBVIOUS
      <4> QED
        BY <1>2, <1>9, <4>1, <4>2
    <3> QED
      BY <3>1, <3>2, <3>3
  <2> QED
    BY <1>6, <2>1, <2>2
<1>12. ASSUME NEW q \in Process, req'[q].kind = "delete"
       PROVE  \E u \in undo' : u.token = req'[q].token /\ ToSet(u.ids) = Ids(q)'
  <2>1. CASE q = p
    BY <1>2, <1>6, <2>1 DEF Ids
  <2>2. CASE q # p
    BY <1>1, <1>2, <1>6, <1>12, <2>2 DEF DeletionsOK, Ids
  <2> QED
    BY <2>1, <2>2
<1>13. \A x \in receipts' : x[2] <= sent'
  BY <1>2, <1>7, <1>9
<1>14. \A t \in Row : row'[t].state = "gone" => <<t, row'[t].token>> \in receipts'
  BY <1>1, <1>2 DEF DeletionsOK
<1>15. DeletionsOK'
  BY <1>10, <1>11, <1>12, <1>13, <1>14 DEF DeletionsOK
<1> QED
  BY <1>2, <1>3, <1>4, <1>5, <1>15, Assembled

-----------------------------------------------------------------------------
(***************************************************************************)
(* Steps that write no row.                                                *)
(***************************************************************************)
LEMMA EndedFrees ==
  ASSUME ShapeOK, NEW p \in Process, Ended(p)
  PROVE  /\ \A t \in Row : owner'[t] # p
         /\ \A x \in {"moves", "deletions"} : advisory'[x] # p
         /\ \A q \in Process \ {p}, t \in Row : owner'[t] = q => owner[t] = q
         /\ \A q \in Process \ {p}, x \in {"moves", "deletions"} :
              advisory'[x] = q => advisory[x] = q
<1>1. Nobody # p /\ \A q \in Process : q # Nobody
  BY Constants
<1> QED
  BY <1>1, EndedIs

LEMMA RefuseKeeps ==
  ASSUME IInv, NEW p \in Process, Refuse(p)
  PROVE  IInv'
<1>1. ShapeOK /\ Ended(p)
  BY DEF IInv, Refuse
<1>2. /\ ShapeOK'
      /\ \A q \in Process \ {p} : req'[q] = req[q]
      /\ req'[p].phase = "done" /\ req'[p].kind = req[p].kind
      /\ req'[p].token = req[p].token /\ req'[p].ids = req[p].ids
      /\ UNCHANGED <<row, tombs, receipts, undo, sent, apart>>
  BY <1>1, RefuseShape, EndedIs DEF Refuse
<1>3. ProcessOK(p)'
  BY <1>1, <1>2, EndedFrees, ProcessIdle
<1>4. \A q \in Process \ {p} : ProcessOK(q)'
  BY <1>1, <1>2, EndedFrees, OthersQuiet
<1>5. DeletionsOK' /\ ParentsFirst' /\ Together'
  BY <1>2, RestQuiet
<1> QED
  BY <1>2, <1>3, <1>4, <1>5, Assembled

LEMMA BeginDeleteKeeps ==
  ASSUME IInv, NEW p \in Process, BeginDelete(p)
  PROVE  IInv'
<1>1. ShapeOK
  BY DEF IInv
<1>2. /\ ShapeOK'
      /\ UNCHANGED <<row, tombs, receipts, undo, owner, sent, apart>>
      /\ \A q \in Process \ {p} : req'[q] = req[q]
      /\ req[p].kind = "delete" /\ req'[p].kind = "delete"
      /\ req[p].phase = "sent" /\ req'[p].phase = "locking"
      /\ req'[p].token = req[p].token /\ ToSet(req'[p].ids) = ToSet(req[p].ids)
      /\ \A q \in Process \ {p}, x \in {"moves", "deletions"} :
           advisory'[x] = q => advisory[x] = q
  BY <1>1, BeginDeleteShape
<1>3. ProcessOK(p)'
  BY <1>2, ProcessIdle
<1>4. \A q \in Process \ {p} : ProcessOK(q)'
  BY <1>2, OthersQuiet
<1>5. DeletionsOK' /\ ParentsFirst' /\ Together'
  BY <1>2, RestQuiet
<1> QED
  BY <1>2, <1>3, <1>4, <1>5, Assembled

LEMMA BeginBatchKeeps ==
  ASSUME IInv, NEW p \in Process, BeginBatch(p)
  PROVE  IInv'
<1>1. ShapeOK
  BY DEF IInv
<1>2. /\ ShapeOK'
      /\ UNCHANGED <<row, tombs, receipts, undo, owner, advisory, sent, apart>>
      /\ \A q \in Process \ {p} : req'[q] = req[q]
      /\ req[p].phase = "sent" /\ req'[p].phase = "locking"
      /\ req'[p].kind # "move" /\ req'[p].kind # "delete"
  BY <1>1, BeginBatchShape
<1>3. ProcessOK(p)'
  BY <1>2, ProcessIdle
<1>4. \A q \in Process \ {p} : ProcessOK(q)'
  BY <1>2, OthersQuiet
<1>5. DeletionsOK' /\ ParentsFirst' /\ Together'
  BY <1>2, RestQuiet
<1> QED
  BY <1>2, <1>3, <1>4, <1>5, Assembled

LEMMA ReadParentKeeps ==
  ASSUME IInv, NEW p \in Process, ReadParent(p)
  PROVE  IInv'
<1>1. CASE Refuse(p)
  BY <1>1, RefuseKeeps
<1>2. CASE ~Refuse(p)
  <2>1. ShapeOK
    BY DEF IInv
  <2>2. /\ ShapeOK'
        /\ \A q \in Process \ {p} : req'[q] = req[q]
        /\ req[p].phase = "sent" /\ req'[p].phase = "read" /\ req'[p].kind = "move"
        /\ req'[p].root \in Row /\ Live(req'[p].root)
        /\ req'[p].from = row[req'[p].root].date
        /\ req'[p].plan = <<Seen(req'[p].root)>>
    BY <1>2, <2>1, ReadParentShape
  <2>3. UNCHANGED <<row, tombs, receipts, undo, owner, advisory, sent, apart>>
    BY <1>2 DEF ReadParent
  <2>4. PICK x \in Sight : x = Seen(req'[p].root)
    BY <2>1, <2>2, SeenIs
  <2>5. /\ x.row = req'[p].root /\ x.date = req'[p].from /\ x.ver = row[x.row].ver
        /\ x.date = row[x.row].date /\ x.edits = row[x.row].edits /\ x.ver \in Nat
        /\ req'[p].plan = <<x>>
    BY <2>1, <2>2, <2>4, SeenIs DEF Sight
  <2>6. Plan(p)' = {x} /\ Len(req'[p].plan) = 1
    BY <2>5 DEF Plan, ToSet
  <2>7. HonestSight(x)'
    BY <2>2, <2>3, <2>5 DEF HonestSight, StillSeen, Live
  <2>8. PlanHonest(p)'
    BY <2>5, <2>6, <2>7 DEF PlanHonest
  <2>9. ProcessOK(p)'
    <3>1. LockedOK(p)' /\ HeldOK(p)'
      BY <2>2, <2>3, HoldsNothing DEF LockedOK, HeldOK
    <3>2. PlanOK(p)' /\ TombOK(p)'
      BY <2>2, <2>6, <2>8 DEF PlanOK, Planned, TombOK
    <3> QED
      BY <3>1, <3>2 DEF ProcessOK
  <2>10. \A q \in Process \ {p} : ProcessOK(q)'
    BY <2>2, <2>3, OthersQuiet
  <2>11. DeletionsOK' /\ ParentsFirst' /\ Together'
    BY <2>2, <2>3, RestQuiet
  <2> QED
    BY <2>2, <2>9, <2>10, <2>11, Assembled
<1> QED
  BY <1>1, <1>2

\* A move that goes on with the plan it has.
LEMMA PlanGoesOn ==
  ASSUME IInv, NEW p \in Process, UNCHANGED <<row, apart>>, Planned(p),
         req'[p].kind = req[p].kind, req'[p].phase # "read",
         req'[p].root = req[p].root, req'[p].from = req[p].from,
         req'[p].ids = req[p].ids, req'[p].plan = req[p].plan
  PROVE  PlanOK(p)' /\ Plan(p)' = Plan(p)
<1>1. Plan(p)' = Plan(p) /\ Ids(p)' = Ids(p)
  BY DEF Plan, Ids
<1>2. PlanHonest(p) /\ PlanWhole(p)
  BY DEF IInv, ProcessOK, PlanOK, Planned, HasPlan
<1>3. PlanHonest(p)'
  BY <1>1, <1>2 DEF PlanHonest, HonestSight, StillSeen, Live
<1>4. PlanWhole(p)'
  BY <1>1, <1>2 DEF PlanWhole, StillSeen, Live
<1> QED
  BY <1>1, <1>3, <1>4 DEF PlanOK

LEMMA LookForTombstoneKeeps ==
  ASSUME IInv, NEW p \in Process, LookForTombstone(p)
  PROVE  IInv'
<1>1. ShapeOK
  BY DEF IInv
<1>2. /\ ShapeOK'
      /\ UNCHANGED <<row, tombs, receipts, undo, owner, advisory, sent, apart>>
      /\ \A q \in Process \ {p} : req'[q] = req[q]
      /\ req[p].kind = "move" /\ req'[p].kind = "move"
      /\ req[p].phase = "planned" /\ req'[p].phase = "ready"
      /\ req'[p].root = req[p].root /\ req'[p].from = req[p].from
      /\ req'[p].ids = req[p].ids /\ req'[p].plan = req[p].plan
      /\ req'[p].marked <=> <<req[p].root, req[p].from>> \in DOMAIN tombs
  BY <1>1, LookShape
<1>3. Planned(p)
  BY <1>2 DEF Planned
<1>4. PlanOK(p)'
  BY <1>2, <1>3, PlanGoesOn
<1>5. LockedOK(p)' /\ HeldOK(p)'
  BY <1>2, HoldsNothing DEF LockedOK, HeldOK
<1>6. TombOK(p)'
  BY <1>2 DEF TombOK
<1>7. ProcessOK(p)'
  BY <1>4, <1>5, <1>6 DEF ProcessOK
<1>8. \A q \in Process \ {p} : ProcessOK(q)'
  BY <1>2, OthersQuiet
<1>9. DeletionsOK' /\ ParentsFirst' /\ Together'
  BY <1>2, RestQuiet
<1> QED
  BY <1>2, <1>7, <1>8, <1>9, Assembled

LEMMA BeginMoveKeeps ==
  ASSUME IInv, NEW p \in Process, BeginMove(p)
  PROVE  IInv'
<1>1. ShapeOK
  BY DEF IInv
<1>2. /\ ShapeOK'
      /\ UNCHANGED <<row, tombs, receipts, undo, owner, sent, apart>>
      /\ \A q \in Process \ {p} : req'[q] = req[q]
      /\ req[p].kind = "move" /\ req'[p].kind = "move"
      /\ req[p].phase = "ready" /\ req'[p].phase = "locking"
      /\ req'[p].root = req[p].root /\ req'[p].from = req[p].from
      /\ req'[p].ids = req[p].ids /\ req'[p].plan = req[p].plan
      /\ req'[p].marked = req[p].marked
      /\ \A q \in Process \ {p}, x \in {"moves", "deletions"} :
           advisory'[x] = q => advisory[x] = q
  BY <1>1, BeginMoveShape
<1>3. Planned(p)
  BY <1>2 DEF Planned
<1>4. PlanOK(p)' /\ Plan(p)' = Plan(p)
  BY <1>2, <1>3, PlanGoesOn
<1>5. LockedOK(p)' /\ HeldOK(p)'
  BY <1>2, HoldsNothing DEF LockedOK, HeldOK
<1>6. TombOK(p)'
  <2>1. TombOK(p)
    BY DEF IInv, ProcessOK
  <2> QED
    BY <1>2, <1>4, <2>1 DEF TombOK, StillSeen
<1>7. ProcessOK(p)'
  BY <1>4, <1>5, <1>6 DEF ProcessOK
<1>8. \A q \in Process \ {p} : ProcessOK(q)'
  BY <1>2, OthersQuiet
<1>9. DeletionsOK' /\ ParentsFirst' /\ Together'
  BY <1>2, RestQuiet
<1> QED
  BY <1>2, <1>7, <1>8, <1>9, Assembled

LEMMA LockKeeps ==
  ASSUME IInv, NEW p \in Process, Lock(p)
  PROVE  IInv'
<1>1. CASE Refuse(p)
  BY <1>1, RefuseKeeps
<1>2. CASE ~Refuse(p)
  <2>1. ShapeOK
    BY DEF IInv
  <2>2. /\ ShapeOK'
        /\ UNCHANGED <<row, tombs, receipts, undo, advisory, req, sent, apart>>
        /\ req[p].phase = "locking"
        /\ \A t \in Row : \/ owner'[t] = owner[t]
                          \/ owner'[t] = p /\ ~Unfit(p, t)
    BY <1>2, <2>1, LockShape
  <2>3. ProcessOK(p)
    BY DEF IInv
  <2>r. req'[p] = req[p] /\ \A q \in Process : req'[q] = req[q]
    BY <2>2
  <2>4. LockedOK(p)'
    BY <2>2, <2>r DEF LockedOK
  <2>5. PlanOK(p)' /\ TombOK(p)'
    <3>1. CASE req[p].kind = "move"
      <4>1. Planned(p)
        BY <2>2, <3>1 DEF Planned
      <4>2. PlanOK(p)' /\ Plan(p)' = Plan(p)
        BY <2>2, <2>r, <4>1, PlanGoesOn
      <4> QED
        BY <2>2, <2>3, <2>r, <4>2 DEF ProcessOK, TombOK, StillSeen
    <3>2. CASE req[p].kind # "move"
      BY <2>r, <3>2 DEF PlanOK, TombOK, HasPlan, Planned
    <3> QED
      BY <3>1, <3>2
  <2>6. HeldOK(p)'
    <3>1. ASSUME NEW t \in Row, owner'[t] = p, req[p].kind = "move"
          PROVE  Live(t) /\ ~Stale(p, t)
      <4>1. CASE owner'[t] = owner[t]
        BY <2>3, <3>1, <4>1 DEF ProcessOK, HeldOK
      <4>2. CASE ~Unfit(p, t)
        BY <3>1, <4>2 DEF Unfit
      <4> QED
        BY <2>2, <4>1, <4>2
    <3> QED
      BY <2>2, <3>1 DEF HeldOK, Live, Stale, Expected
  <2>7. ProcessOK(p)'
    BY <2>4, <2>5, <2>6 DEF ProcessOK
  <2>8. \A q \in Process \ {p} : ProcessOK(q)'
    BY <2>2, OthersQuiet
  <2>9. DeletionsOK' /\ ParentsFirst' /\ Together'
    BY <2>2, RestQuiet
  <2> QED
    BY <2>2, <2>7, <2>8, <2>9, Assembled
<1> QED
  BY <1>1, <1>2

\* What the forest says of a row under another.
LEMMA Under ==
  ASSUME NEW a \in Row, NEW t \in Row, a \in Above[t], a # t
  PROVE  /\ t \in DOMAIN Parent /\ Parent[t] \in Row /\ a \in Above[Parent[t]]
         /\ Above[t] = {t} \cup Above[Parent[t]]
BY ConstantsAssumption DEF Forest

\* A subtree holds its root, and with a row the rows in between.
LEMMA SubtreeClosed ==
  ASSUME NEW a \in Row, NEW d
  PROVE  /\ a \in Subtree(a, d) /\ Subtree(a, d) \subseteq Row
         /\ \A t \in Subtree(a, d) : a \in Above[t]
         /\ \A t \in Subtree(a, d) \ {a} :
              /\ t \in DOMAIN Parent /\ Parent[t] \in Subtree(a, d)
              /\ InPool(t, d)
<1>1. a \in Above[a] /\ \A t \in Row : t \in Above[t] /\ Above[t] \subseteq Row
  BY ConstantsAssumption DEF Forest
<1>2. a \in Subtree(a, d)
  <2>1. Between(a, a) \ {a} = {}
    BY <1>1, ConstantsAssumption DEF Forest, Between
  <2> QED
    BY <1>1, <2>1 DEF Subtree, Tree
<1>3. \A t \in Subtree(a, d) : t \in Row /\ a \in Above[t]
  BY DEF Subtree, Tree
<1>4. ASSUME NEW t \in Subtree(a, d) \ {a}
      PROVE  /\ t \in DOMAIN Parent /\ Parent[t] \in Subtree(a, d)
             /\ InPool(t, d)
  <2>1. /\ t \in DOMAIN Parent /\ Parent[t] \in Row /\ a \in Above[Parent[t]]
        /\ Above[t] = {t} \cup Above[Parent[t]]
    BY <1>3, Under
  <2>2. Between(a, Parent[t]) \subseteq Between(a, t) /\ t \in Between(a, t)
    BY <1>1, <1>3, <2>1 DEF Between
  <2> QED
    BY <2>1, <2>2 DEF Subtree, Tree
<1> QED
  BY <1>2, <1>3, <1>4

\* A live row under a row of the subtree belongs to it too, if the root is live and
\* on the day the subtree is of.
LEMMA SubtreeWhole ==
  ASSUME NEW a \in Row, NEW d, NEW t \in DOMAIN Parent, Parent[t] \in Subtree(a, d),
         Live(t), Parent[t] = a => Live(a) /\ row[a].date = d
  PROVE  t \in Subtree(a, d)
<1> DEFINE P == Parent[t]
<1>1. /\ t \in Row /\ P \in Row /\ Above[t] = {t} \cup Above[P]
      /\ a \in Above[P] /\ a \in Above[t]
  BY SubtreeClosed, ConstantsAssumption DEF Forest
<1>2. InPool(t, d)
  <2>1. CASE P = a
    <3>1. ASSUME NEW u \in Between(a, t)
          PROVE  Live(u)
      <4>1. CASE u = t
        BY <4>1
      <4>2. CASE u \in Above[a]
        <5>1. u \in Row /\ a \in Above[u]
          BY <4>2, ConstantsAssumption DEF Forest, Between
        <5>2. u = a
          BY <4>2, <5>1, ConstantsAssumption DEF Forest
        <5> QED
          BY <2>1, <5>2
      <4> QED
        BY <1>1, <2>1, <4>1, <4>2 DEF Between
    <3> QED
      BY <1>1, <2>1, <3>1 DEF InPool
  <2>2. CASE P # a
    <3>1. PICK b \in Above[P] : row[b].date = d /\ \A u \in Between(b, P) : Live(u)
      BY <2>2, SubtreeClosed DEF InPool
    <3>2. b \in Above[t] /\ \A u \in Between(b, t) : u = t \/ u \in Between(b, P)
      BY <1>1 DEF Between
    <3>3. \A u \in Between(b, t) : Live(u)
      BY <3>1, <3>2
    <3> QED
      BY <3>1, <3>2, <3>3 DEF InPool
  <2> QED
    BY <2>1, <2>2
<1>3. ASSUME NEW v \in Between(a, t) \ {a}
      PROVE  InPool(v, d)
  <2>1. v = t \/ v \in Between(a, P) \ {a}
    BY <1>1 DEF Between
  <2> QED
    BY <1>2, <2>1 DEF Subtree
<1> QED
  BY <1>1, <1>3 DEF Subtree, Tree

\* The plan that a move reads is of the whole tree, although the root was read before.
LEMMA ReadPoolKeeps ==
  ASSUME IInv, NEW p \in Process, ReadPool(p)
  PROVE  IInv'
<1>1. ShapeOK /\ req[p].kind = "move" /\ req[p].phase = "read"
  BY DEF IInv, ReadPool
<1>2. PlanHonest(p) /\ Len(req[p].plan) = 1
  BY <1>1 DEF IInv, ProcessOK, PlanOK, HasPlan
<1>3. PICK x \in Sight : req[p].plan = <<x>> /\ Plan(p) = {x}
  <2>1. req[p] \in Request
    BY <1>1 DEF ShapeOK
  <2>2. req[p].plan \in Seq(Sight)
    BY <2>1 DEF Request, Fields
  <2>3. req[p].plan[1] \in Sight /\ req[p].plan = <<req[p].plan[1]>>
    BY <1>2, <2>2
  <2>4. Plan(p) = {req[p].plan[1]}
    BY <1>2, <2>2 DEF Plan, ToSet
  <2> QED
    BY <2>3, <2>4
<1>4. x.row = req[p].root /\ x.date = req[p].from /\ HonestSight(x)
  BY <1>2, <1>3 DEF PlanHonest
<1> DEFINE a == req[p].root
           d == req[p].from
<1>5. /\ ShapeOK'
      /\ \A q \in Process \ {p} : req'[q] = req[q]
      /\ req'[p].phase = "planned" /\ req'[p].kind = "move"
      /\ req'[p].root = a /\ req'[p].from = d /\ a \in Row
      /\ ToSet(req'[p].ids) = Subtree(a, d)
      /\ ToSet(req'[p].plan) = {x} \cup {Seen(t) : t \in Subtree(a, d) \ {a}}
  BY <1>1, <1>3, <1>4, ReadPoolShape
<1>6. UNCHANGED <<row, tombs, receipts, undo, owner, advisory, sent, apart>>
  BY DEF ReadPool
<1>7. Ids(p)' = Subtree(a, d) /\ Plan(p)' = {x} \cup {Seen(t) : t \in Subtree(a, d) \ {a}}
  BY <1>5 DEF Ids, Plan
<1>8. \A y \in Plan(p)' : HonestSight(y)' /\ (StillSeen(y)' <=> StillSeen(y))
  <2>1. HonestSight(x)'
    BY <1>4, <1>6 DEF HonestSight, StillSeen, Live
  <2>2. ASSUME NEW y, NEW t \in Subtree(a, d) \ {a}, y = Seen(t)
        PROVE  HonestSight(y)'
    <3>1. t \in Row /\ InPool(t, d)
      BY <1>5, SubtreeClosed
    <3>2. Live(t)
      BY <3>1, ConstantsAssumption DEF Forest, InPool, Between
    <3>3. row[t].ver \in Nat
      BY <1>1, <3>1 DEF ShapeOK, Image
    <3>4. /\ y.row = t /\ y.date = row[t].date
          /\ y.ver = row[t].ver /\ y.edits = row[t].edits
      BY <1>1, <2>2, <3>1, SeenIs
    <3> QED
      BY <1>6, <3>2, <3>3, <3>4 DEF HonestSight, StillSeen, Live
  <2> QED
    BY <1>6, <1>7, <2>1, <2>2 DEF StillSeen
<1>9. \A t \in Subtree(a, d) \ {a} : Seen(t).row = t
  BY <1>1, <1>5, SeenIs, SubtreeClosed
<1>10. PlanHonest(p)'
  <2>1. ASSUME NEW y \in Plan(p)', NEW z \in Plan(p)', y.row = z.row
        PROVE  y = z
    BY <1>4, <1>7, <1>9, <2>1
  <2>2. x \in Plan(p)' /\ x.row = req'[p].root /\ x.date = req'[p].from
    BY <1>4, <1>5, <1>7
  <2> QED
    BY <1>8, <2>1, <2>2 DEF PlanHonest
<1>11. PlanWhole(p)'
  <2>1. Ids(p)' = {y.row : y \in Plan(p)'}
    <3>1. a \in Subtree(a, d)
      BY <1>5, SubtreeClosed
    <3>2. \A y \in Plan(p)' : y.row \in Subtree(a, d)
      BY <1>4, <1>7, <1>9, <3>1
    <3>3. \A t \in Subtree(a, d) : \E y \in Plan(p)' : y.row = t
      BY <1>4, <1>7, <1>9
    <3> HIDE DEF a, d
    <3> QED
      BY <1>7, <3>2, <3>3
  <2>2. \A t \in Ids(p)' : req'[p].root \in Above[t]
    BY <1>5, <1>7, SubtreeClosed
  <2>3. \A t \in Ids(p)' \ {req'[p].root} : t \in DOMAIN Parent /\ Parent[t] \in Ids(p)'
    BY <1>5, <1>7, SubtreeClosed
  <2>4. ASSUME NEW y \in Plan(p)', NEW t \in DOMAIN Parent, t \notin Ids(p)',
               Parent[t] = y.row, StillSeen(y)', Live(t)'
        PROVE  FALSE
    <3>1. Parent[t] \in Subtree(a, d)
      BY <1>7, <2>1, <2>4
    <3>2. Live(t) /\ StillSeen(y)
      BY <1>6, <1>8, <2>4 DEF Live
    <3>3. ASSUME Parent[t] = a
          PROVE  Live(a) /\ row[a].date = d
      <4>1. y = x
        BY <1>4, <1>7, <1>9, <2>4, <3>3
      <4> QED
        BY <1>4, <3>2, <4>1 DEF HonestSight
    <3>4. t \in Subtree(a, d)
      BY <1>5, <3>1, <3>2, <3>3, SubtreeWhole
    <3> QED
      BY <1>7, <2>4, <3>4
  <2> QED
    BY <2>1, <2>2, <2>3, <2>4 DEF PlanWhole
<1>12. ProcessOK(p)'
  <2>1. LockedOK(p)' /\ HeldOK(p)'
    BY <1>1, <1>6, HoldsNothing DEF LockedOK, HeldOK
  <2>2. PlanOK(p)' /\ TombOK(p)'
    BY <1>5, <1>10, <1>11 DEF PlanOK, TombOK
  <2> QED
    BY <2>1, <2>2 DEF ProcessOK
<1>13. \A q \in Process \ {p} : ProcessOK(q)'
  BY <1>5, <1>6, OthersQuiet
<1>14. DeletionsOK' /\ ParentsFirst' /\ Together'
  BY <1>5, <1>6, RestQuiet
<1> QED
  BY <1>5, <1>12, <1>13, <1>14, Assembled

-----------------------------------------------------------------------------
(***************************************************************************)
(* Steps that write rows.                                                  *)
(***************************************************************************)
LEMMA CreateKeeps ==
  ASSUME IInv, NEW t \in Late, Create(t)
  PROVE  IInv'
<1>1. ShapeOK /\ \A q \in Process : ProcessOK(q)
  BY DEF IInv
<1>2. /\ ShapeOK' /\ t \in Row /\ t \in DOMAIN Parent /\ Parent[t] \in Row
      /\ row[t].state = "absent" /\ Live(Parent[t]) /\ Parent[t] # t
      /\ row'[t].state = "live" /\ row'[t].date = row[Parent[t]].date
      /\ \A u \in Row \ {t} : row'[u] = row[u]
      /\ apart \subseteq apart'
  BY <1>1, CreateShape
<1>3. UNCHANGED <<tombs, receipts, undo, owner, advisory, req, sent, resent>>
  BY DEF Create
<1>4. Grows
  BY <1>2 DEF Grows
<1>5. Joins
  <2> SUFFICES ASSUME NEW q \in Process, NEW u \in DOMAIN Parent,
                      Planned(q), req[q].root \in Above[u], ~Live(u), Live(u)'
               PROVE  u \in apart'
    BY DEF Joins
  <2>1. u \in Row
    BY ConstantsAssumption DEF Forest
  <2>2. u = t
    BY <1>2, <2>1 DEF Live
  <2> QED
    BY <2>2 DEF Create
<1>6. ASSUME NEW q \in Process
      PROVE  ProcessOK(q)'
  <2>1. ASSUME NEW u \in Row, owner'[u] = q
        PROVE  owner[u] = q /\ (req[q].kind = "move" => row'[u] = row[u])
    <3>1. owner[u] = q
      BY <1>3, <2>1
    <3>2. req[q].kind = "move" => Live(u)
      BY <1>1, <3>1 DEF ProcessOK, HeldOK
    <3> QED
      BY <1>2, <3>1, <3>2 DEF Live
  <2>2. ProcessOK(q)
    BY <1>1
  <2> QED
    BY <1>1, <1>2, <1>3, <1>4, <1>5, <2>1, <2>2, ProcessKept
<1>7. DeletionsOK'
  <2>1. \A u \in Row :
          /\ row[u].state # "absent" => row'[u].state # "absent"
          /\ row'[u].state = "gone" => row[u].state = "gone" /\ row'[u].token = row[u].token
    BY <1>2
  <2> QED
    BY <1>2, <1>3, <2>1, DeletionsKept
<1>8. ASSUME NEW u \in DOMAIN Parent, row'[Parent[u]].state = "absent"
      PROVE  row'[u].state = "absent"
  <2>1. u \in Row /\ Parent[u] \in Row
    BY ConstantsAssumption DEF Forest
  <2>2. row'[Parent[u]] = row[Parent[u]] /\ u # t
    BY <1>2, <1>8, <2>1 DEF Live
  <2>3. row[u].state = "absent"
    BY <1>8, <2>2 DEF IInv, ParentsFirst
  <2> QED
    BY <1>2, <2>1, <2>2, <2>3
<1>9. ASSUME NEW u \in DOMAIN Parent \ apart',
             row'[u].state # "absent",
             Live(u)' \/ (/\ row'[u].state = "gone" /\ row'[Parent[u]].state = "gone"
                          /\ row'[u].token = row'[Parent[u]].token)
      PROVE  row'[u].date = row'[Parent[u]].date
  <2>1. u \in Row /\ Parent[u] \in Row
    BY ConstantsAssumption DEF Forest
  <2>2. CASE u = t
    BY <1>2, <2>2
  <2>3. CASE u # t
    <3>1. row'[u] = row[u]
      BY <1>2, <2>1, <2>3
    <3>2. Parent[u] # t
      BY <1>2, <1>9, <3>1 DEF IInv, ParentsFirst
    <3>3. row'[Parent[u]] = row[Parent[u]]
      BY <1>2, <2>1, <3>2
    <3>4. u \in DOMAIN Parent \ apart
      BY <1>2
    <3> QED
      BY <1>9, <3>1, <3>3, <3>4 DEF IInv, Together, Live
  <2> QED
    BY <2>2, <2>3
<1>10. ParentsFirst' /\ Together'
  BY <1>8, <1>9 DEF ParentsFirst, Together, Live
<1> QED
  BY <1>2, <1>6, <1>7, <1>10 DEF IInv

LEMMA ExpectedIs ==
  ASSUME NEW p \in Process, PlanHonest(p), NEW x \in Plan(p)
  PROVE  Expected(p, x.row) = x
BY DEF PlanHonest, Expected, Plan

\* Every row of a move that commits is as the move has seen it; all of them go the
\* same way, and there is one tombstone of the root.
LEMMA CommitMoveIs ==
  ASSUME IInv, NEW p \in Process, CommitMove(p)
  PROVE  /\ ShapeOK' /\ Ended(p) /\ PlanHonest(p) /\ PlanWhole(p)
         /\ req[p].kind = "move" /\ req[p].root \in Ids(p) /\ Ids(p) \subseteq Row
         /\ \A t \in Ids(p) : owner[t] = p /\ Live(t) /\ \A x \in Plan(p) :
              x.row = t => StillSeen(x)
         /\ \A t \in Row : /\ row'[t].state = row[t].state /\ row'[t].token = row[t].token
                           /\ row'[t].edits = row[t].edits
         /\ \A t \in Ids(p) : /\ row'[t].ver > row[t].ver
                              /\ row'[t].date = row[t].date + (req[p].target - req[p].from)
         /\ \A t \in Row \ Ids(p) : row'[t] = row[t]
         /\ \A k \in DOMAIN tombs' \ DOMAIN tombs : k[1] = req[p].root
         /\ apart' = apart \cup {req[p].root}
         /\ UNCHANGED <<receipts, undo, sent, resent>>
<1> DEFINE a == req[p].root
           d == req[p].from
           n == req[p].target - d
           k == <<a, d>>
<1>1. /\ ShapeOK /\ Ended(p) /\ ProcessOK(p)
      /\ req[p].kind = "move" /\ req[p].phase = "locking"
      /\ \A t \in Ids(p) : owner[t] = p
      /\ apart' = apart \cup {a} /\ UNCHANGED <<receipts, undo, sent, resent>>
  BY DEF IInv, CommitMove, HasAll, Ids
<1>2. PlanHonest(p) /\ PlanWhole(p) /\ Plan(p) \subseteq Sight /\ Ids(p) \subseteq Row
  BY <1>1, PlanType DEF ProcessOK, PlanOK, HasPlan, Planned
<1>3. req[p] \in Request /\ a \in Row /\ d \in Int /\ req[p].target \in Int
  BY <1>1, Constants DEF ShapeOK, Request, Fields
<1>4. a \in Ids(p)
  BY <1>2 DEF PlanHonest, PlanWhole
<1>5. ASSUME NEW t \in Ids(p)
      PROVE  /\ Live(t) /\ Expected(p, t) \in Plan(p) /\ Expected(p, t).row = t
             /\ Expected(p, t).date = row[t].date /\ Expected(p, t).ver = row[t].ver
             /\ Expected(p, t).edits = row[t].edits
             /\ \A x \in Plan(p) : x.row = t => StillSeen(x)
  <2>1. PICK x \in Plan(p) : x.row = t
    BY <1>2 DEF PlanWhole
  <2>2. Expected(p, t) = x
    BY <1>2, <2>1, ExpectedIs
  <2>3. Live(t) /\ row[t].date = x.date /\ row[t].ver = x.ver
    BY <1>1, <1>2, <2>2 DEF ProcessOK, HeldOK, Stale
  <2>4. StillSeen(x)
    BY <2>1, <2>3 DEF StillSeen
  <2>5. x.edits = row[t].edits
    BY <1>2, <2>1, <2>4 DEF PlanHonest, HonestSight
  <2>6. \A y \in Plan(p) : y.row = t => y = x
    BY <1>2, <2>1 DEF PlanHonest
  <2> QED
    BY <2>1, <2>2, <2>3, <2>4, <2>5, <2>6
<1>6. row[a].date = d
  BY <1>2, <1>4, <1>5, ExpectedIs DEF PlanHonest
<1>7. \A t \in Row : row[t] \in Image
  BY <1>1 DEF ShapeOK
<1>8. ASSUME NEW t \in Ids(p)
      PROVE  /\ row'[t] \in Image /\ row'[t].ver > row[t].ver
             /\ row'[t].state = row[t].state /\ row'[t].token = row[t].token
             /\ row'[t].edits = row[t].edits /\ row'[t].date = row[t].date + n
  <2> DEFINE e == Expected(p, t)
             f == IF t = a THEN req[p].target ELSE e.date + (req[p].target - req[p].from)
             r == [row[t] EXCEPT !.date = f, !.ver = @ + 1, !.edits = e.edits]
  <2>1. t \in Row /\ row[t] \in Image
    BY <1>2, <1>7
  <2>2. /\ row[t].date \in Int /\ row[t].ver \in Nat /\ row[t].edits \in Nat
    BY <2>1 DEF Image
  <2>3. row'[t] = r
    BY <2>1 DEF CommitMove, Ids
  <2>4. e.date = row[t].date /\ e.edits = row[t].edits
    BY <1>5
  <2>5. f = row[t].date + n /\ f \in Int
    BY <1>3, <1>6, <2>2, <2>4
  <2> HIDE DEF e, f
  <2>6. /\ r.ver = row[t].ver + 1 /\ r.date = f /\ r.edits = row[t].edits
        /\ r.state = row[t].state /\ r.token = row[t].token
    BY <2>1, <2>4 DEF Image
  <2>7. r \in Image
    <3>1. row[t].ver + 1 \in Nat /\ e.edits \in Nat
      BY <2>2, <2>4
    <3> QED
      BY <2>1, <2>5, <3>1 DEF Image
  <2> HIDE DEF r
  <2> QED
    BY <2>2, <2>3, <2>5, <2>6, <2>7
<1>9. \A t \in Row \ Ids(p) : row'[t] = row[t]
  BY DEF CommitMove, Ids
<1>10. row' \in [Row -> Image]
  <2>1. DOMAIN row' = Row /\ row' = [t \in Row |-> row'[t]]
    BY DEF CommitMove
  <2>2. \A t \in Row : row'[t] \in Image
    BY <1>7, <1>8, <1>9
  <2> QED
    BY <2>1, <2>2
<1>11. /\ DOMAIN tombs' \subseteq Row \X Int /\ tombs' = [x \in DOMAIN tombs' |-> 1]
       /\ DOMAIN tombs' \subseteq DOMAIN tombs \cup {k}
  <2>1. DOMAIN tombs \subseteq Row \X Int /\ tombs = [x \in DOMAIN tombs |-> 1]
    BY <1>1 DEF ShapeOK
  <2>2. CASE req[p].marked
    BY <2>1, <2>2 DEF CommitMove
  <2>3. CASE ~req[p].marked
    <3>1. k \notin DOMAIN tombs
      <4>1. \E x \in Plan(p) : x.row = a /\ StillSeen(x)
        BY <1>4, <1>5
      <4> QED
        BY <1>1, <2>3, <4>1 DEF ProcessOK, TombOK
    <3>2. k \in Row \X Int
      BY <1>3
    <3>3. tombs' = tombs (+) SetToBag({k})
      BY <2>3 DEF CommitMove
    <3> HIDE DEF k
    <3>4. /\ DOMAIN tombs' = DOMAIN tombs \cup {k}
          /\ tombs' = [e \in DOMAIN tombs \cup {k} |->
                         (IF e \in DOMAIN tombs THEN tombs[e] ELSE 0)
                         + (IF e \in {k} THEN 1 ELSE 0)]
      BY <3>3 DEF (+), SetToBag
    <3>5. \A e \in DOMAIN tombs : tombs[e] = 1 /\ e # k
      BY <2>1, <3>1
    <3>6. tombs' = [e \in DOMAIN tombs \cup {k} |-> 1]
      BY <3>1, <3>4, <3>5
    <3> QED
      BY <2>1, <3>2, <3>4, <3>6
  <2> QED
    BY <2>2, <2>3
<1>12. /\ req' \in [Process -> Request] /\ owner' \in [Row -> Holder]
       /\ advisory' \in [{"moves", "deletions"} -> Holder]
  BY <1>1, EndedIs
<1>13. ShapeOK'
  BY <1>1, <1>3, <1>10, <1>11, <1>12 DEF ShapeOK
<1>14. \A x \in DOMAIN tombs' \ DOMAIN tombs : x[1] = a
  BY <1>11
<1> QED
  BY <1>1, <1>2, <1>4, <1>5, <1>8, <1>9, <1>13, <1>14

\* Whoever commits has locked what it writes.
LEMMA ProcessesCommit ==
  ASSUME IInv, ShapeOK', NEW p \in Process, Ended(p), Grows, Joins, apart \subseteq apart',
         \A t \in Row : owner[t] # p => row'[t] = row[t],
         \A k \in DOMAIN tombs' \ DOMAIN tombs :
           row[k[1]].state # "absent" /\ row'[k[1]] # row[k[1]]
  PROVE  \A q \in Process : ProcessOK(q)'
<1>1. ShapeOK
  BY DEF IInv
<1>2. /\ req'[p].phase = "done"
      /\ \A q \in Process \ {p} : req'[q] = req[q]
  BY <1>1, EndedIs
<1>3. ProcessOK(p)'
  BY <1>1, <1>2, EndedFrees, ProcessIdle
<1>4. ASSUME NEW q \in Process \ {p}
      PROVE  ProcessOK(q)'
  <2>1. ProcessOK(q) /\ req'[q] = req[q]
    BY <1>2 DEF IInv
  <2>2. \A t \in Row : owner'[t] = q => owner[t] = q /\ (req[q].kind = "move" => row'[t] = row[t])
    BY <1>1, EndedFrees
  <2>3. \A x \in {"moves", "deletions"} : advisory'[x] = q => advisory[x] = q
    BY <1>1, EndedFrees
  <2> QED
    BY <1>1, <2>1, <2>2, <2>3, ProcessKept
<1> QED
  BY <1>3, <1>4

LEMMA CommitMoveKeeps ==
  ASSUME IInv, NEW p \in Process, CommitMove(p)
  PROVE  IInv'
<1> DEFINE a == req[p].root
           n == req[p].target - req[p].from
<1>1. /\ ShapeOK' /\ Ended(p) /\ PlanHonest(p) /\ PlanWhole(p)
      /\ req[p].kind = "move" /\ a \in Ids(p) /\ Ids(p) \subseteq Row
      /\ \A t \in Ids(p) : owner[t] = p /\ Live(t) /\ \A x \in Plan(p) :
           x.row = t => StillSeen(x)
      /\ \A t \in Row : /\ row'[t].state = row[t].state /\ row'[t].token = row[t].token
                        /\ row'[t].edits = row[t].edits
      /\ \A t \in Ids(p) : row'[t].ver > row[t].ver /\ row'[t].date = row[t].date + n
      /\ \A t \in Row \ Ids(p) : row'[t] = row[t]
      /\ \A k \in DOMAIN tombs' \ DOMAIN tombs : k[1] = a
      /\ apart' = apart \cup {a}
      /\ UNCHANGED <<receipts, undo, sent, resent>>
  BY CommitMoveIs
<1>2. ShapeOK
  BY DEF IInv
<1>3. Grows
  BY <1>1 DEF Grows
<1>4. Joins
  <2>1. \A t \in DOMAIN Parent : t \in Row
    BY ConstantsAssumption DEF Forest
  <2> QED
    BY <1>1, <2>1 DEF Joins, Live
<1>5. row[a].state # "absent" /\ row'[a] # row[a]
  <2>1. row[a] \in Image
    BY <1>1, <1>2 DEF ShapeOK
  <2>2. row[a].ver \in Nat /\ row'[a].ver > row[a].ver
    BY <1>1, <2>1 DEF Image
  <2>3. row'[a].ver # row[a].ver
    BY <2>2
  <2> QED
    BY <1>1, <2>3 DEF Live
<1>6. \A q \in Process : ProcessOK(q)'
  BY <1>1, <1>3, <1>4, <1>5, ProcessesCommit
<1>7. DeletionsOK'
  <2>1. \A q \in Process : req'[q].kind = "delete" =>
           /\ req[q].kind = "delete" /\ req'[q].token = req[q].token
           /\ ToSet(req'[q].ids) = ToSet(req[q].ids)
    BY <1>1, <1>2, EndedIs
  <2> QED
    BY <1>1, <2>1, DeletionsKept
<1>8. \A t \in DOMAIN Parent : t \in Row /\ Parent[t] \in Row
  BY ConstantsAssumption DEF Forest
<1>9. ParentsFirst'
  BY <1>1, <1>8 DEF IInv, ParentsFirst
<1>10. ASSUME NEW t \in DOMAIN Parent \ apart',
              Live(t)' \/ (/\ row'[t].state = "gone" /\ row'[Parent[t]].state = "gone"
                           /\ row'[t].token = row'[Parent[t]].token)
       PROVE  row'[t].date = row'[Parent[t]].date
  <2>1. /\ t \in Row /\ Parent[t] \in Row /\ t \notin apart /\ t # a
        /\ Live(t) \/ (/\ row[t].state = "gone" /\ row[Parent[t]].state = "gone"
                       /\ row[t].token = row[Parent[t]].token)
    BY <1>1, <1>8, <1>10 DEF Live
  <2>2. row[t].date = row[Parent[t]].date
    BY <2>1 DEF IInv, Together
  <2>3. CASE t \in Ids(p)
    <3>1. Parent[t] \in Ids(p)
      BY <1>1, <2>1, <2>3 DEF PlanWhole
    <3> QED
      BY <1>1, <2>2, <2>3, <3>1
  <2>4. CASE t \notin Ids(p)
    <3>1. Parent[t] \notin Ids(p)
      <4>1. SUFFICES ASSUME Parent[t] \in Ids(p)
                     PROVE  FALSE
        OBVIOUS
      <4>2. Live(Parent[t]) /\ Live(t)
        BY <1>1, <2>1, <4>1 DEF Live
      <4>3. PICK x \in Plan(p) : x.row = Parent[t]
        BY <1>1, <4>1 DEF PlanWhole
      <4>4. StillSeen(x)
        BY <1>1, <4>1, <4>3
      <4> QED
        BY <1>1, <2>1, <2>4, <4>2, <4>3, <4>4 DEF PlanWhole
    <3> QED
      BY <1>1, <2>1, <2>2, <2>4, <3>1
  <2> QED
    BY <2>3, <2>4
<1>11. Together'
  BY <1>10 DEF Together
<1> QED
  BY <1>1, <1>6, <1>7, <1>9, <1>11 DEF IInv

\* A deletion writes the rows that have no receipt of it, all of them or none.
LEMMA CommitDeleteIs ==
  ASSUME IInv, NEW p \in Process, CommitDelete(p)
  PROVE  /\ ShapeOK' /\ Ended(p) /\ NewlyDeleted(p) \subseteq Ids(p)
         /\ Ids(p) \subseteq Row /\ \A t \in Ids(p) : owner[t] = p /\ row[t].state # "absent"
         /\ \A t \in NewlyDeleted(p) :
              /\ row'[t].state = "gone" /\ row'[t].token = req[p].token
              /\ row'[t].ver > row[t].ver /\ row'[t].date = row[t].date
              /\ row'[t].edits = row[t].edits
         /\ \A t \in Row \ NewlyDeleted(p) : row'[t] = row[t]
         /\ receipts' = receipts \cup {<<t, req[p].token>> : t \in NewlyDeleted(p)}
         /\ apart' = apart \cup {t \in NewlyDeleted(p) : ~Live(t)}
         /\ UNCHANGED <<tombs, undo, sent, resent>>
<1> DEFINE new == NewlyDeleted(p)
           k == req[p].token
<1>1. /\ ShapeOK /\ DeletionsOK /\ Ended(p) /\ req[p].kind = "delete"
      /\ \A t \in Ids(p) : owner[t] = p
      /\ new \subseteq Ids(p) /\ Ids(p) \subseteq Row
      /\ receipts' = receipts \cup {<<t, k>> : t \in new}
      /\ apart' = apart \cup {t \in new : ~Live(t)}
      /\ UNCHANGED <<tombs, undo, sent, resent>>
  BY PlanType DEF IInv, CommitDelete, HasAll, Ids, NewlyDeleted
<1>2. PICK u \in undo : u.token = k /\ ToSet(u.ids) = Ids(p)
  BY <1>1 DEF DeletionsOK
<1>3. k \in 1..MaxRequests /\ k \in 0..MaxRequests
  <2>1. u \in Deletion
    BY <1>1 DEF ShapeOK
  <2>2. k \in 1..MaxRequests
    BY <1>2, <2>1 DEF Deletion
  <2> QED
    BY <2>2, Constants
<1>4. \A t \in Ids(p) : row[t].state # "absent"
  BY <1>1, <1>2 DEF DeletionsOK
<1> HIDE DEF new, k
<1>5. ASSUME NEW t \in new
      PROVE  /\ row'[t] \in Image /\ row'[t].state = "gone" /\ row'[t].token = k
             /\ row'[t].ver > row[t].ver /\ row'[t].date = row[t].date
             /\ row'[t].edits = row[t].edits
  <2> DEFINE r == [row[t] EXCEPT !.state = "gone", !.token = k, !.ver = @ + 1]
  <2>1. t \in Row /\ row[t] \in Image
    BY <1>1 DEF ShapeOK
  <2>2. row[t].ver \in Nat /\ row[t].ver + 1 \in Nat
    BY <2>1 DEF Image
  <2>3. row'[t] = r
    BY <2>1 DEF CommitDelete, new, k
  <2>4. /\ r.state = "gone" /\ r.token = k /\ r.ver = row[t].ver + 1 /\ r.date = row[t].date
        /\ r.edits = row[t].edits
    BY <2>1 DEF Image
  <2>5. r \in Image
    BY <1>3, <2>1, <2>2 DEF Image, States
  <2> HIDE DEF r
  <2> QED
    BY <2>2, <2>3, <2>4, <2>5
<1>6. \A t \in Row \ new : row'[t] = row[t]
  BY DEF CommitDelete, new
<1>7. row' \in [Row -> Image]
  <2>1. row' = [t \in Row |-> row'[t]]
    BY DEF CommitDelete
  <2>2. \A t \in Row : row'[t] \in Image
    BY <1>1, <1>5, <1>6 DEF ShapeOK
  <2> QED
    BY <2>1, <2>2
<1>8. receipts' \subseteq Row \X (1..MaxRequests) /\ apart' \subseteq Row
  <2>1. \A t \in new : <<t, k>> \in Row \X (1..MaxRequests)
    BY <1>1, <1>3
  <2> QED
    BY <1>1, <2>1 DEF ShapeOK
<1>9. ShapeOK'
  BY <1>1, <1>7, <1>8, EndedIs DEF ShapeOK
<1> QED
  BY <1>1, <1>4, <1>5, <1>6, <1>9 DEF new, k

LEMMA CommitDeleteKeeps ==
  ASSUME IInv, NEW p \in Process, CommitDelete(p)
  PROVE  IInv'
<1> DEFINE new == NewlyDeleted(p)
           k == req[p].token
<1>1. /\ ShapeOK' /\ Ended(p) /\ new \subseteq Ids(p)
      /\ Ids(p) \subseteq Row /\ \A t \in Ids(p) : owner[t] = p /\ row[t].state # "absent"
      /\ \A t \in new : /\ row'[t].state = "gone" /\ row'[t].token = k
                        /\ row'[t].ver > row[t].ver /\ row'[t].date = row[t].date
      /\ \A t \in Row \ new : row'[t] = row[t]
      /\ receipts' = receipts \cup {<<t, k>> : t \in new}
      /\ apart' = apart \cup {t \in new : ~Live(t)}
      /\ UNCHANGED <<tombs, undo, sent, resent>>
  BY CommitDeleteIs
<1>2. ShapeOK /\ DeletionsOK /\ ParentsFirst /\ Together
  BY DEF IInv
<1>3. \A t \in new : <<t, k>> \notin receipts
  BY DEF NewlyDeleted
<1>4. \A t \in Ids(p) \ new : <<t, k>> \in receipts
  BY DEF NewlyDeleted, Ids
<1>5. \A t \in Ids(p) : <<t, k>> \in receipts'
  BY <1>1, <1>4
<1>6. PICK u \in undo : u.token = k /\ ToSet(u.ids) = Ids(p)
  BY <1>2 DEF DeletionsOK, CommitDelete
<1> HIDE DEF new, k
<1>7. Grows
  BY <1>1 DEF Grows
<1>8. \A t \in DOMAIN Parent : t \in Row /\ Parent[t] \in Row
  BY ConstantsAssumption DEF Forest
<1>9. Joins
  BY <1>1, <1>8 DEF Joins, Live
<1>10. \A q \in Process : ProcessOK(q)'
  <2>1. \A t \in Row : owner[t] # p => row'[t] = row[t]
    BY <1>1
  <2>2. DOMAIN tombs' \ DOMAIN tombs = {} /\ apart \subseteq apart'
    BY <1>1
  <2> QED
    BY <1>1, <1>7, <1>9, <2>1, <2>2, ProcessesCommit
<1>11. ASSUME NEW v \in undo
       PROVE  /\ v.token <= sent'
              /\ \A t \in ToSet(v.ids) : row'[t].state # "absent"
              /\ \A t \in Row : <<t, v.token>> \in receipts' =>
                   t \in ToSet(v.ids) /\ \A s \in ToSet(v.ids) : <<s, v.token>> \in receipts'
  <2>1. v.token <= sent' /\ \A t \in ToSet(v.ids) : row[t].state # "absent"
    BY <1>1, <1>2 DEF DeletionsOK
  <2>2. ToSet(v.ids) \subseteq Row
    BY <1>2 DEF ShapeOK, Deletion, ToSet
  <2>3. \A t \in ToSet(v.ids) : row'[t].state # "absent"
    BY <1>1, <2>1, <2>2
  <2>4. CASE v.token = k
    <3>1. v = u
      BY <1>2, <1>6, <2>4 DEF DeletionsOK
    <3>2. ASSUME NEW t \in Row, <<t, v.token>> \in receipts'
          PROVE  t \in ToSet(v.ids)
      <4>1. CASE t \in new
        BY <1>1, <1>6, <3>1, <4>1
      <4>2. CASE t \notin new
        <5>1. <<t, v.token>> \in receipts
          BY <1>1, <3>2, <4>2
        <5> QED
          BY <1>2, <5>1 DEF DeletionsOK
      <4> QED
        BY <4>1, <4>2
    <3> QED
      BY <1>5, <1>6, <2>1, <2>3, <2>4, <3>1, <3>2
  <2>5. CASE v.token # k
    <3>1. \A t \in Row : <<t, v.token>> \in receipts' => <<t, v.token>> \in receipts
      BY <1>1, <2>5
    <3>2. \A t \in Row : <<t, v.token>> \in receipts =>
            t \in ToSet(v.ids) /\ \A s \in ToSet(v.ids) : <<s, v.token>> \in receipts
      BY <1>2 DEF DeletionsOK
    <3>3. receipts \subseteq receipts'
      BY <1>1
    <3> QED
      BY <2>1, <2>3, <3>1, <3>2, <3>3
  <2> QED
    BY <2>4, <2>5
<1>12. ASSUME NEW q \in Process, req'[q].kind = "delete"
       PROVE  \E v \in undo' : v.token = req'[q].token /\ ToSet(v.ids) = Ids(q)'
  <2>1. req[q].kind = "delete" /\ req'[q].token = req[q].token /\ req'[q].ids = req[q].ids
    BY <1>1, <1>2, <1>12, EndedIs
  <2>2. Ids(q)' = Ids(q)
    BY <2>1 DEF Ids
  <2> QED
    BY <1>1, <1>2, <2>1, <2>2 DEF DeletionsOK
<1>13. \A x \in receipts' : x[2] <= sent'
  <2>1. \A x \in receipts : x[2] <= sent
    BY <1>2 DEF DeletionsOK
  <2>2. k <= sent
    BY <1>2, <1>6 DEF DeletionsOK
  <2> QED
    BY <1>1, <2>1, <2>2
<1>14. ASSUME NEW t \in Row, row'[t].state = "gone"
       PROVE  <<t, row'[t].token>> \in receipts'
  <2>1. CASE t \in new
    BY <1>1, <2>1
  <2>2. CASE t \notin new
    BY <1>1, <1>2, <1>14, <2>2 DEF DeletionsOK
  <2> QED
    BY <2>1, <2>2
<1>15. DeletionsOK'
  <2>1. \A v, w \in undo : v.token = w.token => v = w
    BY <1>2 DEF DeletionsOK
  <2>2. undo' = undo
    BY <1>1
  <2> QED
    BY <1>11, <1>12, <1>13, <1>14, <2>1, <2>2 DEF DeletionsOK
<1>16. ParentsFirst'
  <2>1. ASSUME NEW t \in DOMAIN Parent, row'[Parent[t]].state = "absent"
        PROVE  row'[t].state = "absent"
    <3>1. Parent[t] \notin new
      BY <1>1, <2>1
    <3>2. row[Parent[t]].state = "absent"
      BY <1>1, <1>8, <2>1, <3>1
    <3>3. row[t].state = "absent"
      BY <1>2, <3>2 DEF ParentsFirst
    <3>4. t \notin new
      BY <1>1, <3>3
    <3> QED
      BY <1>1, <1>8, <3>3, <3>4
  <2> QED
    BY <2>1 DEF ParentsFirst
<1>17. \A t \in Row : row'[t].date = row[t].date
  BY <1>1
<1>18. ASSUME NEW t \in DOMAIN Parent \ apart',
              Live(t)' \/ (/\ row'[t].state = "gone" /\ row'[Parent[t]].state = "gone"
                           /\ row'[t].token = row'[Parent[t]].token)
       PROVE  row[t].date = row[Parent[t]].date
  <2>1. t \in Row /\ Parent[t] \in Row /\ t \notin apart /\ (t \in new => Live(t))
    BY <1>1, <1>8
  <2>2. CASE Live(t)
    BY <1>2, <2>1, <2>2 DEF Together
  <2>3. CASE ~Live(t)
    <3>1. t \notin new /\ row'[t] = row[t]
      BY <1>1, <2>1, <2>3
    <3>2. /\ row[t].state = "gone" /\ row'[Parent[t]].state = "gone"
          /\ row[t].token = row'[Parent[t]].token
      BY <1>18, <2>3, <3>1 DEF Live
    <3>3. Parent[t] \notin new
      <4>1. SUFFICES ASSUME Parent[t] \in new
                     PROVE  FALSE
        OBVIOUS
      <4>2. row[t].token = k
        BY <1>1, <3>2, <4>1
      <4>3. <<t, u.token>> \in receipts
        BY <1>2, <1>6, <2>1, <3>2, <4>2 DEF DeletionsOK
      <4>4. <<Parent[t], k>> \in receipts
        BY <1>1, <1>2, <1>6, <2>1, <4>1, <4>3 DEF DeletionsOK
      <4> QED
        BY <1>3, <4>1, <4>4
    <3>4. row'[Parent[t]] = row[Parent[t]]
      BY <1>1, <2>1, <3>3
    <3> QED
      BY <1>2, <2>1, <3>2, <3>4 DEF Together
  <2> QED
    BY <2>2, <2>3
<1>19. Together'
  BY <1>8, <1>17, <1>18 DEF Together
<1> QED
  BY <1>1, <1>10, <1>15, <1>16, <1>19 DEF IInv

\* What a restoration brings back.
Gone(p) == {t \in Ids(p) : row[t].state = "gone"}

LEMMA CommitRestoreIs ==
  ASSUME IInv, NEW p \in Process, CommitRestore(p)
  PROVE  /\ ShapeOK' /\ Ended(p) /\ Gone(p) \subseteq Row
         /\ \A t \in Gone(p) :
              /\ owner[t] = p /\ row[t].state = "gone" /\ row[t].token = req[p].token
              /\ row'[t].state = "live"
              /\ row'[t].ver > row[t].ver /\ row'[t].date = row[t].date
              /\ row'[t].edits = row[t].edits
         /\ \A t \in Row \ Gone(p) : row'[t] = row[t]
         /\ apart' = apart \cup {t \in Gone(p) \cap DOMAIN Parent : Parent[t] \notin Gone(p)}
         /\ UNCHANGED <<tombs, receipts, undo, sent, resent>>
<1>1. /\ ShapeOK /\ Ended(p)
      /\ Ids(p) \subseteq Row /\ Gone(p) \subseteq Ids(p)
      /\ \A t \in Gone(p) : owner[t] = p /\ row[t].state = "gone" /\ row[t].token = req[p].token
      /\ apart' = apart \cup {t \in Gone(p) \cap DOMAIN Parent : Parent[t] \notin Gone(p)}
      /\ UNCHANGED <<tombs, receipts, undo, sent, resent>>
  BY PlanType DEF IInv, CommitRestore, HasAll, Superseded, Gone, Ids
<1>2. ASSUME NEW t \in Gone(p)
      PROVE  /\ row'[t] \in Image /\ row'[t].state = "live"
             /\ row'[t].ver > row[t].ver /\ row'[t].date = row[t].date
             /\ row'[t].edits = row[t].edits
  <2> DEFINE r == [row[t] EXCEPT !.state = "live", !.ver = @ + 1]
  <2>1. t \in Row /\ row[t] \in Image
    BY <1>1 DEF ShapeOK
  <2>2. row[t].ver \in Nat /\ row[t].ver + 1 \in Nat
    BY <2>1 DEF Image
  <2>3. row'[t] = r
    BY <2>1 DEF CommitRestore, Gone, Ids
  <2>4. /\ r.state = "live" /\ r.ver = row[t].ver + 1 /\ r.date = row[t].date
        /\ r.edits = row[t].edits
    BY <2>1 DEF Image
  <2>5. r \in Image
    BY <2>1, <2>2 DEF Image, States
  <2> HIDE DEF r
  <2> QED
    BY <2>2, <2>3, <2>4, <2>5
<1>3. \A t \in Row \ Gone(p) : row'[t] = row[t]
  BY DEF CommitRestore, Gone, Ids
<1>4. row' \in [Row -> Image]
  <2>1. row' = [t \in Row |-> row'[t]]
    BY DEF CommitRestore
  <2>2. \A t \in Row : row'[t] \in Image
    BY <1>1, <1>2, <1>3 DEF ShapeOK
  <2> QED
    BY <2>1, <2>2
<1>5. apart' \subseteq Row
  BY <1>1 DEF ShapeOK
<1>6. ShapeOK'
  BY <1>1, <1>4, <1>5, EndedIs DEF ShapeOK
<1> QED
  BY <1>1, <1>2, <1>3, <1>6

LEMMA CommitRestoreKeeps ==
  ASSUME IInv, NEW p \in Process, CommitRestore(p)
  PROVE  IInv'
<1> DEFINE gone == Gone(p)
           k == req[p].token
<1>1. /\ ShapeOK' /\ Ended(p) /\ gone \subseteq Row
      /\ \A t \in gone : /\ owner[t] = p /\ row[t].state = "gone" /\ row[t].token = k
                         /\ row'[t].state = "live"
                         /\ row'[t].ver > row[t].ver /\ row'[t].date = row[t].date
      /\ \A t \in Row \ gone : row'[t] = row[t]
      /\ apart' = apart \cup {t \in gone \cap DOMAIN Parent : Parent[t] \notin gone}
      /\ UNCHANGED <<tombs, receipts, undo, sent, resent>>
  BY CommitRestoreIs
<1> HIDE DEF gone, k
<1>2. ShapeOK /\ ParentsFirst /\ Together
  BY DEF IInv
<1>3. Grows
  BY <1>1 DEF Grows
<1>4. \A t \in DOMAIN Parent : t \in Row /\ Parent[t] \in Row
  BY ConstantsAssumption DEF Forest
<1>5. \A t \in gone : row'[t] # row[t]
  BY <1>1
<1>6. Joins
  <2> SUFFICES ASSUME NEW t \in DOMAIN Parent, ~Live(t), Live(t)',
                      row'[Parent[t]] = row[Parent[t]]
               PROVE  t \in apart'
    BY DEF Joins
  <2>1. t \in gone
    BY <1>1, <1>4 DEF Live
  <2>2. Parent[t] \notin gone
    BY <1>5
  <2> QED
    BY <1>1, <2>1, <2>2
<1>7. \A q \in Process : ProcessOK(q)'
  <2>1. \A t \in Row : owner[t] # p => row'[t] = row[t]
    BY <1>1
  <2>2. DOMAIN tombs' \ DOMAIN tombs = {} /\ apart \subseteq apart'
    BY <1>1
  <2> QED
    BY <1>1, <1>3, <1>6, <2>1, <2>2, ProcessesCommit
<1>8. DeletionsOK'
  <2>1. \A u \in Row :
          /\ row[u].state # "absent" => row'[u].state # "absent"
          /\ row'[u].state = "gone" => row[u].state = "gone" /\ row'[u].token = row[u].token
    BY <1>1
  <2>2. \A q \in Process : req'[q].kind = "delete" =>
          /\ req[q].kind = "delete" /\ req'[q].token = req[q].token
          /\ ToSet(req'[q].ids) = ToSet(req[q].ids)
    BY <1>1, <1>2, EndedIs
  <2> QED
    BY <1>1, <2>1, <2>2, DeletionsKept
<1>9. \A t \in Row : (row'[t].state = "absent" <=> row[t].state = "absent")
                     /\ row'[t].date = row[t].date
  BY <1>1
<1>10. ParentsFirst'
  BY <1>2, <1>4, <1>9 DEF ParentsFirst
<1>11. ASSUME NEW t \in DOMAIN Parent \ apart',
              Live(t)' \/ (/\ row'[t].state = "gone" /\ row'[Parent[t]].state = "gone"
                           /\ row'[t].token = row'[Parent[t]].token)
       PROVE  row[t].date = row[Parent[t]].date
  <2>1. t \in Row /\ Parent[t] \in Row /\ t \notin apart /\ (t \in gone => Parent[t] \in gone)
    BY <1>1, <1>4
  <2>2. CASE t \in gone
    BY <1>1, <1>2, <2>1, <2>2 DEF Together
  <2>3. CASE t \notin gone
    <3>1. row'[t] = row[t]
      BY <1>1, <2>1, <2>3
    <3>2. row'[Parent[t]].state = "gone" => row'[Parent[t]] = row[Parent[t]]
      BY <1>1, <2>1
    <3> QED
      BY <1>2, <1>11, <2>1, <3>1, <3>2 DEF Together, Live
  <2> QED
    BY <2>2, <2>3
<1>12. Together'
  BY <1>4, <1>9, <1>11 DEF Together
<1> QED
  BY <1>1, <1>7, <1>8, <1>10, <1>12 DEF IInv

LEMMA CommitEditIs ==
  ASSUME IInv, NEW p \in Process, CommitEdit(p)
  PROVE  /\ ShapeOK' /\ Ended(p) /\ Ids(p) \subseteq Row
         /\ \A t \in Ids(p) :
              /\ owner[t] = p /\ row'[t].state = row[t].state /\ row'[t].token = row[t].token
              /\ row'[t].ver > row[t].ver /\ row'[t].date = row[t].date
              /\ row'[t].edits > row[t].edits
         /\ \A t \in Row \ Ids(p) : row'[t] = row[t]
         /\ UNCHANGED <<tombs, receipts, undo, sent, resent, apart>>
<1>1. /\ ShapeOK /\ Ended(p) /\ Ids(p) \subseteq Row /\ \A t \in Ids(p) : owner[t] = p
      /\ UNCHANGED <<tombs, receipts, undo, sent, resent, apart>>
  BY PlanType DEF IInv, CommitEdit, HasAll, Ids
<1>2. ASSUME NEW t \in Ids(p)
      PROVE  /\ row'[t] \in Image /\ row'[t].state = row[t].state
             /\ row'[t].token = row[t].token
             /\ row'[t].ver > row[t].ver /\ row'[t].date = row[t].date
             /\ row'[t].edits > row[t].edits
  <2> DEFINE r == [row[t] EXCEPT !.edits = @ + 1, !.ver = @ + 1]
  <2>1. t \in Row /\ row[t] \in Image
    BY <1>1 DEF ShapeOK
  <2>2. /\ row[t].ver \in Nat /\ row[t].ver + 1 \in Nat
        /\ row[t].edits \in Nat /\ row[t].edits + 1 \in Nat
    BY <2>1 DEF Image
  <2>3. row'[t] = r
    BY <2>1 DEF CommitEdit, Ids
  <2>4. /\ r.state = row[t].state /\ r.token = row[t].token
        /\ r.ver = row[t].ver + 1 /\ r.date = row[t].date
        /\ r.edits = row[t].edits + 1
    BY <2>1 DEF Image
  <2>5. r \in Image
    BY <2>1, <2>2 DEF Image
  <2> HIDE DEF r
  <2> QED
    BY <2>2, <2>3, <2>4, <2>5
<1>3. \A t \in Row \ Ids(p) : row'[t] = row[t]
  BY DEF CommitEdit, Ids
<1>4. row' \in [Row -> Image]
  <2>1. row' = [t \in Row |-> row'[t]]
    BY DEF CommitEdit
  <2>2. \A t \in Row : row'[t] \in Image
    BY <1>1, <1>2, <1>3 DEF ShapeOK
  <2> QED
    BY <2>1, <2>2
<1>5. ShapeOK'
  BY <1>1, <1>4, EndedIs DEF ShapeOK
<1> QED
  BY <1>1, <1>2, <1>3, <1>5

LEMMA CommitEditKeeps ==
  ASSUME IInv, NEW p \in Process, CommitEdit(p)
  PROVE  IInv'
<1> DEFINE ids == Ids(p)
<1>1. /\ ShapeOK' /\ Ended(p) /\ ids \subseteq Row
      /\ \A t \in ids :
           /\ owner[t] = p /\ row'[t].state = row[t].state /\ row'[t].token = row[t].token
           /\ row'[t].ver > row[t].ver /\ row'[t].date = row[t].date
      /\ \A t \in Row \ ids : row'[t] = row[t]
      /\ UNCHANGED <<tombs, receipts, undo, sent, resent, apart>>
  BY CommitEditIs
<1> HIDE DEF ids
<1>2. ShapeOK /\ ParentsFirst /\ Together
  BY DEF IInv
<1>3. Grows
  BY <1>1 DEF Grows
<1>4. \A t \in DOMAIN Parent : t \in Row /\ Parent[t] \in Row
  BY ConstantsAssumption DEF Forest
<1>5. \A t \in Row : /\ row'[t].state = row[t].state /\ row'[t].token = row[t].token
                     /\ row'[t].date = row[t].date
  BY <1>1
<1>6. Joins
  BY <1>4, <1>5 DEF Joins, Live
<1>7. \A q \in Process : ProcessOK(q)'
  <2>1. \A t \in Row : owner[t] # p => row'[t] = row[t]
    BY <1>1
  <2>2. DOMAIN tombs' \ DOMAIN tombs = {} /\ apart \subseteq apart'
    BY <1>1
  <2> QED
    BY <1>1, <1>3, <1>6, <2>1, <2>2, ProcessesCommit
<1>8. DeletionsOK'
  <2>1. \A q \in Process : req'[q].kind = "delete" =>
          /\ req[q].kind = "delete" /\ req'[q].token = req[q].token
          /\ ToSet(req'[q].ids) = ToSet(req[q].ids)
    BY <1>1, <1>2, EndedIs
  <2> QED
    BY <1>1, <1>5, <2>1, DeletionsKept
<1>9. ParentsFirst' /\ Together'
  BY <1>1, <1>2, <1>4, <1>5 DEF ParentsFirst, Together, Live
<1> QED
  BY <1>1, <1>7, <1>8, <1>9 DEF IInv

-----------------------------------------------------------------------------
(***************************************************************************)
(* The invariant, and what follows from it.                                *)
(***************************************************************************)
LEMMA InitInvariant == Init => IInv
<1> SUFFICES ASSUME Init
             PROVE  IInv
  OBVIOUS
<1>1. \A t \in Row : /\ row[t].state \in {"absent", "live"} /\ row[t].date = Today
                     /\ row[t].state = "absent" <=> t \in Late
  BY DEF Init
<1>2. \A p \in Process : req[p].kind = "none" /\ req[p].phase = "idle" /\ req[p] \in Request
  BY NoRequestType DEF Init
<1>3. ShapeOK
  <2>1. row \in [Row -> Image]
    <3>1. Today \in Int /\ 0 \in 0..MaxRequests /\ 0 \in Nat
      BY Constants
    <3> QED
      BY <3>1 DEF Init, Image, States
  <2>2. DOMAIN tombs = {} /\ tombs = [x \in DOMAIN tombs |-> 1]
    BY DEF Init, EmptyBag, SetToBag
  <2>3. owner \in [Row -> Holder] /\ advisory \in [{"moves", "deletions"} -> Holder]
    BY DEF Init, Holder
  <2>4. req \in [Process -> Request]
    BY <1>2, NoRequestType DEF Init
  <2>5. sent \in 0..MaxRequests /\ resent \in 0..MaxResends
    BY Constants DEF Init
  <2> QED
    BY <2>1, <2>2, <2>3, <2>4, <2>5 DEF Init, ShapeOK
<1>4. ASSUME NEW p \in Process
      PROVE  ProcessOK(p)
  <2>1. (\A t \in Row : owner[t] # p) /\ \A x \in {"moves", "deletions"} : advisory[x] # p
    BY Constants DEF Init
  <2> QED
    BY <1>2, <2>1 DEF ProcessOK, LockedOK, PlanOK, HasPlan, Planned, HeldOK, TombOK
<1>5. DeletionsOK
  BY <1>1, <1>2 DEF Init, DeletionsOK
<1>6. \A t \in DOMAIN Parent : t \in Row /\ Parent[t] \in Row /\ (Parent[t] \in Late => t \in Late)
  BY ConstantsAssumption DEF Forest
<1>7. ParentsFirst /\ Together
  BY <1>1, <1>6 DEF ParentsFirst, Together
<1> QED
  BY <1>3, <1>4, <1>5, <1>7 DEF IInv

LEMMA StepInvariant ==
  ASSUME IInv, NEW p \in Process, Step(p)
  PROVE  IInv'
<1>1. CASE ReadParent(p)         BY <1>1, ReadParentKeeps
<1>2. CASE ReadPool(p)           BY <1>2, ReadPoolKeeps
<1>3. CASE LookForTombstone(p)   BY <1>3, LookForTombstoneKeeps
<1>4. CASE BeginMove(p)          BY <1>4, BeginMoveKeeps
<1>5. CASE BeginDelete(p)        BY <1>5, BeginDeleteKeeps
<1>6. CASE BeginBatch(p)         BY <1>6, BeginBatchKeeps
<1>7. CASE Lock(p)               BY <1>7, LockKeeps
<1>8. CASE CommitMove(p)         BY <1>8, CommitMoveKeeps
<1>9. CASE CommitDelete(p)       BY <1>9, CommitDeleteKeeps
<1>10. CASE CommitRestore(p)     BY <1>10, CommitRestoreKeeps
<1>11. CASE RefuseRestore(p)     BY <1>11, RefuseKeeps DEF RefuseRestore
<1>12. CASE CommitEdit(p)        BY <1>12, CommitEditKeeps
<1>13. CASE Deadlock(p)          BY <1>13, RefuseKeeps DEF Deadlock
<1> QED
  BY <1>1, <1>2, <1>3, <1>4, <1>5, <1>6, <1>7, <1>8, <1>9, <1>10, <1>11, <1>12, <1>13
     DEF Step

LEMMA StutterInvariant ==
  ASSUME IInv, UNCHANGED vars
  PROVE  IInv'
<1> USE DEF vars
<1>1. ShapeOK' /\ DeletionsOK' /\ ParentsFirst' /\ Together'
  BY RestQuiet DEF IInv, ShapeOK
<1>2. Grows /\ Joins
  BY DEF Grows, Joins, Live
<1>3. \A q \in Process : ProcessOK(q)'
  BY <1>1, <1>2, ProcessKept DEF IInv
<1> QED
  BY <1>1, <1>3 DEF IInv

LEMMA NextInvariant == IInv /\ [Next]_vars => IInv'
<1> SUFFICES ASSUME IInv, [Next]_vars
             PROVE  IInv'
  OBVIOUS
<1>1. ASSUME NEW p \in Process,
             SendMove(p) \/ SendDelete(p) \/ SendRestore(p) \/ SendEdit(p) \/ SendAgain(p)
      PROVE  IInv'
  BY <1>1, SendKeeps, SendDeleteKeeps, SendAgainKeeps
<1>2. ASSUME NEW p \in Process, Step(p)
      PROVE  IInv'
  BY <1>2, StepInvariant
<1>3. ASSUME NEW t \in Late, Create(t)
      PROVE  IInv'
  BY <1>3, CreateKeeps
<1>4. ASSUME UNCHANGED vars
      PROVE  IInv'
  BY <1>4, StutterInvariant
<1> QED
  BY <1>1, <1>2, <1>3, <1>4 DEF Next

LEMMA Invariant == Spec => []IInv
<1> QED
  BY InitInvariant, NextInvariant, PTL DEF Spec

LEMMA InvariantTyped == IInv => TypeOK
<1> SUFFICES ASSUME IInv
             PROVE  TypeOK
  OBVIOUS
<1>1. ShapeOK
  BY DEF IInv
<1>2. ASSUME NEW t \in Row
      PROVE  /\ row[t].state \in {"absent", "live", "gone"} /\ row[t].date \in Int
             /\ {row[t].ver, row[t].edits, row[t].token} \subseteq Nat
  <2>1. row[t] \in Image
    BY <1>1 DEF ShapeOK
  <2>2. row[t].token \in Nat
    BY <2>1, Constants DEF Image
  <2> QED
    BY <2>1, <2>2 DEF Image, States
<1>3. \A p \in Process : ~Underway(p) =>
        p \notin {owner[t] : t \in Row} \cup {advisory["moves"], advisory["deletions"]}
  BY HoldsNothing DEF Underway
<1>4. \A x \in DOMAIN tombs : tombs[x] = 1
  BY <1>1 DEF ShapeOK
<1> QED
  BY <1>1, <1>2, <1>3, <1>4 DEF ShapeOK, TypeOK

\* The variables keep their shape: there is at most one tombstone of a row on a day,
\* and only a request that is under way holds locks.
THEOREM TypeCorrect == Spec => []TypeOK
<1> QED
  BY Invariant, InvariantTyped, PTL

\* A nested row stays on the day of its parent, unless it is one of those that the
\* model lists as apart: a stale plan is refused, and a plan that is not stale is of
\* the whole tree (lib/reschedule.js, rescheduleBlocks).
THEOREM NotStrandedEver == Spec => []NotStranded
<1>1. IInv => NotStranded
  BY DEF IInv, Together, NotStranded
<1> QED
  BY <1>1, Invariant, PTL

\* What a step does to a row: it keeps the edits, and what it takes away had no
\* receipt of that deletion.
LEMMA RowsAfter ==
  ASSUME IInv, Next, NEW t \in Row
  PROVE  /\ row'[t].edits >= row[t].edits
         /\ row[t].state = "live" /\ row'[t].state = "gone" =>
              <<t, row'[t].token>> \notin receipts
<1>1. ShapeOK
  BY DEF IInv
<1>2. row[t] \in Image
  BY <1>1 DEF ShapeOK
<1>3. row[t].edits \in Nat
  BY <1>2 DEF Image
<1>4. ASSUME row' = row
      PROVE  row'[t].edits >= row[t].edits /\ row'[t].state = row[t].state
  BY <1>3, <1>4
<1>5. ASSUME NEW u \in Late, Create(u)
      PROVE  \/ row'[t] = row[t]
             \/ row'[t].edits = row[t].edits /\ row'[t].state # "gone"
  BY <1>1, <1>5, CreateShape
<1>6. ASSUME NEW p \in Process, CommitMove(p)
      PROVE  row'[t].edits = row[t].edits /\ row'[t].state = row[t].state
  BY <1>6, CommitMoveIs
<1>7. ASSUME NEW p \in Process, CommitDelete(p)
      PROVE  \/ row'[t] = row[t]
             \/ row'[t].edits = row[t].edits /\ <<t, row'[t].token>> \notin receipts
  BY <1>7, CommitDeleteIs DEF NewlyDeleted
<1>8. ASSUME NEW p \in Process, CommitRestore(p)
      PROVE  \/ row'[t] = row[t]
             \/ row'[t].edits = row[t].edits /\ row'[t].state # "gone"
  BY <1>8, CommitRestoreIs
<1>9. ASSUME NEW p \in Process, CommitEdit(p)
      PROVE  \/ row'[t] = row[t]
             \/ row'[t].edits > row[t].edits /\ row'[t].state = row[t].state
  BY <1>9, CommitEditIs
<1>10. ASSUME NEW p \in Process, Step(p), row' # row
       PROVE  CommitMove(p) \/ CommitDelete(p) \/ CommitRestore(p) \/ CommitEdit(p)
  BY <1>10 DEF Step, ReadParent, ReadPool, LookForTombstone, BeginMove, BeginDelete,
               BeginBatch, Lock, RefuseRestore, Deadlock, Refuse
<1>11. \/ row' = row \/ (\E u \in Late : Create(u))
       \/ \E p \in Process : Step(p) /\ row' # row
  BY DEF Next, SendMove, SendDelete, SendRestore, SendEdit, SendAgain
<1>12. row'[t].edits \in Nat
  <2>1. row'[t] \in Image
    BY NextInvariant DEF IInv, ShapeOK
  <2> QED
    BY <2>1 DEF Image
<1>13. row'[t].edits = row[t].edits \/ row'[t].edits > row[t].edits
  BY <1>4, <1>5, <1>6, <1>7, <1>8, <1>9, <1>10, <1>11
<1>14. row[t].state = "live" /\ row'[t].state = "gone" => <<t, row'[t].token>> \notin receipts
  BY <1>4, <1>5, <1>6, <1>7, <1>8, <1>9, <1>10, <1>11
<1> QED
  BY <1>3, <1>12, <1>13, <1>14

\* A move does not take back an edit that was committed after the move had read the
\* row (rescheduleBlocks compares updated_at before it writes).
THEOREM EditsKeptAlways == Spec => EditsKept
<1>1. IInv /\ [Next]_vars => [\A t \in Row : row'[t].edits >= row[t].edits]_vars
  BY RowsAfter
<1> QED
  BY <1>1, Invariant, PTL DEF Spec, EditsKept

\* A deletion that comes again, after its rows were restored, takes nothing away
\* (deleteBlock finds its receipt in operations).
THEOREM DeletedOnceOnly == Spec => DeletedOnce
<1>1. IInv /\ [Next]_vars =>
        [\A t \in Row : row[t].state = "live" /\ row'[t].state = "gone" =>
           <<t, row'[t].token>> \notin receipts]_vars
  BY RowsAfter
<1> QED
  BY <1>1, Invariant, PTL DEF Spec, DeletedOnce

-----------------------------------------------------------------------------
(***************************************************************************)
(* Waiting.                                                                *)
(***************************************************************************)
\* A process that has sent nothing is idle, and only a move is planned.
StageOf(r) ==
  /\ r.kind = "none" => r.phase = "idle"
  /\ r.phase \in {"read", "planned", "ready"} => r.kind = "move"

StagesOK == \A p \in Process : StageOf(req[p])

\* A request that waits has been sent.
LEMMA WaitingSent ==
  ASSUME ShapeOK, NEW p \in Process, InDeadlock(p)
  PROVE  req[p].phase # "idle"
<1>1. WaitsFor(p) \in Process
  BY DEF InDeadlock
<1>2. WaitsFor(p) # Nobody
  BY <1>1, Constants
<1> QED
  BY <1>2 DEF WaitsFor

\* A request that is stopped, or was already sent, is at a stage of its kind.
LEMMA StagesPhase ==
  ASSUME ShapeOK, StagesOK, NEW p \in Process, NEW f \in Phases,
         req' = [req EXCEPT ![p].phase = f], req[p].phase # "idle",
         f \in {"read", "planned", "ready"} => req[p].kind = "move"
  PROVE  StagesOK'
<1>1. /\ \A q \in Process \ {p} : req'[q] = req[q]
      /\ req'[p].phase = f /\ req'[p].kind = req[p].kind
  BY NewPhase
<1> QED
  BY <1>1 DEF StagesOK, StageOf

LEMMA StagesRefused ==
  ASSUME ShapeOK, StagesOK, NEW p \in Process, Ended(p), req[p].phase # "idle"
  PROVE  StagesOK'
<1>1. "done" \in Phases
  BY DEF Phases
<1> QED
  BY <1>1, StagesPhase DEF Ended

LEMMA StagesSent ==
  ASSUME ShapeOK, StagesOK, NEW p \in Process,
         NEW r, req' = [req EXCEPT ![p] = r], StageOf(r)
  PROVE  StagesOK'
BY DEF StagesOK, ShapeOK

LEMMA StagesSending ==
  ASSUME ShapeOK, StagesOK, NEW p \in Process,
         SendMove(p) \/ SendDelete(p) \/ SendRestore(p) \/ SendEdit(p) \/ SendAgain(p)
  PROVE  StagesOK'
<1>1. CASE SendAgain(p)
  <2>1. "sent" \in Phases
    BY DEF Phases
  <2> QED
    BY <1>1, <2>1, StagesPhase DEF SendAgain
<1>2. ASSUME NEW r, Send(p, r), r.kind # "none", r.phase = "sent"
      PROVE  StagesOK'
  BY <1>2, StagesSent DEF Send, StageOf
<1>3. CASE SendMove(p)
  <2>1. PICK t \in Row, d \in Day :
          Send(p, [NoRequest EXCEPT !.kind = "move", !.phase = "sent", !.root = t,
                                    !.target = d])
    BY <1>3 DEF SendMove
  <2> QED
    BY <1>2, <2>1 DEF NoRequest
<1>4. CASE SendDelete(p)
  <2>1. PICK t, token, ids :
          Send(p, [NoRequest EXCEPT !.kind = "delete", !.phase = "sent", !.root = t,
                                    !.token = token, !.ids = ids])
    BY <1>4 DEF SendDelete
  <2> QED
    BY <1>2, <2>1 DEF NoRequest
<1>5. CASE SendRestore(p)
  <2>1. PICK token, ids :
          Send(p, [NoRequest EXCEPT !.kind = "restore", !.phase = "sent",
                                    !.token = token, !.ids = ids])
    BY <1>5 DEF SendRestore
  <2> QED
    BY <1>2, <2>1 DEF NoRequest
<1>6. CASE SendEdit(p)
  <2>1. PICK ids : Send(p, [NoRequest EXCEPT !.kind = "edit", !.phase = "sent", !.ids = ids])
    BY <1>6 DEF SendEdit
  <2> QED
    BY <1>2, <2>1 DEF NoRequest
<1> QED
  BY <1>1, <1>3, <1>4, <1>5, <1>6

LEMMA StagesStep ==
  ASSUME ShapeOK, StagesOK, NEW p \in Process, Step(p)
  PROVE  StagesOK'
<1>e. ASSUME Ended(p), req[p].phase # "idle" PROVE StagesOK'
  BY <1>e, StagesRefused
<1>n. StageOf(req[p]) /\ req[p] \in Request
  BY DEF StagesOK, ShapeOK
<1>1. ASSUME NEW r, req' = [req EXCEPT ![p] = r], r.kind = req[p].kind,
             r.kind = "move" \/ r.phase = "locking", req[p].phase # "idle"
      PROVE  StagesOK'
  BY <1>1, <1>n, StagesSent DEF StageOf
<1>2. CASE ReadParent(p)
  <2>1. CASE Refuse(p)
    BY <1>2, <1>e, <2>1 DEF ReadParent, Refuse
  <2>2. CASE ~Refuse(p)
    <3> DEFINE r == [req[p] EXCEPT !.phase = "read", !.from = row[req[p].root].date,
                                   !.plan = <<Seen(req[p].root)>>]
    <3>1. req' = [req EXCEPT ![p] = r] /\ req[p].kind = "move" /\ req[p].phase = "sent"
      BY <1>2, <2>2 DEF ReadParent
    <3>2. r.kind = req[p].kind
      BY <1>n DEF Request, Fields
    <3> HIDE DEF r
    <3> QED
      BY <1>1, <3>1, <3>2
  <2> QED
    BY <2>1, <2>2
<1>3. CASE ReadPool(p)
  <2> DEFINE ids == RootFirst(req[p].root, Subtree(req[p].root, req[p].from))
             plan == [i \in DOMAIN ids |-> IF i = 1 THEN req[p].plan[1] ELSE Seen(ids[i])]
             r == [req[p] EXCEPT !.phase = "planned", !.ids = ids, !.plan = plan]
  <2>1. req' = [req EXCEPT ![p] = r] /\ req[p].kind = "move" /\ req[p].phase = "read"
    BY <1>3, <1>n DEF ReadPool, ShapeOK, Request, Fields
  <2> HIDE DEF ids, plan
  <2>2. r.kind = req[p].kind
    BY <1>n DEF Request, Fields
  <2> HIDE DEF r
  <2> QED
    BY <1>1, <2>1, <2>2
<1>4. CASE LookForTombstone(p)
  <2> DEFINE marked == BagIn(<<req[p].root, req[p].from>>, tombs)
             r == [req[p] EXCEPT !.phase = "ready", !.marked = marked]
  <2>1. req' = [req EXCEPT ![p] = r] /\ req[p].kind = "move" /\ req[p].phase = "planned"
    BY <1>4 DEF LookForTombstone
  <2> HIDE DEF marked
  <2>2. r.kind = req[p].kind
    BY <1>n DEF Request, Fields
  <2> HIDE DEF r
  <2> QED
    BY <1>1, <2>1, <2>2
<1>5. CASE BeginMove(p)
  <2>1. "locking" \in Phases
    BY DEF Phases
  <2> QED
    BY <1>5, <2>1, StagesPhase DEF BeginMove
<1>6. CASE BeginDelete(p) \/ BeginBatch(p)
  <2>1. PICK ids : req' = [req EXCEPT ![p].phase = "locking", ![p].ids = ids]
    BY <1>6 DEF BeginDelete, BeginBatch
  <2> DEFINE r == [req[p] EXCEPT !.phase = "locking", !.ids = ids]
  <2>2. req' = [req EXCEPT ![p] = r] /\ r.kind = req[p].kind /\ r.phase = "locking"
    BY <1>n, <2>1 DEF Request, Fields
  <2>3. req[p].phase # "idle"
    BY <1>6 DEF BeginDelete, BeginBatch
  <2> HIDE DEF r
  <2> QED
    BY <1>1, <2>2, <2>3
<1>7. CASE Lock(p)
  BY <1>7, <1>e DEF Lock, Refuse, StagesOK
<1>8. CASE CommitMove(p) \/ CommitDelete(p) \/ CommitRestore(p) \/ RefuseRestore(p)
           \/ CommitEdit(p)
  <2>1. HasAll(p) /\ Ended(p)
    <3>1. CASE CommitMove(p)     BY <3>1 DEF CommitMove
    <3>2. CASE CommitDelete(p)   BY <3>2 DEF CommitDelete
    <3>3. CASE CommitRestore(p)  BY <3>3 DEF CommitRestore
    <3>4. CASE RefuseRestore(p)  BY <3>4 DEF RefuseRestore, Refuse
    <3>5. CASE CommitEdit(p)     BY <3>5 DEF CommitEdit
    <3> QED
      BY <1>8, <3>1, <3>2, <3>3, <3>4, <3>5
  <2> QED
    BY <1>e, <2>1 DEF HasAll
<1>9. CASE Deadlock(p)
  BY <1>9, <1>e, WaitingSent DEF Deadlock, Refuse
<1> QED
  BY <1>2, <1>3, <1>4, <1>5, <1>6, <1>7, <1>8, <1>9 DEF Step

LEMMA StagesNext == IInv /\ StagesOK /\ [Next]_vars => StagesOK'
<1> SUFFICES ASSUME IInv, StagesOK, [Next]_vars PROVE StagesOK'
  OBVIOUS
<1>1. ShapeOK
  BY DEF IInv
<1>2. CASE \E t \in Late : Create(t)
  BY <1>2 DEF Create, StagesOK
<1>3. CASE UNCHANGED vars
  BY <1>3 DEF vars, StagesOK
<1> QED
  BY <1>1, <1>2, <1>3, StagesSending, StagesStep DEF Next

\* A set of numbers has a smallest one, and a set of subsets one with none in it.
LEMMA SmallestNumber ==
  ASSUME NEW I \in SUBSET Nat, I # {}
  PROVE  \E n \in I : \A k \in I : n <= k
<1> DEFINE R == OpToRel(<, Nat)
<1>1. PICK n \in I : \A k \in I : ~(<<k, n>> \in R)
  <2>1. IsWellFoundedOn(R, Nat)
    BY NatLessThanWellFounded
  <2> HIDE DEF R
  <2> QED
    BY <2>1, WFMin, Zenon
<1>2. \A k \in I : ~(k < n)
  BY <1>1 DEF OpToRel
<1>3. \A k \in I : n <= k
  BY <1>2
<1> QED
  BY <1>3

LEMMA SmallestSubset ==
  ASSUME NEW P, IsFiniteSet(P), NEW B \in SUBSET (SUBSET P), B # {}
  PROVE  \E S \in B : \A V \in B : V \subseteq S => V = S
<1>1. IsWellFoundedOn(StrictSubsetOrdering(P), SUBSET P)
  <2>1. IsWellFoundedOn(StrictSubsetOrdering(P), FiniteSubsetsOf(P))
    BY FS_StrictSubsetOrderingWellFounded
  <2>2. FiniteSubsetsOf(P) = SUBSET P
    BY FS_FiniteSubsetsOfFinite
  <2> QED
    BY <2>1, <2>2
<1>2. \E S \in B : \A V \in B : ~(<<V, S>> \in StrictSubsetOrdering(P))
  BY <1>1, WFMin, Zenon
<1> QED
  BY <1>2 DEF StrictSubsetOrdering

\* The row that a request needs next is one of its rows that it does not hold.
LEMMA NextNeededIs ==
  ASSUME ShapeOK, NEW p \in Process, ~\A t \in ToSet(req[p].ids) : owner[t] = p
  PROVE  NextNeeded(p) \in Row /\ owner[NextNeeded(p)] # p
<1>1. req[p].ids \in Seq(Row)
  BY DEF ShapeOK, Request, Fields
<1>2. PICK s \in Seq(Row) : s = req[p].ids
  BY <1>1
<1> DEFINE I == {i \in 1..Len(s) : owner[s[i]] # p}
<1>3. I \subseteq Nat /\ I # {}
  BY <1>2 DEF ToSet
<1>5. \E n \in I : \A k \in I : n <= k
  <2> HIDE DEF I
  <2> QED
    BY <1>3, SmallestNumber
<1>6. Min(I) \in I
  <2> HIDE DEF I
  <2> QED
    BY <1>5 DEF Min
<1>7. SelectInSeq(s, LAMBDA t : owner[t] # p) = Min(I)
  BY <1>3 DEF SelectInSeq
<1>8. Min(I) \in 1..Len(s) /\ owner[s[Min(I)]] # p
  BY <1>6
<1> HIDE DEF I
<1>9. NextNeeded(p) = s[Min(I)]
  <2>1. Min(I) # 0
    BY <1>8
  <2> QED
    BY <1>2, <1>7, <2>1 DEF NextNeeded
<1> QED
  BY <1>8, <1>9

\* Who cannot go on waits for a lock, and its holder is under way.
LEMMA WaitsForOne ==
  ASSUME IInv, StagesOK, NEW p \in Process, Underway(p), ~CanGoOn(p)
  PROVE  WaitsFor(p) \in Process /\ Underway(WaitsFor(p))
<1>1. ShapeOK /\ StageOf(req[p]) /\ req[p] \in Request
  BY DEF IInv, ShapeOK, StagesOK
<1>2. ASSUME NEW q \in Holder, q # Nobody,
             \/ \E t \in Row : owner[t] = q
             \/ \E x \in {"moves", "deletions"} : advisory[x] = q
      PROVE  q \in Process /\ Underway(q)
  <2>1. q \in Process
    BY <1>2 DEF Holder
  <2>2. req[q].phase = "locking"
    BY <1>2, <2>1 DEF IInv, ProcessOK, LockedOK
  <2> QED
    BY <2>1, <2>2 DEF Underway
<1>3. SUFFICES \/ \E t \in Row : WaitsFor(p) = owner[t] /\ owner[t] # Nobody
               \/ \E x \in {"moves", "deletions"} :
                    WaitsFor(p) = advisory[x] /\ advisory[x] # Nobody
  BY <1>1, <1>2 DEF ShapeOK
<1>4. CASE req[p].phase = "locking"
  <2>1. ~HasAll(p)
    BY <1>4 DEF CanGoOn
  <2>2. NextNeeded(p) \in Row
    BY <1>1, <1>4, <2>1, NextNeededIs DEF HasAll
  <2>3. owner[NextNeeded(p)] # Nobody
    BY <1>4 DEF CanGoOn
  <2>4. NextNeeded(p) # Nobody
    BY <2>2, Constants
  <2>5. WaitsFor(p) = owner[NextNeeded(p)]
    BY <1>4, <2>4 DEF WaitsFor
  <2> QED
    BY <2>2, <2>3, <2>5
<1>5. CASE req[p].phase = "ready"
  BY <1>1, <1>5 DEF StageOf, CanGoOn, WaitsFor
<1>6. CASE req[p].phase = "sent"
  <2>1. req[p].kind = "delete"
    BY <1>1, <1>6 DEF CanGoOn, StageOf, Request, Fields, Kinds
  <2> QED
    BY <1>6, <2>1 DEF CanGoOn, WaitsFor
<1> QED
  BY <1>1, <1>4, <1>5, <1>6 DEF Underway, CanGoOn, StageOf, Request, Fields, Phases

\* Of finitely many who each wait for one of them, some wait in a circle: the
\* smallest set that nobody in it waits out of.
LEMMA Circle ==
  ASSUME NEW P, IsFiniteSet(P), P # {}, NEW f \in [P -> P]
  PROVE  \E S \in SUBSET P : /\ S # {}
                             /\ \A q \in S : f[q] \in S
                             /\ \A r \in S : \E q \in S : r = f[q]
<1> DEFINE Closed == {S \in SUBSET P : S # {} /\ \A q \in S : f[q] \in S}
<1>1. P \in Closed /\ Closed \in SUBSET (SUBSET P)
  OBVIOUS
<1>2. PICK S \in Closed : \A V \in Closed : V \subseteq S => V = S
  <2>1. PICK B : B = Closed
    OBVIOUS
  <2>2. B \in SUBSET (SUBSET P) /\ B # {}
    BY <1>1, <2>1
  <2>3. \E S \in B : \A V \in B : V \subseteq S => V = S
    BY <2>2, SmallestSubset
  <2> QED
    BY <2>1, <2>3
<1>3. PICK V : V = {f[q] : q \in S}
  OBVIOUS
<1>4. V \in Closed /\ V \subseteq S
  BY <1>2, <1>3
<1>5. V = S
  BY <1>2, <1>4
<1> QED
  BY <1>2, <1>3, <1>5

\* Nobody waits for a lock that is not going to be freed: its holder is under way,
\* and if all who are under way wait, some wait in a circle that PostgreSQL finds.
\* (rescheduleBlocks, batchOp and the dependency lock take their locks in different
\* orders.)
THEOREM NoneWaitsInVainEver ==
  ASSUME IsFiniteSet(Process)
  PROVE  Spec => []NoneWaitsInVain
<1>1. Init => StagesOK
  BY NoRequestType DEF Init, StagesOK, StageOf
<1>2. IInv /\ StagesOK => NoneWaitsInVain
  <2> SUFFICES ASSUME IInv, StagesOK, NEW p \in Process, Underway(p)
               PROVE  \E q \in Process : CanGoOn(q) \/ InDeadlock(q)
    BY WaitsForOne DEF NoneWaitsInVain
  <2> SUFFICES ASSUME \A q \in Process : ~CanGoOn(q)
               PROVE  \E q \in Process : InDeadlock(q)
    OBVIOUS
  <2>1. PICK P : P = {q \in Process : Underway(q)}
    OBVIOUS
  <2>2. IsFiniteSet(P)
    BY <2>1, FS_Subset
  <2>3. PICK f : f = [q \in P |-> WaitsFor(q)]
    OBVIOUS
  <2>4. f \in [P -> P] /\ P # {}
    BY <2>1, <2>3, WaitsForOne
  <2>5. PICK S \in SUBSET P : /\ S # {}
                              /\ \A q \in S : f[q] \in S
                              /\ \A r \in S : \E q \in S : r = f[q]
    BY <2>2, <2>4, Circle
  <2>6. {WaitsFor(q) : q \in S} = S
    BY <2>3, <2>5
  <2> QED
    BY <2>1, <2>5, <2>6 DEF InDeadlock
<1> QED
  BY <1>1, <1>2, Invariant, StagesNext, PTL DEF Spec
=============================================================================
