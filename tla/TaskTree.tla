------------------------------ MODULE TaskTree ------------------------------
(***************************************************************************)
(* Whole task trees on the server: moved to another day, deleted, restored *)
(* and edited (db.js, lib/reschedule.js, routes/blocks.js).                *)
(*                                                                         *)
(* Each request is a process: it reads what it needs outside its           *)
(* transaction, then takes the locks of the rows one at a time and, when it *)
(* holds them all, writes and commits.  A request that is refused rolls    *)
(* back; of requests that wait for one another PostgreSQL rolls one back.  *)
(* A request may be sent again after it was served, since its answer may   *)
(* be lost.                                                                *)
(*                                                                         *)
(* A row's version stands for updated_at, taken to differ for every write; *)
(* its edits stand for its properties.  Times of day, the order of a day,  *)
(* dependencies and the hide overlay are left out.                         *)
(***************************************************************************)
EXTENDS Integers, Sequences, FiniteSets, SequencesExt

CONSTANTS
  Row,
  Parent,       \* the parent of each row that has one
  Above,        \* a row and everything it is nested under
  Position,     \* the order of the rows' ids
  Late,         \* the rows that are created later
  Process,      \* the requests that can be under way together
  Nobody,
  Day,          \* the days a tree may be moved to
  Today,        \* the day the tree starts on
  MaxRequests,  \* bound: requests
  MaxResends    \* bound: requests sent again

\* What is above a row: itself and what is above its parent, in no circle.
Forest ==
  /\ DOMAIN Parent \subseteq Row
  /\ \A t \in DOMAIN Parent : Parent[t] \in Row
  /\ Above \in [Row -> SUBSET Row]
  /\ \A t \in Row : Above[t] = {t} \cup (IF t \in DOMAIN Parent THEN Above[Parent[t]] ELSE {})
  /\ \A t, u \in Row : u \in Above[t] => Above[u] \subseteq Above[t]
  /\ \A t, u \in Row : u \in Above[t] /\ t \in Above[u] => t = u

ASSUME ConstantsAssumption ==
  /\ IsFiniteSet(Row)
  /\ Forest
  /\ Position \in [Row -> Nat]
  /\ \A t, u \in Row : Position[t] = Position[u] => t = u
  /\ Late \subseteq DOMAIN Parent
  /\ \A t \in DOMAIN Parent : Parent[t] \in Late => t \in Late
  /\ Nobody \notin Process \cup Row
  /\ Day \subseteq Int /\ Today \in Day
  /\ MaxRequests \in Nat /\ MaxResends \in Nat

VARIABLES
  row,        \* the rows of the table blocks
  tombs,      \* the tombstones on the days that rows have been moved away from
  receipts,   \* the deletions carried out, row by row (operations)
  undo,       \* the deletions a device can take back
  owner,      \* who holds the lock of a row
  advisory,   \* who holds the lock of the moves, and that of the deletions
  req,        \* the requests under way
  sent, resent,
  apart       \* history: rows that may lie on another day than their parent:
              \* moved on their own, added after a move of their tree had read
              \* its rows, restored to a tree that may have moved, or deleted
              \* when they already were

vars == <<row, tombs, receipts, undo, owner, advisory, req, sent, resent, apart>>

NoRequest ==
  [kind |-> "none", phase |-> "idle", root |-> Nobody, target |-> Today, token |-> 0,
   ids |-> << >>, plan |-> << >>, from |-> Today, marked |-> FALSE]

Live(t) == row[t].state = "live"
Tree(t) == {u \in Row : t \in Above[u]}
Between(a, t) == {u \in Above[t] : a \in Above[u]}
InOrder(S) ==
  CHOOSE s \in [1..Cardinality(S) -> S] :
    ToSet(s) = S /\ \A i, j \in DOMAIN s : i < j => Position[s[i]] < Position[s[j]]
Underway(p) == req[p].phase \notin {"idle", "done"}
RootFirst(t, S) == IF t \in S THEN <<t>> \o InOrder(S \ {t}) ELSE InOrder(S)
-----------------------------------------------------------------------------
(***************************************************************************)
(* What a device sends.                                                    *)
(***************************************************************************)
Send(p, r) ==
  /\ ~Underway(p)
  /\ sent < MaxRequests
  /\ sent' = sent + 1
  /\ req' = [req EXCEPT ![p] = r]

SendMove(p) ==
  /\ \E t \in Row, d \in Day :
       /\ Live(t) /\ row[t].date # d
       /\ Send(p, [NoRequest EXCEPT !.kind = "move", !.phase = "sent", !.root = t,
                                    !.target = d])
  /\ UNCHANGED <<row, tombs, receipts, undo, owner, advisory, resent, apart>>

\* A task is deleted with everything under it that the day shows.
SendDelete(p) ==
  /\ \E t \in Row :
       LET shown == {u \in Tree(t) : Live(u) /\ row[u].date = row[t].date}
           ids   == RootFirst(t, shown)
       IN  /\ Live(t)
           /\ Send(p, [NoRequest EXCEPT !.kind = "delete", !.phase = "sent", !.root = t,
                                        !.token = sent + 1, !.ids = ids])
           /\ undo' = undo \cup {[token |-> sent + 1, ids |-> ids]}
  /\ UNCHANGED <<row, tombs, receipts, owner, advisory, resent, apart>>

\* undoDeleteTask: once the deletion has been answered, or given up.
SendRestore(p) ==
  /\ \E u \in undo :
       /\ ~\E q \in Process : /\ req[q].kind = "delete" /\ req[q].token = u.token
                              /\ req[q].phase # "done"
       /\ Send(p, [NoRequest EXCEPT !.kind = "restore", !.phase = "sent",
                                    !.token = u.token, !.ids = u.ids])
  /\ UNCHANGED <<row, tombs, receipts, undo, owner, advisory, resent, apart>>

\* One row, or several in the order of the request.
SendEdit(p) ==
  /\ \E t, u \in Row :
       /\ Live(t) /\ Live(u)
       /\ Send(p, [NoRequest EXCEPT !.kind = "edit", !.phase = "sent",
                                    !.ids = IF t = u THEN <<t>> ELSE <<t, u>>])
  /\ UNCHANGED <<row, tombs, receipts, undo, owner, advisory, resent, apart>>

\* The answer was lost: the request is sent again.
SendAgain(p) ==
  /\ req[p].phase = "done"
  /\ resent < MaxResends
  /\ resent' = resent + 1
  /\ req' = [req EXCEPT ![p].phase = "sent"]
  /\ UNCHANGED <<row, tombs, receipts, undo, owner, advisory, sent, apart>>

\* The rows that a move is going to take along have been read.
Planned(p) == req[p].kind = "move" /\ req[p].phase \in {"planned", "ready", "locking"}

\* A subtask is added: an insert waits for no row.
Create(t) ==
  /\ t \in Late /\ row[t].state = "absent"
  /\ Live(Parent[t])
  /\ row' = [row EXCEPT ![t] = [row[t] EXCEPT !.state = "live",
                                       !.date = row[Parent[t]].date]]
  /\ apart' = IF \E p \in Process : Planned(p) /\ req[p].root \in Above[t]
              THEN apart \cup {t} ELSE apart
  /\ UNCHANGED <<tombs, receipts, undo, owner, advisory, req, sent, resent>>
-----------------------------------------------------------------------------
(***************************************************************************)
(* Transactions.                                                           *)
(***************************************************************************)
Freed(o, p) == [x \in DOMAIN o |-> IF o[x] = p THEN Nobody ELSE o[x]]

\* Variant for mutation testing: a refused request keeps what it had locked.
StoppedHolding(p) ==
  /\ req' = [req EXCEPT ![p].phase = "done"]
  /\ UNCHANGED <<owner, advisory>>

\* The transaction ends, committed or rolled back.
Ended(p) ==
  /\ req' = [req EXCEPT ![p].phase = "done"]
  /\ owner' = Freed(owner, p)
  /\ advisory' = Freed(advisory, p)

Refuse(p) ==
  /\ Ended(p)
  /\ UNCHANGED <<row, tombs, receipts, undo, sent, resent, apart>>

\* The next row that a request needs the lock of, Nobody when it holds them all.
NextNeeded(p) ==
  LET i == SelectInSeq(req[p].ids, LAMBDA t : owner[t] # p)
  IN  IF i = 0 THEN Nobody ELSE req[p].ids[i]

Expected(p, t) == CHOOSE x \in ToSet(req[p].plan) : x.row = t

\* Variant for mutation testing: the plan is applied as it was made.
NeverStale(p, t) == FALSE

\* The row moved or was written since the plan was made.
Stale(p, t) ==
  LET x == Expected(p, t) IN row[t].date # x.date \/ row[t].ver # x.ver

Unfit(p, t) ==
  \/ req[p].kind \in {"move", "edit"} /\ ~Live(t)
  \/ req[p].kind = "move" /\ Live(t) /\ Stale(p, t)

Lock(p) ==
  LET t == NextNeeded(p) IN
  /\ req[p].phase = "locking"
  /\ t # Nobody
  /\ owner[t] = Nobody
  /\ IF Unfit(p, t) THEN Refuse(p)
     ELSE /\ owner' = [owner EXCEPT ![t] = p]
          /\ UNCHANGED <<row, tombs, receipts, undo, advisory, req, sent, resent, apart>>

HasAll(p) == req[p].phase = "locking" /\ \A t \in ToSet(req[p].ids) : owner[t] = p
-----------------------------------------------------------------------------
(***************************************************************************)
(* POST /api/blocks/:id/reschedule and rescheduleBlocks.                   *)
(***************************************************************************)
Seen(t) == [row |-> t, date |-> row[t].date, ver |-> row[t].ver, edits |-> row[t].edits]

ReadParent(p) ==
  /\ req[p].kind = "move" /\ req[p].phase = "sent"
  /\ IF ~Live(req[p].root) \/ row[req[p].root].date = req[p].target THEN Refuse(p)
     ELSE /\ req' = [req EXCEPT ![p].phase = "read", ![p].from = row[req[p].root].date,
                                ![p].plan = <<Seen(req[p].root)>>]
          /\ UNCHANGED <<row, tombs, receipts, undo, owner, advisory, sent, resent, apart>>

\* getRescheduleSubtreePool: the tasks of the day and what is nested in them.
InPool(t, d) ==
  \E a \in Above[t] : row[a].date = d /\ \A u \in Between(a, t) : Live(u)

\* collectSubtreeBlockIds.
Subtree(t, d) ==
  {u \in Tree(t) : \A v \in Between(t, u) \ {t} : InPool(v, d)}

\* The rest of the plan is read later, on the day the root was seen on.
ReadPool(p) ==
  /\ req[p].kind = "move" /\ req[p].phase = "read"
  /\ LET t   == req[p].root
         ids == RootFirst(t, Subtree(t, req[p].from))
     IN  req' = [req EXCEPT ![p].phase = "planned", ![p].ids = ids,
                   ![p].plan = [i \in DOMAIN ids |-> IF i = 1 THEN @[1] ELSE Seen(ids[i])]]
  /\ UNCHANGED <<row, tombs, receipts, undo, owner, advisory, sent, resent, apart>>

LookForTombstone(p) ==
  /\ req[p].kind = "move" /\ req[p].phase = "planned"
  /\ req' = [req EXCEPT ![p].phase = "ready",
                        ![p].marked = BagIn(<<req[p].root, req[p].from>>, tombs)]
  /\ UNCHANGED <<row, tombs, receipts, undo, owner, advisory, sent, resent, apart>>

BeginMove(p) ==
  /\ req[p].kind = "move" /\ req[p].phase = "ready"
  /\ advisory["moves"] = Nobody
  /\ advisory' = [advisory EXCEPT !["moves"] = p]
  /\ req' = [req EXCEPT ![p].phase = "locking"]
  /\ UNCHANGED <<row, tombs, receipts, undo, owner, sent, resent, apart>>

\* Every row of the plan moves by the same number of days, with the properties
\* that were read; the root leaves a tombstone behind, unless it has one.
CommitMove(p) ==
  LET r     == req[p]
      moved == ToSet(r.ids)
  IN  /\ r.kind = "move" /\ HasAll(p)
      /\ row' = [t \in Row |->
           IF t \in moved
           THEN [row[t] EXCEPT
                   !.date = IF t = r.root THEN r.target
                            ELSE Expected(p, t).date + (r.target - r.from),
                   !.ver = @ + 1, !.edits = Expected(p, t).edits]
           ELSE row[t]]
      /\ tombs' = IF r.marked THEN tombs ELSE tombs (+) SetToBag({<<r.root, r.from>>})
      /\ apart' = apart \cup {r.root}
      /\ Ended(p)
      /\ UNCHANGED <<receipts, undo, sent, resent>>
-----------------------------------------------------------------------------
(***************************************************************************)
(* POST /api/blocks/batch: deletions, restorations, edits.                 *)
(***************************************************************************)
\* The route locks the rows that are live in the order of the request, under the
\* lock of the dependencies; batchOp then locks all of them in the order of ids.
BeginDelete(p) ==
  LET all  == ToSet(req[p].ids)
      live == {t \in all : Live(t)}
  IN
  /\ req[p].kind = "delete" /\ req[p].phase = "sent"
  /\ live # {} => advisory["deletions"] = Nobody
  /\ advisory' = IF live = {} THEN advisory ELSE [advisory EXCEPT !["deletions"] = p]
  /\ req' = [req EXCEPT ![p].phase = "locking",
                        ![p].ids = RootFirst(req[p].root, live) \o InOrder(all)]
  /\ UNCHANGED <<row, tombs, receipts, undo, owner, sent, resent, apart>>

BeginBatch(p) ==
  /\ req[p].kind \in {"restore", "edit"} /\ req[p].phase = "sent"
  /\ req' = [req EXCEPT ![p].phase = "locking",
               ![p].ids = IF req[p].kind = "restore" THEN InOrder(ToSet(@)) ELSE @]
  /\ UNCHANGED <<row, tombs, receipts, undo, owner, advisory, sent, resent, apart>>

\* Variant for mutation testing: a deletion that comes again is carried out.
DeletedAgain(p) == ToSet(req[p].ids)

\* deleteBlock: a row with a receipt of this deletion is left as it is.
NewlyDeleted(p) == {t \in ToSet(req[p].ids) : <<t, req[p].token>> \notin receipts}

CommitDelete(p) ==
  LET new == NewlyDeleted(p) IN
  /\ req[p].kind = "delete" /\ HasAll(p)
  /\ row' = [t \in Row |->
       IF t \in new THEN [row[t] EXCEPT !.state = "gone", !.token = req[p].token,
                                        !.ver = @ + 1]
       ELSE row[t]]
  /\ receipts' = receipts \cup {<<t, req[p].token>> : t \in new}
  /\ apart' = apart \cup {t \in new : ~Live(t)}
  /\ Ended(p)
  /\ UNCHANGED <<tombs, undo, sent, resent>>

\* A row was deleted again since, by another deletion.
Superseded(p) ==
  \E t \in ToSet(req[p].ids) : row[t].state = "gone" /\ row[t].token # req[p].token

\* undeleteBlock for all of the rows, or for none.
CommitRestore(p) ==
  LET gone == {t \in ToSet(req[p].ids) : row[t].state = "gone"} IN
  /\ req[p].kind = "restore" /\ HasAll(p)
  /\ ~Superseded(p)
  /\ row' = [t \in Row |-> IF t \in gone THEN [row[t] EXCEPT !.state = "live", !.ver = @ + 1]
                           ELSE row[t]]
  /\ apart' = apart \cup {t \in gone \cap DOMAIN Parent : Parent[t] \notin gone}
  /\ Ended(p)
  /\ UNCHANGED <<tombs, receipts, undo, sent, resent>>

RefuseRestore(p) ==
  /\ req[p].kind = "restore" /\ HasAll(p)
  /\ Superseded(p)
  /\ Refuse(p)

\* updateBlock, of each row.
CommitEdit(p) ==
  /\ req[p].kind = "edit" /\ HasAll(p)
  /\ row' = [t \in Row |-> IF t \in ToSet(req[p].ids)
                           THEN [row[t] EXCEPT !.edits = @ + 1, !.ver = @ + 1]
                           ELSE row[t]]
  /\ Ended(p)
  /\ UNCHANGED <<tombs, receipts, undo, sent, resent, apart>>
-----------------------------------------------------------------------------
(***************************************************************************)
(* PostgreSQL's deadlock detector.                                         *)
(***************************************************************************)
\* The holder of what p needs next.
WaitsFor(p) ==
  CASE req[p].phase = "locking" /\ NextNeeded(p) # Nobody -> owner[NextNeeded(p)]
    [] req[p].kind = "move" /\ req[p].phase = "ready" -> advisory["moves"]
    [] /\ req[p].kind = "delete" /\ req[p].phase = "sent"
       /\ \E t \in ToSet(req[p].ids) : Live(t) -> advisory["deletions"]
    [] OTHER -> Nobody

\* The request is one of some that wait for one another.
InDeadlock(p) ==
  \E S \in SUBSET Process : p \in S /\ {WaitsFor(q) : q \in S} = S

Deadlock(p) == InDeadlock(p) /\ Refuse(p)
-----------------------------------------------------------------------------
Init ==
  /\ row = [t \in Row |-> [state |-> IF t \in Late THEN "absent" ELSE "live",
                           date |-> Today, ver |-> 0, edits |-> 0, token |-> 0]]
  /\ tombs = EmptyBag
  /\ receipts = {}
  /\ undo = {}
  /\ owner = [t \in Row |-> Nobody]
  /\ advisory = [x \in {"moves", "deletions"} |-> Nobody]
  /\ req = [p \in Process |-> NoRequest]
  /\ sent = 0
  /\ resent = 0
  /\ apart = {}

\* What the server does of its own accord.
Step(p) ==
  \/ ReadParent(p) \/ ReadPool(p) \/ LookForTombstone(p) \/ BeginMove(p)
  \/ BeginDelete(p) \/ BeginBatch(p)
  \/ Lock(p)
  \/ CommitMove(p) \/ CommitDelete(p) \/ CommitRestore(p) \/ RefuseRestore(p)
  \/ CommitEdit(p)
  \/ Deadlock(p)

Next ==
  \/ \E p \in Process : SendMove(p) \/ SendDelete(p) \/ SendRestore(p) \/ SendEdit(p)
                        \/ SendAgain(p) \/ Step(p)
  \/ \E t \in Late : Create(t)

Spec == Init /\ [][Next]_vars
-----------------------------------------------------------------------------
Holder == Process \cup {Nobody}

\* The shape of the variables: a row leaves one tombstone on a day, however often
\* it is moved away from it; whoever holds a lock is in its transaction.
TypeOK ==
  /\ \A t \in Row : /\ row[t].state \in {"absent", "live", "gone"}
                    /\ row[t].date \in Int
                    /\ {row[t].ver, row[t].edits, row[t].token} \subseteq Nat
  /\ DOMAIN tombs \subseteq Row \X Int /\ \A x \in DOMAIN tombs : tombs[x] = 1
  /\ receipts \subseteq Row \X (1..MaxRequests)
  /\ owner \in [Row -> Holder]
  /\ advisory \in [{"moves", "deletions"} -> Holder]
  /\ \A p \in Process : ~Underway(p) =>
       p \notin {owner[t] : t \in Row} \cup {advisory["moves"], advisory["deletions"]}
  /\ sent \in 0..MaxRequests /\ resent \in 0..MaxResends
  /\ apart \subseteq Row

\* A nested row lies on the day of its parent, unless it was moved on its own,
\* was added after a move of its tree had read its rows, came back to a tree that
\* may have moved, or was deleted again with a tree that had moved without it
\* ("Applying that stale plan can move the parent alone and strand its children",
\* db.js).
NotStranded ==
  \A t \in DOMAIN Parent :
    Live(t) /\ Live(Parent[t]) /\ t \notin apart => row[t].date = row[Parent[t]].date

\* The guards of the steps that p can take by itself.
CanGoOn(p) ==
  \/ /\ req[p].kind = "move"
     /\ \/ req[p].phase \in {"sent", "read", "planned"}
        \/ req[p].phase = "ready" /\ advisory["moves"] = Nobody
  \/ /\ req[p].kind = "delete" /\ req[p].phase = "sent"
     /\ (\E t \in ToSet(req[p].ids) : Live(t)) => advisory["deletions"] = Nobody
  \/ req[p].kind \in {"restore", "edit"} /\ req[p].phase = "sent"
  \/ req[p].phase = "locking" /\ (HasAll(p) \/ owner[NextNeeded(p)] = Nobody)

\* A lock is waited for only while its holder is under way, and requests that all
\* wait do so in a circle, which the deadlock detector breaks: none waits for one
\* that was served, or for ever.
NoneWaitsInVain ==
  /\ \A p \in Process : Underway(p) /\ ~CanGoOn(p) =>
       WaitsFor(p) \in Process /\ Underway(WaitsFor(p))
  /\ (\E p \in Process : Underway(p)) =>
       \E p \in Process : CanGoOn(p) \/ InDeadlock(p)

\* No request is left waiting: what it waits for is held by a request that is
\* itself under way, and one of them can go on ("A common lock order keeps
\* overlapping subtree mutations serialized", db.js; requests that lock rows in
\* another order do wait for one another, and one of them is rolled back).
NoneIsStuck ==
  /\ NoneWaitsInVain
  /\ \A p \in Process : CanGoOn(p) \/ InDeadlock(p) <=> ENABLED Step(p)

\* An edit that was committed is not undone by a move that read the row before.
EditsKept == [][\A t \in Row : row'[t].edits >= row[t].edits]_vars

\* A deletion takes a row away once: one that comes again, after the row was
\* restored, leaves the row as it is (what the handler does to clocks and links is
\* not watched).
DeletedOnce ==
  [][\A t \in Row : row[t].state = "live" /\ row'[t].state = "gone" =>
       <<t, row'[t].token>> \notin receipts]_vars
=============================================================================
