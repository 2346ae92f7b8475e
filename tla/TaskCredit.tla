------------------------------ MODULE TaskCredit ------------------------------
(***************************************************************************)
(* Points for completed tasks: slot-store.js earnTaskCredit and            *)
(* revokeTaskCredit, which keep a ledger (slot_point_ledger) and a balance *)
(* (slot_accounts.point_balance), and lib/task-credit-keys.js, which finds *)
(* a task's credit under any of the spellings of its key.                  *)
(*                                                                         *)
(* A key names a task of one day either by its row or by its label         *)
(* (properties.local_id), which several rows may share: the date half of   *)
(* the source key never varies in a closure, so one day is enough.  Every  *)
(* query of an earn is a transaction of its own, and a revoke deletes and  *)
(* debits in one; calls run side by side.                                  *)
(***************************************************************************)
EXTENDS Integers, FiniteSets, FiniteSetsExt

CONSTANTS
  Task,       \* the task rows
  Label,      \* the local ids
  LabelOf,    \* the local id of a row
  NoKey,
  MaxPoints,  \* bound: what a completion scores (500 in the code)
  MaxRuns,    \* bound: calls under way at once
  MaxCalls,   \* bound: calls
  MaxFaults   \* bound: closures that fail, calls that die

ASSUME ConstantsAssumption ==
  /\ LabelOf \in [Task -> Label]
  /\ Task \cap Label = {}
  /\ NoKey \notin Task \cup Label
  /\ IsFiniteSet(Task)
  /\ {MaxPoints, MaxRuns, MaxCalls, MaxFaults} \subseteq Nat

Key == Task \cup Label

VARIABLES
  ledger,   \* the delta of the task_complete row of every key; 0: no row
  balance,  \* what task credits have added to point_balance
  run,      \* the calls under way
  calls, faults,  \* how much of the bounds is spent
  blind,    \* history: tasks for which an earn looked for a credit while it
            \* could not see one that was about to be inserted
  stale,    \* history: a top-up overwrote a row that was not as it was read
  died      \* history: an earn died between the ledger and the balance

vars == <<ledger, balance, run, calls, faults, blind, stale, died>>

Run  == 1..MaxRuns
Idle == [stage |-> "idle", key |-> NoKey, credits |-> 0, found |-> NoKey,
         was |-> 0, owed |-> 0]
At(r, stage) == run[r].stage = stage

-----------------------------------------------------------------------------
(***************************************************************************)
(* lib/task-credit-keys.js.                                                *)
(***************************************************************************)
\* The rows a key could name (`cand`).
Named(k) == {t \in Task : k \in {t, LabelOf[t]}}

\* Variant for mutation testing: keys are compared as they are.
SameSpelling(k) == {k}

\* Every spelling of the tasks a key could name.
Spellings(k) == {k} \cup Named(k) \cup {LabelOf[t] : t \in Named(k)}

Rows(keys) == {k \in keys : ledger[k] > 0}

\* The credits of the equivalent keys.
Credited(k) == Rows(Spellings(k))

\* The one the query returns: the key's own, else the largest.
Best(k, hits) ==
  IF k \in hits THEN {k} ELSE {h \in hits : \A g \in hits : ledger[g] <= ledger[h]}

\* `amb`: some label the key leads to has more than one live row.
Ambiguous(k) ==
  \E t \in Named(k) : Cardinality(Named(LabelOf[t])) > 1

\* Variant for mutation testing: a revoke looks as generously as an earn.
CreditedAnyway(k) == Credited(k)

\* strict: through an ambiguous label only the key's own credit is found.
CreditedStrictly(k) == IF Ambiguous(k) THEN Rows({k}) ELSE Credited(k)

-----------------------------------------------------------------------------
(***************************************************************************)
(* earnTaskCredit.                                                         *)
(***************************************************************************)
Begin(r, k, c, stage) ==
  /\ At(r, "idle") /\ \A s \in 1..r - 1 : ~At(s, "idle")
  /\ calls < MaxCalls
  /\ calls' = calls + 1
  /\ run' = [run EXCEPT ![r] = [Idle EXCEPT !.stage = stage, !.key = k, !.credits = c]]
  /\ UNCHANGED <<ledger, balance, faults, blind, stale, died>>

\* A completion from any surface, or the browser's re-post of one on start-up.
Earn(r, k, c) == Begin(r, k, c, "find")

\* Tasks for which another earn has looked under another spelling, found nothing,
\* and not yet inserted.  (A race under one spelling ends in ON CONFLICT.)
Unseen(r) ==
  {t \in Named(run[r].key) :
     \E s \in Run : /\ At(s, "insert")
                    /\ run[s].key # run[r].key
                    /\ t \in Named(run[s].key)}

\* Variant for mutation testing: any credit is topped up.
AnyScore(h, c) == TRUE

BelowScore(h, c) == ledger[h] < c

\* Where an earn goes once it knows the credit there is: nothing to do if that
\* is not below what the completion scores.
Resolved(r, hits, whenNone) ==
  IF hits = {} THEN run' = [run EXCEPT ![r] = whenNone]
  ELSE \E h \in Best(run[r].key, hits) :
         run' = [run EXCEPT ![r] =
           IF BelowScore(h, @.credits)
           THEN [@ EXCEPT !.stage = "raise", !.found = h, !.was = ledger[h]]
           ELSE Idle]

Inserting(r) == [run[r] EXCEPT !.stage = "insert"]

Find(r) ==
  /\ At(r, "find")
  /\ Resolved(r, Credited(run[r].key), Inserting(r))
  /\ blind' = blind \cup Unseen(r)
  /\ UNCHANGED <<ledger, balance, calls, faults, stale, died>>

\* The closure query fails: only the key's own row is looked for.
Fallback == faults < MaxFaults /\ faults' = faults + 1

FindExact(r) ==
  /\ At(r, "find")
  /\ Fallback
  /\ Resolved(r, Rows({run[r].key}), Inserting(r))
  /\ blind' = blind \cup Named(run[r].key)
  /\ UNCHANGED <<ledger, balance, calls, stale, died>>

\* INSERT ... ON CONFLICT DO NOTHING: a lost race is looked into again.
Insert(r) ==
  LET k == run[r].key
  IN  /\ At(r, "insert")
      /\ IF ledger[k] = 0
         THEN /\ ledger' = [ledger EXCEPT ![k] = run[r].credits]
              /\ run' = [run EXCEPT ![r].stage = "bank", ![r].owed = run[r].credits]
         ELSE /\ ledger' = ledger
              /\ run' = [run EXCEPT ![r].stage = "again"]
      /\ UNCHANGED <<balance, calls, faults, blind, stale, died>>

Finished(r) == run' = [run EXCEPT ![r] = Idle]

FindAgain(r) ==
  /\ At(r, "again")
  /\ \/ Resolved(r, Credited(run[r].key), Idle) /\ UNCHANGED faults
     \/ Resolved(r, Rows({run[r].key}), Idle) /\ Fallback
  /\ UNCHANGED <<ledger, balance, calls, blind, stale, died>>

\* Variant for mutation testing: it is not looked whether a row was updated.
RaisedAnyway(h) == TRUE

\* rowCount of the top-up's UPDATE.
RaisedARow(h) == ledger[h] > 0

\* The top-up: the row takes the new delta, the difference to the old one, as it
\* was read, is owed.  A row that vanished meanwhile moves nothing.
Raise(r) ==
  LET h == run[r].found
  IN  /\ At(r, "raise")
      /\ ledger' = [ledger EXCEPT ![h] = IF @ > 0 THEN run[r].credits ELSE 0]
      /\ IF RaisedARow(h)
         THEN run' = [run EXCEPT ![r].stage = "bank",
                                   ![r].owed = run[r].credits - run[r].was]
         ELSE Finished(r)
      /\ stale' = (stale \/ (ledger[h] > 0 /\ ledger[h] # run[r].was))
      /\ UNCHANGED <<balance, calls, faults, blind, died>>

\* UPDATE slot_accounts.
Bank(r) ==
  /\ At(r, "bank")
  /\ balance' = balance + run[r].owed
  /\ Finished(r)
  /\ UNCHANGED <<ledger, calls, faults, blind, stale, died>>

\* The process dies, or a query fails: what has been written stays.
Die(r) ==
  /\ ~At(r, "idle")
  /\ faults < MaxFaults
  /\ faults' = faults + 1
  /\ died' = (died \/ At(r, "bank"))
  /\ Finished(r)
  /\ UNCHANGED <<ledger, balance, calls, blind, stale>>

-----------------------------------------------------------------------------
(***************************************************************************)
(* revokeTaskCredit.                                                       *)
(***************************************************************************)
Revoke(r, k) == Begin(r, k, 0, "find to revoke")

\* Without a credit, or through an exact match only, it is the key's own row.
Target(r, h) == run' = [run EXCEPT ![r].stage = "delete", ![r].found = h]

FindToRevoke(r) ==
  /\ At(r, "find to revoke")
  /\ LET k == run[r].key
         hits == CreditedStrictly(k)
     IN  \/ /\ \E h \in IF hits = {} THEN {k} ELSE Best(k, hits) : Target(r, h)
            /\ UNCHANGED faults
         \/ Target(r, k) /\ Fallback
  /\ UNCHANGED <<ledger, balance, calls, blind, stale, died>>

\* The row goes and the balance with it, in one transaction.
Delete(r) ==
  LET h == run[r].found
  IN  /\ At(r, "delete")
      /\ ledger' = [ledger EXCEPT ![h] = 0]
      /\ balance' = balance - ledger[h]
      /\ Finished(r)
      /\ UNCHANGED <<calls, faults, blind, stale, died>>
-----------------------------------------------------------------------------
Init ==
  /\ ledger = [k \in Key |-> 0]
  /\ balance = 0
  /\ run = [r \in Run |-> Idle]
  /\ calls = 0 /\ faults = 0
  /\ blind = {}
  /\ stale = FALSE /\ died = FALSE

Next ==
  \E r \in Run :
    \/ \E k \in Key, c \in 1..MaxPoints : Earn(r, k, c)
    \/ \E k \in Key : Revoke(r, k)
    \/ Find(r) \/ FindExact(r) \/ Insert(r) \/ FindAgain(r) \/ Raise(r) \/ Bank(r)
    \/ Die(r)
    \/ FindToRevoke(r) \/ Delete(r)

Spec == Init /\ [][Next]_vars
-----------------------------------------------------------------------------
Stage  == {"idle", "find", "insert", "again", "raise", "bank", "find to revoke",
           "delete"}
Points == 0..MaxPoints
Call   == [stage : Stage, key : Key \cup {NoKey}, credits : Points,
           found : Key \cup {NoKey}, was : Points, owed : Points]

\* The shape of every variable; what an earn owes is never negative.
TypeOK ==
  /\ ledger \in [Key -> Points]
  /\ balance \in Int
  /\ run \in [Run -> Call]
  /\ calls \in 0..MaxCalls /\ faults \in 0..MaxFaults
  /\ blind \subseteq Task
  /\ stale \in BOOLEAN /\ died \in BOOLEAN

Total(f, S) == MapThenSumSet(LAMBDA x : f[x], S)
LedgerTotal == Total(ledger, Key)
OwedTotal   == Total([r \in Run |-> run[r].owed], Run)

\* A task is paid under one spelling of its key, whichever surfaces post it and
\* however often: both spellings are in the ledger only if an earn could not see
\* the other's insert, or its closure query failed ("That window is new").
PaidOnce ==
  \A t \in Task \ blind : ledger[t] = 0 \/ ledger[LabelOf[t]] = 0

\* Every point is in the ledger and every ledger row is in the balance, or an
\* earn still owes it; revokes, lost races and vanished rows in between move
\* both sides.  The two ways out are a death between the two writes and a
\* top-up of a row that has changed since it was read.
BalanceExplained ==
  ~died /\ ~stale => balance + OwedTotal = LedgerTotal

\* A revoke takes no other task's credit: the row that goes names no task which
\* the presented key does not name ("an ambiguous un-complete degrades to
\* today's no-op instead of debiting the wrong task").
RevokesItsOwn ==
  [][\A k \in Key : ledger[k] > 0 /\ ledger'[k] = 0 =>
       \E r \in Run : At(r, "delete") /\ Named(k) \subseteq Named(run[r].key)]_vars
=============================================================================
