----------------------------- MODULE Completion -----------------------------
(***************************************************************************)
(* One task row and the tabs that complete and reopen it.                  *)
(*                                                                         *)
(* The server half is db.js: setTaskCompletion (a compare-and-set on the   *)
(* row's completion revision, with an exemption for the mutation that is   *)
(* already on the row) and updateBlock (an ordinary write, which never     *)
(* carries the completion across).  The client half is                     *)
(* public/js/block-store.js: a click writes the intent to a localStorage   *)
(* log shared by the tabs of one browser, changes the tab's cache at once  *)
(* and queues the request behind the earlier ones of the tab; a request    *)
(* that gets no answer leaves its intent in the log for a later replay.    *)
(*                                                                         *)
(* Mutation ids are the positions of the clicks in `clicks`, so a smaller  *)
(* id is an older click; 0 is the id of no mutation.  Revisions are        *)
(* random ids in the code and the naturals here: only their freshness is   *)
(* used.  0 is the missing revision of a row nobody has completed.         *)
(***************************************************************************)
EXTENDS Integers, Sequences, FiniteSets, SequencesExt

CONSTANTS
  Tab,         \* the open tabs
  Browser,     \* the localStorage areas they share
  BrowserOf,   \* the browser of a tab
  MaxClicks,   \* bound: completion clicks, of all tabs together
  MaxFaults,   \* bound: lost requests, lost answers, refused requests, slow
               \* reads, reloads
  MaxEdits,    \* bound: ordinary edits of the row
  StartRows    \* bound: the completion states the row may start in

ASSUME ConstantsAssumption ==
  /\ BrowserOf \in [Tab -> Browser]
  /\ MaxClicks \in Nat /\ MaxClicks <= 50  \* the dead-letter list keeps 50
  /\ MaxFaults \in Nat
  /\ MaxEdits \in Nat
  /\ StartRows \subseteq [done : BOOLEAN, rev : Nat]

VARIABLES
  row,      \* the task row in PostgreSQL
  clicks,   \* every click so far: its tab and the state it asks for
  log,      \* history: the mutations that moved the row, oldest first
  acked,    \* history: the mutations a tab has seen confirmed
  wal,      \* per browser: the completion intent in the write-ahead log
  dead,     \* per browser: the dead-letter list
  cache,    \* per tab: the row as the tab shows it
  fetched,  \* per tab: the row in a slow answer to a read
  base,     \* per tab: the rollback row kept while intents are queued
  chain,    \* per tab: the row's requests in order; the head is being sent
  sent,     \* per tab: the request the head has on the network
  reply,    \* per tab: the server's answer to it, not yet received
  late,     \* requests whose sender has given up but the server may yet serve
  faults    \* how much of MaxFaults is spent

server  == <<row, log>>
client  == <<wal, dead, cache, fetched, base, chain>>
network == <<sent, reply, late, faults>>
vars == <<row, clicks, log, acked, wal, dead, cache, fetched, base, chain, sent,
          reply, late, faults>>

NoEntry == [mut |-> 0, exp |-> 0, preds |-> {}]
NoRow   == [done |-> FALSE, rev |-> -1]
NoReq   == [mut |-> 0, exp |-> 0]
NoReply == [status |-> "none", row |-> NoRow, mut |-> 0]
Refused == [status |-> "refused", row |-> NoRow, mut |-> 0]

Want(m) == clicks[m].want
Home(m) == BrowserOf[clicks[m].tab]

-----------------------------------------------------------------------------
(***************************************************************************)
(* The server.                                                             *)
(***************************************************************************)

\* The request is the one already on the row: a retry after a lost answer.
SameMutation(m) == row.mut = m /\ row.done = Want(m)

\* completedProps and reopenedProps: only a transition gets a new revision
\* (a row that has none gets its first); the request's id is stamped anyway.
Committed(m) ==
  [row EXCEPT !.done = Want(m),
              !.rev  = IF row.done # Want(m) \/ row.rev = 0 THEN row.rev + 1
                                                            ELSE row.rev,
              !.mut  = m]

\* Variant for mutation testing: the revision is not compared.
OutcomeUnchecked(m, exp) == [status |-> "ok", row |-> Committed(m)]

\* setTaskCompletion for a task row.
Outcome(m, exp) ==
  IF SameMutation(m)      THEN [status |-> "ok", row |-> row]
  ELSE IF exp # row.rev   THEN [status |-> "conflict", row |-> row]
                          ELSE [status |-> "ok", row |-> Committed(m)]

Serve(m, exp) ==
  /\ row' = Outcome(m, exp).row
  /\ log' = IF row'.done # row.done THEN Append(log, m) ELSE log
  /\ UNCHANGED <<clicks, acked, client>>

\* The tab's outstanding request reaches the server and is answered.
ServeRequest(t) ==
  /\ sent[t] # NoReq
  /\ reply[t] = NoReply
  /\ Serve(sent[t].mut, sent[t].exp)
  /\ LET out == Outcome(sent[t].mut, sent[t].exp)
     IN  reply' = [reply EXCEPT
           ![t] = [status |-> out.status, mut |-> out.row.mut,
                   row |-> [done |-> out.row.done, rev |-> out.row.rev]]]
  /\ UNCHANGED <<sent, late, faults>>

\* The session has ended: 401 or 403 before the handler runs.
RefuseRequest(t) ==
  /\ sent[t] # NoReq
  /\ reply[t] = NoReply
  /\ faults < MaxFaults
  /\ faults' = faults + 1
  /\ reply' = [reply EXCEPT ![t] = Refused]
  /\ UNCHANGED <<sent, late, clicks, acked, server, client>>

\* A request whose tab has given up on it (or is gone) is served after all.
ServeLate(q) ==
  /\ Serve(q.mut, q.exp)
  /\ late' = late \ {q}
  /\ UNCHANGED <<sent, reply, faults>>

\* Variant for mutation testing: the properties bag is stored as it comes.
PreserveNothing(bag) == bag

\* preserveCompletionProps: the row's own completion fields, whatever the
\* properties bag of an ordinary write says about them.
PreserveCompletion(bag) ==
  [bag EXCEPT !.done = row.done, !.rev = row.rev, !.mut = row.mut]

\* An ordinary edit of a tab replaces the whole properties bag with the one the
\* tab shows, its optimistic or outdated completion fields included.
OrdinaryWrite(t) ==
  /\ row.title < MaxEdits
  /\ row' = PreserveCompletion([done |-> cache[t].done, rev |-> cache[t].rev,
                                mut |-> 0, title |-> row.title + 1])
  /\ UNCHANGED <<clicks, log, acked, client, network>>

-----------------------------------------------------------------------------
(***************************************************************************)
(* The client.                                                             *)
(***************************************************************************)

\* Variant for mutation testing: the cache takes the row as it comes.
OverlayNothing(entry, r) == r

\* overlayPendingCompletion: a pending intent of the browser shows through
\* whatever is written into the cache.
Overlay(entry, r) ==
  IF entry = NoEntry THEN r ELSE [r EXCEPT !.done = Want(entry.mut)]

\* Variant for mutation testing: the predecessor is noted without looking
\* whether there is one.
SupersedingAnything(t, m) ==
  [mut |-> m, exp |-> cache[t].rev,
   preds |-> wal[BrowserOf[t]].preds \cup {wal[BrowserOf[t]].mut}]

\* walPush keeps one completion entry per row: the newest.
Superseding(t, m) ==
  LET old == wal[BrowserOf[t]]
  IN  [mut |-> m, exp |-> cache[t].rev,
       preds |-> IF old = NoEntry THEN {} ELSE old.preds \cup {old.mut}]

\* Variant for mutation testing: an answered intent stays in the log.
WithoutNothing(entry, m) == entry

\* walRemove(walId): only if the log still holds that very entry.
Without(entry, m) == IF entry.mut = m THEN NoEntry ELSE entry

Live(m)       == [kind |-> "live", mut |-> m, exp |-> 0, preds |-> {},
                  again |-> FALSE]
Replay(entry) == [kind |-> "replay", mut |-> entry.mut, exp |-> entry.exp,
                  preds |-> entry.preds, again |-> FALSE]

\* The person toggles the checkbox of a tab.
Click(t) ==
  LET m == Len(clicks) + 1
      b == BrowserOf[t]
      w == ~cache[t].done
  IN  /\ Len(clicks) < MaxClicks
      /\ clicks' = Append(clicks, [tab |-> t, want |-> w])
      /\ wal' = [wal EXCEPT ![b] = Superseding(t, m)]
      /\ base' = [base EXCEPT ![t] = IF @ = NoRow THEN cache[t] ELSE @]
      /\ cache' = [cache EXCEPT ![t].done = w]
      /\ chain' = [chain EXCEPT ![t] = Append(@, Live(m))]
      /\ UNCHANGED <<acked, dead, fetched, server, network>>

\* navigator.locks: one request for the row at a time per browser.
LockFree(t) == \A u \in Tab : BrowserOf[u] = BrowserOf[t] => sent[u] = NoReq

\* A live request reads its revision from the cache when it is sent.
SendLive(t) ==
  LET job == Head(chain[t])
      b   == BrowserOf[t]
  IN  /\ chain[t] # <<>>
      /\ job.kind = "live"
      /\ LockFree(t)
      /\ sent' = [sent EXCEPT ![t] = [mut |-> job.mut, exp |-> cache[t].rev]]
      /\ wal' = [wal EXCEPT
                  ![b] = IF @.mut = job.mut THEN [@ EXCEPT !.exp = cache[t].rev]
                                            ELSE @]
      /\ UNCHANGED <<dead, cache, fetched, base, chain, reply, late, faults,
                     clicks, acked, server>>

\* replayWAL, by any of its triggers (start-up, online, visible, the 30s
\* sweep, the event stream reconnecting): a snapshot of the log is queued.
StartReplay(t) ==
  LET entry == wal[BrowserOf[t]]
  IN  /\ entry # NoEntry
      /\ \A i \in DOMAIN chain[t] : chain[t][i].kind # "replay"
      /\ chain' = [chain EXCEPT ![t] = Append(@, Replay(entry))]
      /\ UNCHANGED <<wal, dead, cache, fetched, base, clicks, acked, server, network>>

SendReplay(t) ==
  LET job == Head(chain[t])
  IN  /\ chain[t] # <<>>
      /\ job.kind = "replay"
      /\ LockFree(t)
      /\ wal[BrowserOf[t]].mut = job.mut
      /\ sent' = [sent EXCEPT ![t] = [mut |-> job.mut, exp |-> job.exp]]
      /\ UNCHANGED <<reply, late, faults, clicks, acked, server, client>>

\* A newer click took the entry's place while the replay waited its turn.
SkipReplay(t) ==
  /\ chain[t] # <<>>
  /\ Head(chain[t]).kind = "replay"
  /\ LockFree(t)
  /\ wal[BrowserOf[t]].mut # Head(chain[t]).mut
  /\ chain' = [chain EXCEPT ![t] = Tail(@)]
  /\ UNCHANGED <<wal, dead, cache, fetched, base, clicks, acked, server, network>>

\* The head of the chain is over.  A live request that leaves the chain empty
\* drops the rollback row.
Finish(t) ==
  /\ chain' = [chain EXCEPT ![t] = Tail(@)]
  /\ sent' = [sent EXCEPT ![t] = NoReq]
  /\ reply' = [reply EXCEPT ![t] = NoReply]

Kept(t, r) ==
  IF Head(chain[t]).kind = "live" /\ Len(chain[t]) = 1 THEN NoRow
  ELSE IF Head(chain[t]).kind = "live" THEN r
  ELSE base[t]

\* The answer confirms the request (or says it was applied before).
ReceiveOk(t) ==
  LET m == sent[t].mut
      b == BrowserOf[t]
  IN  /\ reply[t].status = "ok"
      /\ wal' = [wal EXCEPT ![b] = Without(@, m)]
      /\ cache' = [cache EXCEPT ![t] = Overlay(wal'[b], reply[t].row)]
      /\ base' = [base EXCEPT ![t] = Kept(t, reply[t].row)]
      /\ acked' = acked \cup {m}
      /\ Finish(t)
      /\ UNCHANGED <<clicks, dead, fetched, late, faults, server>>

\* On a conflict a live click takes the server's revision and goes again once,
\* if it is still the browser's newest; a replay does so only over a mutation
\* it was clicked after in the same browser.
MayRetry(t) ==
  LET job == Head(chain[t])
      entry == wal[BrowserOf[t]]
  IN  /\ entry.mut = job.mut
      /\ ~job.again
      /\ job.kind = "replay" => reply[t].mut \in job.preds

Retry(t) ==
  /\ reply[t].status = "conflict"
  /\ MayRetry(t)
  /\ sent' = [sent EXCEPT ![t].exp = reply[t].row.rev]
  /\ reply' = [reply EXCEPT ![t] = NoReply]
  /\ wal' = [wal EXCEPT ![BrowserOf[t]].exp = reply[t].row.rev]
  /\ chain' = [chain EXCEPT ![t][1].again = TRUE]
  /\ UNCHANGED <<clicks, acked, dead, cache, fetched, base, late, faults, server>>

\* Variant for mutation testing: the intent is removed but not kept for review.
BuryQuietly(t, m) ==
  /\ wal' = [wal EXCEPT ![BrowserOf[t]] = Without(@, m)]
  /\ dead' = dead

\* walMoveToDeadLetter: a live request looks its entry up in the log and does
\* nothing if a newer click has replaced it; a replay still has it in hand.
Bury(t, m) ==
  LET b == BrowserOf[t]
      inHand == wal[b].mut = m \/ Head(chain[t]).kind = "replay"
  IN  /\ wal' = [wal EXCEPT ![b] = Without(@, m)]
      /\ dead' = [dead EXCEPT ![b] = IF inHand THEN @ \cup {m} ELSE @]

\* A conflict that may not be retried ends the intent and shows the server's row.
Reject(t) ==
  LET b == BrowserOf[t]
  IN  /\ reply[t].status = "conflict"
      /\ ~MayRetry(t)
      /\ Bury(t, sent[t].mut)
      /\ cache' = [cache EXCEPT ![t] = Overlay(wal'[b], reply[t].row)]
      /\ base' = [base EXCEPT ![t] = Kept(t, reply[t].row)]
      /\ Finish(t)
      /\ UNCHANGED <<clicks, acked, fetched, late, faults, server>>

\* 401 and 403 end a live intent, which rolls back to the kept row; a replay
\* stays queued.
ReceiveRefusal(t) ==
  LET b == BrowserOf[t]
      live == Head(chain[t]).kind = "live"
  IN  /\ reply[t].status = "refused"
      /\ IF live
         THEN /\ Bury(t, sent[t].mut)
              /\ cache' = [cache EXCEPT ![t] = Overlay(wal'[b], base[t])]
         ELSE UNCHANGED <<wal, dead, cache>>
      /\ base' = [base EXCEPT ![t] = Kept(t, base[t])]
      /\ Finish(t)
      /\ UNCHANGED <<clicks, acked, fetched, late, faults, server>>

\* What becomes of an outstanding request when its sender gives up on it.
Abandon(t) ==
  /\ faults < MaxFaults
  /\ faults' = faults + 1
  /\ \/ late' = late
     \/ reply[t] = NoReply /\ sent[t] # NoReq /\ late' = late \cup {sent[t]}

\* The connection fails before the answer arrives: the intent stays pending.
LoseConnection(t) ==
  /\ sent[t] # NoReq
  /\ Abandon(t)
  /\ base' = [base EXCEPT ![t] = Kept(t, base[t])]
  /\ Finish(t)
  /\ UNCHANGED <<wal, dead, cache, fetched, clicks, acked, server>>

\* The tab is closed or crashes and is opened again: only localStorage is left.
Reload(t) ==
  /\ Abandon(t)
  /\ chain' = [chain EXCEPT ![t] = <<>>]
  /\ sent' = [sent EXCEPT ![t] = NoReq]
  /\ reply' = [reply EXCEPT ![t] = NoReply]
  /\ base' = [base EXCEPT ![t] = NoRow]
  /\ fetched' = [fetched EXCEPT ![t] = NoRow]
  /\ cache' = [cache EXCEPT ![t] = Overlay(wal[BrowserOf[t]],
                                           [done |-> row.done, rev |-> row.rev])]
  /\ UNCHANGED <<wal, dead, clicks, acked, server>>

\* handleBlocksChanged or a day load reads the row again.
Refresh(t) ==
  /\ cache[t] # Overlay(wal[BrowserOf[t]], [done |-> row.done, rev |-> row.rev])
  /\ cache' = [cache EXCEPT ![t] = Overlay(wal[BrowserOf[t]],
                                           [done |-> row.done, rev |-> row.rev])]
  /\ UNCHANGED <<wal, dead, fetched, base, chain, clicks, acked, server, network>>

\* The answer to a read is slow: clicks, answers and other refreshes overtake it.
SlowRead(t) ==
  /\ faults < MaxFaults
  /\ faults' = faults + 1
  /\ fetched[t] = NoRow
  /\ fetched' = [fetched EXCEPT ![t] = [done |-> row.done, rev |-> row.rev]]
  /\ UNCHANGED <<wal, dead, cache, base, chain, clicks, acked, server, sent, reply,
                 late>>

\* When it comes it goes into the cache, whatever happened meanwhile.
SlowAnswer(t) ==
  /\ fetched[t] # NoRow
  /\ cache' = [cache EXCEPT ![t] = Overlay(wal[BrowserOf[t]], fetched[t])]
  /\ fetched' = [fetched EXCEPT ![t] = NoRow]
  /\ UNCHANGED <<wal, dead, base, chain, clicks, acked, server, network>>
-----------------------------------------------------------------------------
(***************************************************************************)
(* Specification.                                                          *)
(***************************************************************************)
Init ==
  /\ \E r \in StartRows : row = [done |-> r.done, rev |-> r.rev, mut |-> 0, title |-> 0]
  /\ clicks = <<>>
  /\ log = <<>>
  /\ acked = {}
  /\ wal = [b \in Browser |-> NoEntry]
  /\ dead = [b \in Browser |-> {}]
  /\ cache = [t \in Tab |-> [done |-> row.done, rev |-> row.rev]]
  /\ fetched = [t \in Tab |-> NoRow]
  /\ base = [t \in Tab |-> NoRow]
  /\ chain = [t \in Tab |-> <<>>]
  /\ sent = [t \in Tab |-> NoReq]
  /\ reply = [t \in Tab |-> NoReply]
  /\ late = {}
  /\ faults = 0

\* What happens by itself once it can, without a person or a fault.
Progress(t) ==
  \/ SendLive(t)
  \/ SendReplay(t)
  \/ SkipReplay(t)
  \/ ServeRequest(t)
  \/ ReceiveOk(t)
  \/ Retry(t)
  \/ Reject(t)
  \/ ReceiveRefusal(t)

Next ==
  \/ \E t \in Tab :
       \/ Progress(t)
       \/ Click(t)
       \/ OrdinaryWrite(t)
       \/ StartReplay(t)
       \/ Refresh(t)
       \/ SlowRead(t)
       \/ SlowAnswer(t)
       \/ RefuseRequest(t)
       \/ LoseConnection(t)
       \/ Reload(t)
  \/ \E q \in late : ServeLate(q)

Spec == Init /\ [][Next]_vars

\* Queued requests are sent and answered, the log is swept every 30 seconds,
\* and the tab is told of foreign changes and reads them.
Fairness ==
  \A t \in Tab :
    /\ WF_vars(Progress(t))
    /\ WF_vars(StartReplay(t))
    /\ WF_vars(Refresh(t))
    /\ WF_vars(SlowAnswer(t))

FairSpec == Spec /\ Fairness
-----------------------------------------------------------------------------
(***************************************************************************)
(* Properties.                                                             *)
(***************************************************************************)
Known    == DOMAIN clicks
Row(M)   == [done : BOOLEAN, rev : Nat, mut : M \cup {0}, title : Nat]
Shown    == [done : BOOLEAN, rev : Nat]
Entry(M) == [mut : M, exp : Nat, preds : SUBSET M]
Job(M)   == [kind : {"live", "replay"}, mut : M, exp : Nat, preds : SUBSET M,
             again : BOOLEAN]
Req(M)   == [mut : M, exp : Nat]
Answer(M) == [status : {"ok", "conflict"}, row : Shown, mut : M \cup {0}]

ClicksOK ==
  /\ clicks \in Seq([tab : Tab, want : BOOLEAN])
  /\ Len(clicks) <= MaxClicks
  /\ acked \subseteq Known
ServerOK ==
  /\ row \in Row(Known)
  /\ log \in Seq(Known)
ClientOK ==
  /\ wal \in [Browser -> Entry(Known) \cup {NoEntry}]
  /\ dead \in [Browser -> SUBSET Known]
  /\ cache \in [Tab -> Shown]
  /\ fetched \in [Tab -> Shown \cup {NoRow}]
  /\ base \in [Tab -> Shown \cup {NoRow}]
  /\ chain \in [Tab -> Seq(Job(Known))]
NetworkOK ==
  /\ sent \in [Tab -> Req(Known) \cup {NoReq}]
  /\ reply \in [Tab -> Answer(Known) \cup {NoReply, Refused}]
  /\ late \subseteq Req(Known)
  /\ faults \in 0..MaxFaults

\* The shape of every variable: a mutation id is that of a click that was made,
\* and a confirmation or a conflict carries a row.
TypeOK == ClicksOK /\ ServerOK /\ ClientOK /\ NetworkOK

\* No completion click vanishes: setTaskCompletion writes it to the log before
\* anything else, and from then on it was confirmed to a tab, or is still in the
\* log of its browser, or is in the dead-letter list, or gave way to a newer
\* click of the same browser (walPush keeps the newest).  Crashes, lost answers
\* and the races of live requests with replays are all in between.
Accounted ==
  \A m \in DOMAIN clicks :
    \/ m \in acked
    \/ wal[Home(m)].mut = m
    \/ m \in dead[Home(m)]
    \/ \E n \in DOMAIN clicks : n > m /\ Home(n) = Home(m)

\* The clicks of one browser move the row in the order they were made, whatever
\* is retried, replayed or served late: the revision check of setTaskCompletion
\* makes an overtaken click fail.  (It holds while every browser has one tab.)
LogInClickOrder ==
  \A i, j \in DOMAIN log :
    i < j /\ Home(log[i]) = Home(log[j]) => log[i] < log[j]

\* A tab goes on showing its own pending intent, whatever older rows the
\* answers, conflicts and refreshes in between put into its cache.
ShowsPending ==
  \A t \in Tab :
    LET m == wal[BrowserOf[t]].mut
    IN  m # 0 /\ clicks[m].tab = t => cache[t].done = Want(m)

\* Only a completion click moves the row, and to the state it asked for: not an
\* ordinary write that carries a tab's optimistic or outdated fields, not a
\* retry, and no step moves it twice (setTaskCompletion, preserveCompletionProps).
MovedAsAsked ==
  [][/\ row'.done # row.done =>
          \E m \in DOMAIN clicks : log' = Append(log, m) /\ row'.done = Want(m)
     /\ row'.done = row.done => log' = log]_vars

\* setTaskCompletion and updateBlock implement the promised register: only
\* completion clicks move the row, each at most once (a retry of an applied
\* mutation is recognised), each to the state it asked for; an ordinary write
\* with outdated completion fields moves nothing.
Register == INSTANCE CompletionRegister WITH
  wanted <- [i \in DOMAIN clicks |-> clicks[i].want],
  value  <- row.done,
  moved  <- ToSet(log)
RegisterSpec == Register!Spec

\* Item 2 of COMPLETION-PERSISTENCE-PLAN.md: lost acknowledgements cannot
\* reverse user intent.  Once a tab has seen its browser's click confirmed, no
\* older click of that browser moves the row.
NewestIntentStands ==
  [][row.done' # row.done =>
       \A n \in acked : Home(n) = Home(Last(log')) => n <= Last(log')]_vars

Settled ==
  \A t \in Tab : /\ wal[BrowserOf[t]] = NoEntry
                 /\ chain[t] = <<>>
                 /\ cache[t].done = row.done

\* When the person stops clicking and the faults stop, every log drains, every
\* queue empties and every tab ends up showing what the server stores.
Settles == <>[]Settled
=============================================================================
