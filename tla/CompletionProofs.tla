-------------------------- MODULE CompletionProofs --------------------------
(***************************************************************************)
(* Proofs about Completion, for any tabs, browsers, bounds and any way the *)
(* tabs share browsers.                                                    *)
(***************************************************************************)
EXTENDS Completion, SequenceTheorems, TLAPS

\* What a tab's request, answer and rollback row have to do with its queue: only
\* the head of the queue is on the network, only a request is answered, and
\* while a live click is queued there is a row to roll back to.
QueueOK ==
  \A t \in Tab :
    /\ sent[t] # NoReq => chain[t] # <<>>
    /\ reply[t] # NoReply => sent[t] # NoReq
    /\ base[t] = NoRow => \A i \in DOMAIN chain[t] : chain[t][i].kind # "live"

IInv == TypeOK /\ QueueOK

-----------------------------------------------------------------------------
(***************************************************************************)
(* The helpers of the client and the server.                               *)
(***************************************************************************)
LEMMA WantType ==
  ASSUME ClicksOK, NEW m \in Known
  PROVE  Want(m) \in BOOLEAN
<1> DEFINE Made == [tab : Tab, want : BOOLEAN]
<1>1. clicks \in Seq(Made)
  BY DEF ClicksOK
<1>2. m \in 1..Len(clicks)
  BY <1>1, LenProperties DEF Known
<1>3. clicks[m] \in Made
  BY <1>1, <1>2, ElementOfSeq
<1> QED
  BY <1>3 DEF Want

\* An overlaid row is a row a tab can show.
LEMMA OverlayType ==
  ASSUME ClicksOK, NEW e \in Entry(Known) \cup {NoEntry}, NEW r \in Shown
  PROVE  Overlay(e, r) \in Shown
<1>1. CASE e = NoEntry
  BY <1>1 DEF Overlay
<1>2. CASE e # NoEntry
  <2>1. e.mut \in Known
    BY <1>2 DEF Entry
  <2>2. Want(e.mut) \in BOOLEAN
    BY <2>1, WantType
  <2> QED
    BY <1>2, <2>2 DEF Overlay, Shown
<1> QED
  BY <1>1, <1>2

LEMMA WithoutType ==
  ASSUME NEW e \in Entry(Known) \cup {NoEntry}, NEW m
  PROVE  Without(e, m) \in Entry(Known) \cup {NoEntry}
BY DEF Without

\* The row a tab falls back to is one it can show, or none.
LEMMA KeptType ==
  ASSUME ClientOK, NEW t \in Tab, NEW r \in Shown \cup {NoRow}
  PROVE  Kept(t, r) \in Shown \cup {NoRow}
BY DEF ClientOK, Kept

\* The answer of setTaskCompletion carries a row, with the mutation of a click.
LEMMA OutcomeType ==
  ASSUME ClicksOK, ServerOK, NEW m \in Known, NEW exp
  PROVE  /\ Outcome(m, exp).status \in {"ok", "conflict"}
         /\ Outcome(m, exp).row \in Row(Known)
<1>1. row \in Row(Known)
  BY DEF ServerOK
<1>2. Want(m) \in BOOLEAN
  BY WantType
<1>3. Committed(m) \in Row(Known)
  <2> DEFINE rev == IF row.done # Want(m) \/ row.rev = 0 THEN row.rev + 1 ELSE row.rev
  <2>1. rev \in Nat
    BY <1>1 DEF Row
  <2>2. Committed(m) = [row EXCEPT !.done = Want(m), !.rev = rev, !.mut = m]
    BY DEF Committed
  <2> HIDE DEF rev
  <2> QED
    BY <1>1, <1>2, <2>1, <2>2 DEF Row
<1> QED
  BY <1>1, <1>3 DEF Outcome

\* A served request leaves a row and a log of clicks.
LEMMA ServeType ==
  ASSUME ClicksOK, ServerOK, NEW m \in Known, NEW exp, Serve(m, exp)
  PROVE  row' \in Row(Known) /\ log' \in Seq(Known)
<1>1. row' \in Row(Known)
  BY OutcomeType DEF Serve
<1>2. log \in Seq(Known)
  BY DEF ServerOK
<1> QED
  BY <1>1, <1>2, AppendProperties DEF Serve

\* A queue of jobs without its head is a queue of jobs.
LEMMA FinishType ==
  ASSUME ClientOK, NetworkOK, NEW t \in Tab, chain[t] # <<>>, Finish(t)
  PROVE  /\ chain' \in [Tab -> Seq(Job(Known))]
         /\ sent' \in [Tab -> Req(Known) \cup {NoReq}]
         /\ reply' \in [Tab -> Answer(Known) \cup {NoReply, Refused}]
<1>1. chain[t] \in Seq(Job(Known))
  BY DEF ClientOK
<1>2. Tail(chain[t]) \in Seq(Job(Known))
  BY <1>1, HeadTailProperties
<1> QED
  BY <1>2 DEF ClientOK, NetworkOK, Finish

-----------------------------------------------------------------------------
(***************************************************************************)
(* Type correctness.                                                       *)
(***************************************************************************)
LEMMA TypeInit == Init => TypeOK
<1> SUFFICES ASSUME Init PROVE TypeOK
  OBVIOUS
<1>1. ClicksOK
  BY ConstantsAssumption DEF Init, ClicksOK, Known
<1>2. ServerOK
  BY ConstantsAssumption DEF Init, ServerOK, Row
<1>3. ClientOK
  <2>1. row.done \in BOOLEAN /\ row.rev \in Nat
    BY ConstantsAssumption DEF Init
  <2>2. cache \in [Tab -> Shown]
    BY <2>1 DEF Init, Shown
  <2> QED
    BY <2>2 DEF Init, ClientOK
<1>4. NetworkOK
  BY ConstantsAssumption DEF Init, NetworkOK
<1> QED
  BY <1>1, <1>2, <1>3, <1>4 DEF TypeOK

\* A click makes its own mutation known, and what was known stays so.
LEMMA ClickType ==
  ASSUME TypeOK, NEW t \in Tab, Click(t)
  PROVE  TypeOK'
<1> DEFINE m == Len(clicks) + 1
           b == BrowserOf[t]
<1> USE DEF TypeOK
<1>b. b \in Browser
  BY ConstantsAssumption
<1>c. cache[t] \in Shown
  BY DEF ClientOK
<1>w. (~cache[t].done) \in BOOLEAN
  BY <1>c DEF Shown
<1>1. /\ clicks' \in Seq([tab : Tab, want : BOOLEAN])
      /\ Len(clicks') = m
      /\ Known = 1..Len(clicks) /\ Known' = 1..m
      /\ Len(clicks) \in Nat
  <2>1. clicks' = Append(clicks, [tab |-> t, want |-> ~cache[t].done])
    BY DEF Click
  <2> QED
    BY <2>1, AppendProperties, LenProperties DEF ClicksOK, Known
<1>2. Known \subseteq Known' /\ m \in Known'
  BY <1>1
<1>3. /\ Entry(Known) \subseteq Entry(Known')
      /\ Job(Known) \subseteq Job(Known')
      /\ Req(Known) \subseteq Req(Known')
      /\ Answer(Known) \subseteq Answer(Known')
      /\ Row(Known) \subseteq Row(Known')
  BY <1>2 DEF Entry, Job, Req, Answer, Row
<1>4. ClicksOK'
  BY <1>1, <1>2, ConstantsAssumption DEF Click, ClicksOK
<1>5. ServerOK'
  <2>1. log \in Seq(Known')
    BY <1>2, SeqMonotonic DEF ServerOK
  <2> QED
    BY <1>3, <2>1 DEF Click, ServerOK, server
<1>6. NetworkOK'
  BY <1>3 DEF Click, NetworkOK, network
<1>7. ClientOK'
  <2>1. Superseding(t, m) \in Entry(Known')
    <3>1. wal[b] \in Entry(Known) \cup {NoEntry}
      BY <1>b DEF ClientOK
    <3>2. (IF wal[b] = NoEntry THEN {} ELSE wal[b].preds \cup {wal[b].mut})
            \in SUBSET Known'
      BY <3>1, <1>2 DEF Entry
    <3> QED
      BY <3>2, <1>2, <1>c DEF Superseding, Entry, Shown
  <2>2. wal' \in [Browser -> Entry(Known') \cup {NoEntry}]
    BY <1>3, <2>1 DEF Click, ClientOK
  <2>3. cache' \in [Tab -> Shown]
    BY <1>c, <1>w DEF Click, ClientOK, Shown
  <2>4. base' \in [Tab -> Shown \cup {NoRow}]
    BY <1>c DEF Click, ClientOK
  <2>5. chain' \in [Tab -> Seq(Job(Known'))]
    <3>1. Live(m) \in Job(Known')
      BY <1>2 DEF Live, Job
    <3>2. \A u \in Tab : chain[u] \in Seq(Job(Known'))
      BY <1>3, SeqMonotonic DEF ClientOK
    <3>3. Append(chain[t], Live(m)) \in Seq(Job(Known'))
      BY <3>1, <3>2, AppendProperties
    <3> QED
      BY <3>2, <3>3 DEF Click, ClientOK
  <2>6. dead' \in [Browser -> SUBSET Known']
    BY <1>2 DEF Click, ClientOK
  <2>7. fetched' \in [Tab -> Shown \cup {NoRow}]
    BY DEF Click, ClientOK
  <2> QED
    BY <2>2, <2>3, <2>4, <2>5, <2>6, <2>7 DEF ClientOK
<1> QED
  BY <1>4, <1>5, <1>6, <1>7

\* The head of a queue is a job.
LEMMA HeadType ==
  ASSUME ClientOK, NEW t \in Tab, chain[t] # <<>>
  PROVE  /\ Head(chain[t]) \in Job(Known)
         /\ 1 \in DOMAIN chain[t]
         /\ Head(chain[t]) = chain[t][1]
<1>1. chain[t] \in Seq(Job(Known))
  BY DEF ClientOK
<1>2. Len(chain[t]) \in Nat \ {0} /\ DOMAIN chain[t] = 1..Len(chain[t])
  BY <1>1, EmptySeq, LenProperties
<1> QED
  BY <1>1, <1>2, HeadTailProperties

\* The server's answer to a request of a tab.
LEMMA ServeRequestType ==
  ASSUME TypeOK, NEW t \in Tab, ServeRequest(t)
  PROVE  TypeOK'
<1> DEFINE out == Outcome(sent[t].mut, sent[t].exp)
<1> USE DEF TypeOK
<1>1. clicks' = clicks /\ Known' = Known
  BY DEF ServeRequest, Serve, Known
<1>2. sent[t].mut \in Known
  BY DEF ServeRequest, NetworkOK, Req
<1>3. ServerOK'
  BY <1>1, <1>2, ServeType DEF ServeRequest, ServerOK
<1>4. NetworkOK'
  <2> DEFINE a == [status |-> out.status, mut |-> out.row.mut,
                   row |-> [done |-> out.row.done, rev |-> out.row.rev]]
  <2>1. out.status \in {"ok", "conflict"} /\ out.row \in Row(Known)
    BY <1>2, OutcomeType
  <2> HIDE DEF out
  <2>2. a \in Answer(Known)
    BY <2>1 DEF Answer, Row, Shown
  <2>3. reply' = [reply EXCEPT ![t] = a]
    BY DEF ServeRequest, out
  <2> QED
    BY <1>1, <2>2, <2>3 DEF NetworkOK, ServeRequest
<1>5. ClicksOK' /\ ClientOK'
  BY <1>1 DEF ServeRequest, Serve, ClicksOK, ClientOK, client
<1> QED
  BY <1>3, <1>4, <1>5

\* The server serves a request nobody waits for.
LEMMA ServeLateType ==
  ASSUME TypeOK, NEW q \in late, ServeLate(q)
  PROVE  TypeOK'
<1> USE DEF TypeOK
<1>1. clicks' = clicks /\ Known' = Known
  BY DEF ServeLate, Serve, Known
<1>2. q.mut \in Known
  BY DEF NetworkOK, Req
<1>3. ServerOK'
  BY <1>1, <1>2, ServeType DEF ServeLate, ServerOK
<1>4. NetworkOK'
  BY <1>1 DEF ServeLate, NetworkOK
<1>5. ClicksOK' /\ ClientOK'
  BY <1>1 DEF ServeLate, Serve, ClicksOK, ClientOK, client
<1> QED
  BY <1>3, <1>4, <1>5

\* A refusal, and an ordinary write of the row.
LEMMA RefuseAndWriteType ==
  ASSUME TypeOK, NEW t \in Tab, RefuseRequest(t) \/ OrdinaryWrite(t)
  PROVE  TypeOK'
<1> USE DEF TypeOK
<1>1. clicks' = clicks /\ Known' = Known
  BY DEF RefuseRequest, OrdinaryWrite, Known
<1>2. ClicksOK' /\ ClientOK'
  BY <1>1 DEF RefuseRequest, OrdinaryWrite, ClicksOK, ClientOK, client
<1>3. CASE RefuseRequest(t)
  <2>1. faults' \in 0..MaxFaults
    BY <1>3, ConstantsAssumption DEF RefuseRequest, NetworkOK
  <2> QED
    BY <1>1, <1>2, <1>3, <2>1 DEF RefuseRequest, NetworkOK, ServerOK, server
<1>4. CASE OrdinaryWrite(t)
  <2>1. row' \in Row(Known)
    <3>1. row.done \in BOOLEAN /\ row.rev \in Nat /\ row.mut \in Known \cup {0}
          /\ row.title + 1 \in Nat
      BY DEF ServerOK, Row
    <3>2. row' = [done |-> row.done, rev |-> row.rev, mut |-> row.mut,
                  title |-> row.title + 1]
      BY <1>4 DEF OrdinaryWrite, PreserveCompletion
    <3> QED
      BY <3>1, <3>2 DEF Row
  <2> QED
    BY <1>1, <1>2, <1>4, <2>1 DEF OrdinaryWrite, ServerOK, NetworkOK, network
<1> QED
  BY <1>3, <1>4

\* Queued jobs are put on the network, replays queued and skipped.
LEMMA SendType ==
  ASSUME TypeOK, NEW t \in Tab,
         SendLive(t) \/ SendReplay(t) \/ StartReplay(t) \/ SkipReplay(t)
  PROVE  TypeOK'
<1> DEFINE b == BrowserOf[t]
<1> USE DEF TypeOK
<1>1. clicks' = clicks /\ Known' = Known
  BY DEF SendLive, SendReplay, StartReplay, SkipReplay, Known, client
<1>2. ClicksOK' /\ ServerOK'
  BY <1>1 DEF SendLive, SendReplay, StartReplay, SkipReplay, ClicksOK, ServerOK,
              server, client
<1>b. b \in Browser /\ wal[b] \in Entry(Known) \cup {NoEntry}
  BY ConstantsAssumption DEF ClientOK
<1>3. CASE SendLive(t)
  <2>1. Head(chain[t]).mut \in Known /\ cache[t].rev \in Nat
    BY <1>3, HeadType DEF SendLive, ClientOK, Job, Shown
  <2>2. sent' \in [Tab -> Req(Known) \cup {NoReq}]
    BY <1>3, <2>1 DEF SendLive, NetworkOK, Req
  <2>3. wal' \in [Browser -> Entry(Known) \cup {NoEntry}]
    <3>0. 0 \notin Known
      BY LenProperties DEF ClicksOK, Known
    <3>1. (IF wal[b].mut = Head(chain[t]).mut THEN [wal[b] EXCEPT !.exp = cache[t].rev]
                                             ELSE wal[b]) \in Entry(Known) \cup {NoEntry}
      BY <1>b, <2>1, <3>0 DEF Entry, NoEntry
    <3> QED
      BY <1>3, <1>b, <3>1 DEF SendLive, ClientOK
  <2> QED
    BY <1>1, <1>2, <1>3, <2>2, <2>3 DEF SendLive, ClientOK, NetworkOK
<1>4. CASE SendReplay(t)
  <2>1. [mut |-> Head(chain[t]).mut, exp |-> Head(chain[t]).exp] \in Req(Known)
    BY <1>4, HeadType DEF SendReplay, Job, Req
  <2>2. sent' \in [Tab -> Req(Known) \cup {NoReq}]
    BY <1>4, <2>1 DEF SendReplay, NetworkOK
  <2> QED
    BY <1>1, <1>2, <1>4, <2>2 DEF SendReplay, ClientOK, NetworkOK, client
<1>5. CASE StartReplay(t)
  <2>1. Replay(wal[b]) \in Job(Known)
    BY <1>5, <1>b DEF StartReplay, Replay, Entry, Job
  <2>2. Append(chain[t], Replay(wal[b])) \in Seq(Job(Known))
    BY <2>1, AppendProperties DEF ClientOK
  <2> QED
    BY <1>1, <1>2, <1>5, <2>2 DEF StartReplay, ClientOK, NetworkOK, network
<1>6. CASE SkipReplay(t)
  <2>1. Tail(chain[t]) \in Seq(Job(Known))
    BY <1>6, HeadTailProperties DEF SkipReplay, ClientOK
  <2> QED
    BY <1>1, <1>2, <1>6, <2>1 DEF SkipReplay, ClientOK, NetworkOK, network
<1> QED
  BY <1>3, <1>4, <1>5, <1>6

\* The answer of an outstanding request, and where it goes.
LEMMA AnswerFacts ==
  ASSUME IInv, NEW t \in Tab, reply[t] # NoReply
  PROVE  /\ sent[t] \in Req(Known)
         /\ chain[t] # <<>>
         /\ BrowserOf[t] \in Browser
         /\ wal[BrowserOf[t]] \in Entry(Known) \cup {NoEntry}
<1>1. sent[t] # NoReq /\ chain[t] # <<>>
  BY DEF IInv, QueueOK
<1> QED
  BY <1>1, ConstantsAssumption DEF IInv, TypeOK, ClientOK, NetworkOK

LEMMA AnsweredRow ==
  ASSUME NetworkOK, NEW t \in Tab, reply[t].status \in {"ok", "conflict"}
  PROVE  reply[t] # NoReply /\ reply[t].row \in Shown
<1>1. reply[t] \in Answer(Known)
  BY DEF NetworkOK, NoReply, Refused
<1> QED
  BY <1>1 DEF Answer, NoReply

\* A confirmation or a rejection: the answered row goes into the cache.
LEMMA ReceiveType ==
  ASSUME IInv, NEW t \in Tab, ReceiveOk(t) \/ Reject(t)
  PROVE  TypeOK'
<1> DEFINE b == BrowserOf[t]
<1> USE DEF IInv, TypeOK
<1>1. clicks' = clicks /\ Known' = Known
  BY DEF ReceiveOk, Reject, Known
<1>2. reply[t] # NoReply /\ reply[t].row \in Shown
  BY AnsweredRow DEF ReceiveOk, Reject
<1>3. /\ sent[t] \in Req(Known)
      /\ chain[t] # <<>>
      /\ b \in Browser
      /\ wal[b] \in Entry(Known) \cup {NoEntry}
  BY <1>2, AnswerFacts
<1>4. ServerOK'
  BY <1>1 DEF ReceiveOk, Reject, ServerOK, server
<1>5. ClicksOK'
  BY <1>1, <1>3 DEF ReceiveOk, Reject, ClicksOK, Req
<1>6. Finish(t) /\ late' = late /\ faults' = faults
  BY DEF ReceiveOk, Reject
<1>7. NetworkOK'
  BY <1>1, <1>3, <1>6, FinishType DEF NetworkOK
<1>8. ClientOK'
  <2>1. chain' \in [Tab -> Seq(Job(Known))]
    BY <1>3, <1>6, FinishType
  <2>2. wal' \in [Browser -> Entry(Known) \cup {NoEntry}]
        /\ wal'[b] \in Entry(Known) \cup {NoEntry}
    <3>1. wal' = [wal EXCEPT ![b] = Without(@, sent[t].mut)]
      BY DEF ReceiveOk, Reject, Bury
    <3>2. Without(wal[b], sent[t].mut) \in Entry(Known) \cup {NoEntry}
      BY <1>3, WithoutType
    <3> QED
      BY <1>3, <3>1, <3>2 DEF ClientOK
  <2>3. dead' \in [Browser -> SUBSET Known]
    <3>1. sent[t].mut \in Known /\ dead \in [Browser -> SUBSET Known]
      BY <1>3 DEF ClientOK, Req
    <3>2. \/ dead' = dead
          \/ dead' = [dead EXCEPT ![b] = dead[b] \cup {sent[t].mut}]
      BY <3>1 DEF ReceiveOk, Reject, Bury
    <3> QED
      BY ONLY <1>3, <3>1, <3>2
  <2>4. cache' \in [Tab -> Shown]
    <3>1. Overlay(wal'[b], reply[t].row) \in Shown
      BY <1>2, <2>2, OverlayType
    <3> QED
      BY <3>1 DEF ReceiveOk, Reject, ClientOK
  <2>5. base' \in [Tab -> Shown \cup {NoRow}]
    <3>1. base' = [base EXCEPT ![t] = Kept(t, reply[t].row)]
      BY DEF ReceiveOk, Reject
    <3>2. Kept(t, reply[t].row) \in Shown \cup {NoRow}
      BY <1>2, KeptType
    <3>3. base \in [Tab -> Shown \cup {NoRow}]
      BY DEF ClientOK
    <3> QED
      BY ONLY <3>1, <3>2, <3>3
  <2>6. fetched' \in [Tab -> Shown \cup {NoRow}]
    BY DEF ReceiveOk, Reject, ClientOK
  <2> QED
    BY <1>1, <2>1, <2>2, <2>3, <2>4, <2>5, <2>6 DEF ClientOK
<1> QED
  BY <1>4, <1>5, <1>7, <1>8

\* A conflict that is tried again with the server's revision.
LEMMA RetryType ==
  ASSUME IInv, NEW t \in Tab, Retry(t)
  PROVE  TypeOK'
<1> DEFINE b == BrowserOf[t]
<1> USE DEF IInv, TypeOK
<1>1. clicks' = clicks /\ Known' = Known
  BY DEF Retry, Known
<1>2. reply[t] # NoReply /\ reply[t].row.rev \in Nat
  BY AnsweredRow DEF Retry, Shown
<1>3. /\ sent[t] \in Req(Known)
      /\ chain[t] # <<>>
      /\ b \in Browser
      /\ wal[b] \in Entry(Known) \cup {NoEntry}
  BY <1>2, AnswerFacts
<1>4. Head(chain[t]) \in Job(Known) /\ 1 \in DOMAIN chain[t]
      /\ Head(chain[t]) = chain[t][1]
  BY <1>3, HeadType
<1>5. ClicksOK' /\ ServerOK'
  BY <1>1 DEF Retry, ClicksOK, ServerOK, server
<1>6. NetworkOK'
  BY <1>1, <1>2, <1>3 DEF Retry, NetworkOK, Req
<1>7. ClientOK'
  <2>1. wal[b] \in Entry(Known)
    <3>1. 0 \notin Known
      BY LenProperties DEF ClicksOK, Known
    <3> QED
      BY <1>3, <1>4, <3>1 DEF Retry, MayRetry, NoEntry, Job
  <2>2. wal' \in [Browser -> Entry(Known) \cup {NoEntry}]
    BY <1>2, <1>3, <2>1 DEF Retry, ClientOK, Entry
  <2>3. [chain[t] EXCEPT ![1] = [Head(chain[t]) EXCEPT !.again = TRUE]] \in Seq(Job(Known))
    <3>1. [Head(chain[t]) EXCEPT !.again = TRUE] \in Job(Known)
      BY <1>4 DEF Job
    <3>2. chain[t] \in Seq(Job(Known)) /\ 1 \in 1..Len(chain[t])
      BY <1>4, LenProperties DEF ClientOK
    <3> QED
      BY <3>1, <3>2, ExceptSeq
  <2>4. chain' \in [Tab -> Seq(Job(Known))]
    BY <1>4, <2>3 DEF Retry, ClientOK
  <2> QED
    BY <1>1, <2>2, <2>4 DEF Retry, ClientOK
<1> QED
  BY <1>5, <1>6, <1>7

\* A refusal: a live intent is rolled back to the kept row, which is there.
LEMMA RefusalType ==
  ASSUME IInv, NEW t \in Tab, ReceiveRefusal(t)
  PROVE  TypeOK'
<1> DEFINE b == BrowserOf[t]
<1> USE DEF IInv, TypeOK
<1>1. clicks' = clicks /\ Known' = Known
  BY DEF ReceiveRefusal, Known
<1>2. reply[t] # NoReply
  BY DEF ReceiveRefusal, NoReply
<1>3. /\ sent[t] \in Req(Known)
      /\ chain[t] # <<>>
      /\ b \in Browser
      /\ wal[b] \in Entry(Known) \cup {NoEntry}
  BY <1>2, AnswerFacts
<1>4. ClicksOK' /\ ServerOK'
  BY <1>1 DEF ReceiveRefusal, ClicksOK, ServerOK, server
<1>5. Finish(t) /\ late' = late /\ faults' = faults
  BY DEF ReceiveRefusal
<1>6. NetworkOK'
  BY <1>1, <1>3, <1>5, FinishType DEF NetworkOK
<1>7. chain' \in [Tab -> Seq(Job(Known))]
  BY <1>3, <1>5, FinishType
<1>8. base' \in [Tab -> Shown \cup {NoRow}]
  <2>1. base[t] \in Shown \cup {NoRow}
    BY DEF ClientOK
  <2> QED
    BY <2>1, KeptType DEF ReceiveRefusal, ClientOK
<1>9. CASE Head(chain[t]).kind = "live"
  <2>1. Bury(t, sent[t].mut) /\ cache' = [cache EXCEPT ![t] = Overlay(wal'[b], base[t])]
    BY <1>9 DEF ReceiveRefusal
  <2>2. base[t] \in Shown
    <3>1. chain[t][1].kind = "live" /\ 1 \in DOMAIN chain[t]
      BY <1>3, <1>9, HeadType
    <3> QED
      BY <3>1 DEF QueueOK, ClientOK
  <2>3. Without(wal[b], sent[t].mut) \in Entry(Known) \cup {NoEntry}
    BY <1>3, WithoutType
  <2>4. wal' \in [Browser -> Entry(Known) \cup {NoEntry}]
        /\ wal'[b] \in Entry(Known) \cup {NoEntry}
    BY <1>3, <2>1, <2>3 DEF Bury, ClientOK
  <2>5. dead' \in [Browser -> SUBSET Known]
    BY <1>3, <2>1 DEF Bury, ClientOK, Req
  <2>6. Overlay(wal'[b], base[t]) \in Shown
    BY <2>2, <2>4, OverlayType
  <2>7. cache' \in [Tab -> Shown]
    BY <2>1, <2>6 DEF ClientOK
  <2>8. fetched' \in [Tab -> Shown \cup {NoRow}]
    BY DEF ReceiveRefusal, ClientOK
  <2> QED
    BY <1>1, <1>4, <1>6, <1>7, <1>8, <2>4, <2>5, <2>7, <2>8 DEF ClientOK
<1>10. CASE Head(chain[t]).kind # "live"
  BY <1>1, <1>4, <1>6, <1>7, <1>8, <1>10 DEF ReceiveRefusal, ClientOK
<1> QED
  BY <1>9, <1>10

\* A tab gives up on its request, is opened again, or reads the row again.
LEMMA GiveUpType ==
  ASSUME IInv, NEW t \in Tab,
         \/ LoseConnection(t) \/ Reload(t) \/ Refresh(t)
         \/ SlowRead(t) \/ SlowAnswer(t)
  PROVE  TypeOK'
<1> DEFINE b == BrowserOf[t]
           shown == Overlay(wal[b], [done |-> row.done, rev |-> row.rev])
<1> USE DEF IInv, TypeOK
<1>1. clicks' = clicks /\ Known' = Known
  BY DEF LoseConnection, Reload, Refresh, SlowRead, SlowAnswer, Known
<1>2. ClicksOK' /\ ServerOK'
  BY <1>1 DEF LoseConnection, Reload, Refresh, SlowRead, SlowAnswer, ClicksOK,
              ServerOK, server
<1>3. b \in Browser /\ wal[b] \in Entry(Known) \cup {NoEntry}
  BY ConstantsAssumption DEF ClientOK
<1>4. shown \in Shown
  <2>1. [done |-> row.done, rev |-> row.rev] \in Shown
    BY DEF ServerOK, Row, Shown
  <2> QED
    BY <1>3, <2>1, OverlayType
<1> HIDE DEF shown
<1>5. ASSUME Abandon(t)
      PROVE  late' \subseteq Req(Known) /\ faults' \in 0..MaxFaults
  <2>1. late' \subseteq late \cup {sent[t]} /\ (late' = late \/ sent[t] # NoReq)
    BY <1>5 DEF Abandon
  <2>2. faults < MaxFaults /\ faults' = faults + 1
    BY <1>5 DEF Abandon
  <2> QED
    BY <2>1, <2>2, ConstantsAssumption DEF NetworkOK
<1>6. CASE LoseConnection(t)
  <2>1. chain[t] # <<>>
    BY <1>6 DEF LoseConnection, QueueOK
  <2>2. base[t] \in Shown \cup {NoRow}
    BY DEF ClientOK
  <2>3. base' \in [Tab -> Shown \cup {NoRow}]
    BY <1>6, <2>2, KeptType DEF LoseConnection, ClientOK
  <2>4. Finish(t) /\ Abandon(t)
    BY <1>6 DEF LoseConnection
  <2>5. NetworkOK'
    BY <1>1, <1>5, <2>1, <2>4, FinishType DEF NetworkOK
  <2>6. chain' \in [Tab -> Seq(Job(Known))]
    BY <2>1, <2>4, FinishType
  <2>7. ClientOK'
    BY <1>1, <1>6, <2>3, <2>6 DEF LoseConnection, ClientOK
  <2> QED
    BY <1>2, <2>5, <2>7
<1>7. CASE Reload(t)
  <2>1. NetworkOK'
    BY <1>1, <1>5, <1>7 DEF Reload, NetworkOK
  <2>2. cache' \in [Tab -> Shown]
    BY <1>4, <1>7 DEF Reload, ClientOK, shown
  <2>3. chain' \in [Tab -> Seq(Job(Known))]
    BY <1>7, EmptySeq DEF Reload, ClientOK
  <2>4. ClientOK'
    BY <1>1, <1>7, <2>2, <2>3 DEF Reload, ClientOK
  <2> QED
    BY <1>2, <2>1, <2>4
<1>8. CASE Refresh(t)
  <2>1. cache' \in [Tab -> Shown]
    BY <1>4, <1>8 DEF Refresh, ClientOK, shown
  <2> QED
    BY <1>1, <1>2, <1>8, <2>1 DEF Refresh, ClientOK, NetworkOK, network
<1>9. CASE SlowRead(t)
  <2>1. [done |-> row.done, rev |-> row.rev] \in Shown
    BY DEF ServerOK, Row, Shown
  <2>2. fetched' \in [Tab -> Shown \cup {NoRow}]
    BY <1>9, <2>1 DEF SlowRead, ClientOK
  <2>3. faults' \in 0..MaxFaults
    BY <1>9, ConstantsAssumption DEF SlowRead, NetworkOK
  <2> QED
    BY <1>1, <1>2, <1>9, <2>2, <2>3 DEF SlowRead, ClientOK, NetworkOK
<1>10. CASE SlowAnswer(t)
  <2>1. fetched[t] \in Shown
    BY <1>10 DEF SlowAnswer, ClientOK
  <2>2. Overlay(wal[b], fetched[t]) \in Shown
    BY <1>3, <2>1, OverlayType
  <2>3. cache' \in [Tab -> Shown]
    BY <1>10, <2>2 DEF SlowAnswer, ClientOK
  <2>4. fetched' \in [Tab -> Shown \cup {NoRow}]
    BY <1>10 DEF SlowAnswer, ClientOK
  <2> QED
    BY <1>1, <1>2, <1>10, <2>3, <2>4 DEF SlowAnswer, ClientOK, NetworkOK, network
<1> QED
  BY <1>6, <1>7, <1>8, <1>9, <1>10

\* Every step keeps the shape of the variables.
LEMMA TypeStep == IInv /\ [Next]_vars => TypeOK'
<1> SUFFICES ASSUME IInv, [Next]_vars PROVE TypeOK'
  OBVIOUS
<1>1. TypeOK
  BY DEF IInv
<1>2. CASE UNCHANGED vars
  BY <1>1, <1>2 DEF vars, TypeOK, ClicksOK, ServerOK, ClientOK, NetworkOK, Known
<1>3. ASSUME NEW t \in Tab, Progress(t) PROVE TypeOK'
  BY <1>1, <1>3, SendType, ServeRequestType, ReceiveType, RetryType, RefusalType
     DEF Progress
<1>4. ASSUME NEW t \in Tab,
             Click(t) \/ OrdinaryWrite(t) \/ StartReplay(t) \/ RefuseRequest(t)
      PROVE  TypeOK'
  BY <1>1, <1>4, ClickType, RefuseAndWriteType, SendType
<1>5. ASSUME NEW t \in Tab,
             \/ LoseConnection(t) \/ Reload(t) \/ Refresh(t)
             \/ SlowRead(t) \/ SlowAnswer(t)
      PROVE  TypeOK'
  BY <1>5, GiveUpType
<1>6. ASSUME NEW q \in late, ServeLate(q) PROVE TypeOK'
  BY <1>1, <1>6, ServeLateType
<1> QED
  BY <1>2, <1>3, <1>4, <1>5, <1>6 DEF Next

-----------------------------------------------------------------------------
(***************************************************************************)
(* The queues.                                                             *)
(***************************************************************************)
LEMMA QueueInit == Init => QueueOK
BY DEF Init, QueueOK

\* The head of a queue is done: its request and answer are gone with it, and the
\* rollback row stays for as long as live clicks are queued.
LEMMA FinishQueue ==
  ASSUME IInv, NEW t \in Tab, chain[t] # <<>>, Finish(t), NEW r,
         Head(chain[t]).kind = "live" => r # NoRow,
         base' = [base EXCEPT ![t] = Kept(t, r)]
  PROVE  QueueOK'
<1> USE DEF IInv, TypeOK
<1>1. /\ chain' = [chain EXCEPT ![t] = Tail(chain[t])]
      /\ sent' = [sent EXCEPT ![t] = NoReq]
      /\ reply' = [reply EXCEPT ![t] = NoReply]
  BY DEF Finish
<1>2. /\ chain \in [Tab -> Seq(Job(Known))] /\ chain[t] \in Seq(Job(Known))
      /\ base \in [Tab -> Shown \cup {NoRow}]
      /\ DOMAIN sent = Tab /\ DOMAIN reply = Tab
  BY DEF ClientOK, NetworkOK
<1>3. ASSUME NEW i \in DOMAIN Tail(chain[t])
      PROVE  /\ i + 1 \in DOMAIN chain[t]
             /\ Tail(chain[t])[i] = chain[t][i + 1]
             /\ Len(chain[t]) # 1
  <2>1. Len(chain[t]) \in Nat \ {0}
    BY <1>2, EmptySeq, LenProperties
  <2>2. i \in 1..(Len(chain[t]) - 1)
    BY <1>2, <1>3, <2>1, HeadTailProperties, LenProperties
  <2> QED
    BY <1>2, <2>1, <2>2, LenProperties
<1>4. ASSUME base'[t] = NoRow, NEW i \in DOMAIN Tail(chain[t])
      PROVE  Tail(chain[t])[i].kind # "live"
  <2>1. Kept(t, r) = NoRow /\ Len(chain[t]) # 1
    BY <1>2, <1>3, <1>4
  <2>2. base[t] = NoRow
    BY <2>1 DEF Kept
  <2> QED
    BY <1>3, <1>4, <2>2 DEF QueueOK
<1>5. ASSUME NEW u \in Tab, u # t
      PROVE  chain'[u] = chain[u] /\ sent'[u] = sent[u] /\ reply'[u] = reply[u]
             /\ base'[u] = base[u]
  BY <1>1, <1>2, <1>5
<1>6. chain'[t] = Tail(chain[t]) /\ sent'[t] = NoReq /\ reply'[t] = NoReply
  BY <1>1, <1>2
<1>7. base'[t] = NoRow => \A i \in DOMAIN chain'[t] : chain'[t][i].kind # "live"
  BY ONLY <1>4, <1>6
<1>8. QueueOK
  OBVIOUS
<1> QED
  BY ONLY <1>5, <1>6, <1>7, <1>8 DEF QueueOK

\* Every step keeps the queues in order.
LEMMA QueueStep == IInv /\ [Next]_vars => QueueOK'
<1> SUFFICES ASSUME IInv, [Next]_vars PROVE QueueOK'
  OBVIOUS
<1> USE DEF IInv, TypeOK
<1>0. /\ chain \in [Tab -> Seq(Job(Known))] /\ DOMAIN chain = Tab
      /\ base \in [Tab -> Shown \cup {NoRow}] /\ DOMAIN base = Tab
      /\ cache \in [Tab -> Shown]
      /\ DOMAIN sent = Tab /\ DOMAIN reply = Tab
      /\ NoRow \notin Shown
  BY DEF ClientOK, NetworkOK, Shown, NoRow
<1>a. \A t \in Tab : /\ sent[t] # NoReq => chain[t] # <<>>
                     /\ reply[t] # NoReply => sent[t] # NoReq
                     /\ base[t] = NoRow =>
                          \A i \in DOMAIN chain[t] : chain[t][i].kind # "live"
  BY DEF QueueOK
<1>1. CASE UNCHANGED vars
  BY <1>1 DEF vars, QueueOK
<1>2. ASSUME NEW t \in Tab, Click(t) PROVE QueueOK'
  <2> DEFINE m == Len(clicks) + 1
  <2>1. /\ chain' = [chain EXCEPT ![t] = Append(chain[t], Live(m))]
        /\ base'[t] # NoRow
        /\ \A u \in Tab : u # t => base'[u] = base[u]
        /\ sent' = sent /\ reply' = reply
    BY <1>0, <1>2 DEF Click, network
  <2>2. Append(chain[t], Live(m)) # <<>>
    BY <1>0, AppendProperties
  <2>3. \A u \in Tab : u # t => chain'[u] = chain[u]
    BY <1>0, <2>1
  <2>4. chain'[t] = Append(chain[t], Live(m))
    BY <1>0, <2>1
  <2> QED
    BY ONLY <1>a, <2>1, <2>2, <2>3, <2>4 DEF QueueOK
<1>3. ASSUME NEW t \in Tab, SendLive(t) \/ SendReplay(t) PROVE QueueOK'
  <2>1. /\ chain' = chain /\ base' = base /\ reply' = reply
        /\ chain[t] # <<>>
        /\ \A u \in Tab : u # t => sent'[u] = sent[u]
        /\ reply[t] = NoReply
    <3>1. chain' = chain /\ base' = base /\ reply' = reply /\ chain[t] # <<>> /\ LockFree(t)
      BY <1>3 DEF SendLive, SendReplay, client
    <3>2. sent[t] = NoReq
      BY <3>1 DEF LockFree
    <3>3. \A u \in Tab : u # t => sent'[u] = sent[u]
      BY <1>0, <1>3 DEF SendLive, SendReplay
    <3> QED
      BY <1>a, <3>1, <3>2, <3>3
  <2> QED
    BY ONLY <1>a, <2>1 DEF QueueOK
<1>4. ASSUME NEW t \in Tab, StartReplay(t) PROVE QueueOK'
  <2> DEFINE job == Replay(wal[BrowserOf[t]])
  <2>1. /\ chain' = [chain EXCEPT ![t] = Append(chain[t], job)]
        /\ base' = base /\ sent' = sent /\ reply' = reply
    BY <1>4 DEF StartReplay, network
  <2>2. job.kind # "live"
    BY DEF Replay
  <2>3. /\ Append(chain[t], job) # <<>>
        /\ \A i \in DOMAIN Append(chain[t], job) :
             \/ i \in DOMAIN chain[t] /\ Append(chain[t], job)[i] = chain[t][i]
             \/ Append(chain[t], job)[i] = job
    <3> HIDE DEF job
    <3>1. chain[t] \in Seq(Job(Known))
      BY <1>0
    <3>2. DOMAIN Append(chain[t], job) = 1..(Len(chain[t]) + 1)
          /\ DOMAIN chain[t] = 1..Len(chain[t]) /\ Len(chain[t]) \in Nat
      BY <3>1, LenProperties
    <3>3. \A i \in 1..Len(chain[t]) : Append(chain[t], job)[i] = chain[t][i]
      BY <3>1, AppendProperties
    <3>4. Append(chain[t], job)[Len(chain[t]) + 1] = job
      BY <3>1, AppendProperties
    <3>5. Len(chain[t]) + 1 \in DOMAIN Append(chain[t], job)
      BY <3>2
    <3>6. Append(chain[t], job) # <<>>
      BY <3>5
    <3>7. ASSUME NEW i \in DOMAIN Append(chain[t], job)
          PROVE  i \in DOMAIN chain[t] \/ i = Len(chain[t]) + 1
      BY ONLY <3>2, <3>7
    <3> QED
      BY ONLY <3>2, <3>3, <3>4, <3>6, <3>7
  <2>4. \A u \in Tab : u # t => chain'[u] = chain[u]
    BY <1>0, <2>1
  <2>5. chain'[t] = Append(chain[t], job)
    BY <1>0, <2>1
  <2> HIDE DEF job
  <2> QED
    BY ONLY <1>a, <2>1, <2>2, <2>3, <2>4, <2>5 DEF QueueOK
<1>5. ASSUME NEW t \in Tab, SkipReplay(t) PROVE QueueOK'
  <2>1. /\ chain' = [chain EXCEPT ![t] = Tail(chain[t])]
        /\ sent' = [sent EXCEPT ![t] = NoReq]
        /\ reply' = [reply EXCEPT ![t] = NoReply]
        /\ base' = [base EXCEPT ![t] = Kept(t, base[t])]
        /\ chain[t] # <<>> /\ Head(chain[t]).kind # "live"
    <3>1. sent[t] = NoReq /\ reply[t] = NoReply
      BY <1>5, <1>a DEF SkipReplay, LockFree
    <3>2. Head(chain[t]).kind = "replay" /\ chain[t] # <<>>
      BY <1>5 DEF SkipReplay
    <3>3. Kept(t, base[t]) = base[t]
      BY <3>2 DEF Kept
    <3>4. sent = [sent EXCEPT ![t] = NoReq] /\ reply = [reply EXCEPT ![t] = NoReply]
          /\ base = [base EXCEPT ![t] = Kept(t, base[t])]
      BY <1>0, <3>1, <3>3 DEF NetworkOK
    <3> QED
      BY <1>5, <3>2, <3>4 DEF SkipReplay, network
  <2> QED
    BY <2>1, FinishQueue DEF Finish
<1>6. ASSUME NEW t \in Tab, ServeRequest(t) \/ RefuseRequest(t) PROVE QueueOK'
  <2>1. /\ chain' = chain /\ base' = base /\ sent' = sent
        /\ sent[t] # NoReq
        /\ \A u \in Tab : u # t => reply'[u] = reply[u]
    BY <1>0, <1>6 DEF ServeRequest, RefuseRequest, Serve, client
  <2> QED
    BY ONLY <1>a, <2>1 DEF QueueOK
<1>7. ASSUME NEW t \in Tab, ReceiveOk(t) \/ Reject(t) PROVE QueueOK'
  <2>1. reply[t] # NoReply /\ reply[t].row \in Shown
    BY <1>7, AnsweredRow DEF ReceiveOk, Reject
  <2>2. chain[t] # <<>> /\ reply[t].row # NoRow
    BY <1>0, <1>a, <2>1
  <2>3. Finish(t) /\ base' = [base EXCEPT ![t] = Kept(t, reply[t].row)]
    BY <1>7 DEF ReceiveOk, Reject
  <2> QED
    BY <2>2, <2>3, FinishQueue
<1>8. ASSUME NEW t \in Tab, ReceiveRefusal(t) \/ LoseConnection(t) PROVE QueueOK'
  <2>1. chain[t] # <<>>
    <3>1. sent[t] # NoReq
      <4>1. CASE ReceiveRefusal(t)
        BY <1>a, <4>1 DEF ReceiveRefusal, NoReply
      <4>2. CASE LoseConnection(t)
        BY <4>2 DEF LoseConnection
      <4> QED
        BY <1>8, <4>1, <4>2
    <3> QED
      BY <1>a, <3>1
  <2>2. Head(chain[t]).kind = "live" => base[t] # NoRow
    BY <1>a, <2>1, HeadType
  <2>3. Finish(t) /\ base' = [base EXCEPT ![t] = Kept(t, base[t])]
    BY <1>8 DEF ReceiveRefusal, LoseConnection
  <2> QED
    BY <2>1, <2>2, <2>3, FinishQueue
<1>9. ASSUME NEW t \in Tab, Retry(t) PROVE QueueOK'
  <2>1. /\ chain' = [chain EXCEPT ![t] = [chain[t] EXCEPT ![1] = [chain[t][1] EXCEPT !.again = TRUE]]]
        /\ base' = base /\ reply'[t] = NoReply
        /\ \A u \in Tab : u # t => reply'[u] = reply[u] /\ sent'[u] = sent[u]
    BY <1>0, <1>9 DEF Retry
  <2>2. chain[t] # <<>> /\ 1 \in DOMAIN chain[t]
    <3>1. reply[t] # NoReply
      BY <1>9 DEF Retry, NoReply
    <3> QED
      BY <1>a, <3>1, HeadType
  <2>3. /\ \A u \in Tab : u # t => chain'[u] = chain[u]
        /\ DOMAIN chain'[t] = DOMAIN chain[t]
        /\ \A i \in DOMAIN chain[t] : chain'[t][i].kind = chain[t][i].kind
    <3>1. chain[t][1] \in Job(Known)
      BY <2>2, HeadType
    <3>2. [chain[t][1] EXCEPT !.again = TRUE].kind = chain[t][1].kind
      BY <3>1 DEF Job
    <3> QED
      BY <1>0, <2>1, <2>2, <3>2
  <2>4. chain'[t] # <<>>
    BY <2>2, <2>3
  <2>5. base'[t] = NoRow => \A i \in DOMAIN chain'[t] : chain'[t][i].kind # "live"
    BY <1>a, <2>1, <2>3
  <2>6. /\ base' = base /\ reply'[t] = NoReply
        /\ \A u \in Tab : u # t => chain'[u] = chain[u] /\ reply'[u] = reply[u]
                                   /\ sent'[u] = sent[u]
    BY <2>1, <2>3
  <2> QED
    BY ONLY <1>a, <2>4, <2>5, <2>6 DEF QueueOK
<1>10. ASSUME NEW t \in Tab, Reload(t) PROVE QueueOK'
  <2>1. /\ chain'[t] = <<>> /\ sent'[t] = NoReq /\ reply'[t] = NoReply
        /\ \A u \in Tab : u # t => chain'[u] = chain[u] /\ sent'[u] = sent[u]
                                   /\ reply'[u] = reply[u] /\ base'[u] = base[u]
    BY <1>0, <1>10 DEF Reload
  <2>2. DOMAIN chain'[t] = {}
    BY <2>1
  <2> QED
    BY ONLY <1>a, <2>1, <2>2 DEF QueueOK
<1>11. ASSUME NEW t \in Tab,
              OrdinaryWrite(t) \/ Refresh(t) \/ SlowRead(t) \/ SlowAnswer(t)
       PROVE  QueueOK'
  BY <1>11 DEF OrdinaryWrite, Refresh, SlowRead, SlowAnswer, QueueOK, client, network
<1>12. ASSUME NEW q \in late, ServeLate(q) PROVE QueueOK'
  BY <1>12 DEF ServeLate, Serve, QueueOK, client
<1> QED
  BY <1>1, <1>2, <1>3, <1>4, <1>5, <1>6, <1>7, <1>8, <1>9, <1>10, <1>11, <1>12
     DEF Next, Progress

LEMMA Inductive == Spec => []IInv
<1>1. Init => IInv
  BY TypeInit, QueueInit DEF IInv
<1>2. IInv /\ [Next]_vars => IInv'
  BY TypeStep, QueueStep DEF IInv
<1> QED
  BY <1>1, <1>2, PTL DEF Spec

\* Every reachable state has the shape TypeOK gives it: what is in the log, on
\* the network and in the dead-letter list is the mutation of a click somebody
\* made, and a tab always has a row to show, after a rollback too.
THEOREM TypeCorrect == Spec => []TypeOK
<1>1. IInv => TypeOK
  BY DEF IInv
<1> QED
  BY <1>1, Inductive, PTL

-----------------------------------------------------------------------------
(***************************************************************************)
(* No completion click vanishes.                                           *)
(***************************************************************************)

\* What keeps every click accounted for: confirmations and dead letters stay, and
\* an intent leaves the log only as a confirmation or a dead letter.
LEMMA AccountedKept ==
  ASSUME Accounted, TypeOK, clicks' = clicks,
         acked \subseteq acked',
         \A b \in Browser : dead[b] \subseteq dead'[b],
         \A b \in Browser : \/ wal'[b].mut = wal[b].mut
                            \/ wal[b].mut \in acked' \cup dead'[b]
  PROVE  Accounted'
<1> SUFFICES ASSUME NEW m \in DOMAIN clicks
             PROVE  \/ m \in acked'
                    \/ wal'[Home(m)].mut = m
                    \/ m \in dead'[Home(m)]
                    \/ \E n \in DOMAIN clicks : n > m /\ Home(n) = Home(m)
  BY DEF Accounted, Home
<1>1. Home(m) \in Browser
  <2>1. clicks[m] \in [tab : Tab, want : BOOLEAN]
    BY LenProperties, ElementOfSeq DEF TypeOK, ClicksOK
  <2> QED
    BY <2>1, ConstantsAssumption DEF Home
<1>2. \/ m \in acked
      \/ wal[Home(m)].mut = m
      \/ m \in dead[Home(m)]
      \/ \E n \in DOMAIN clicks : n > m /\ Home(n) = Home(m)
  BY DEF Accounted
<1> HIDE DEF Home
<1> QED
  BY <1>1, <1>2

\* An intent that is taken out of the log of its browser leaves no other entry
\* than the one it was.
LEMMA WithoutMut ==
  ASSUME NEW e, NEW m, Without(e, m).mut # e.mut
  PROVE  e.mut = m
BY DEF Without

\* A click of a tab becomes the entry of its browser's log and takes the place of
\* an older one.
LEMMA ClickAccounted ==
  ASSUME Accounted, TypeOK, NEW t \in Tab, Click(t)
  PROVE  Accounted'
<1> DEFINE b == BrowserOf[t]
           c == [tab |-> t, want |-> ~cache[t].done]
<1>m. PICK m : m = Len(clicks) + 1
  OBVIOUS
<1>1. /\ clicks' = Append(clicks, c)
      /\ wal' = [wal EXCEPT ![b] = Superseding(t, m)]
      /\ acked' = acked /\ dead' = dead
  BY <1>m DEF Click
<1>2. /\ clicks \in Seq([tab : Tab, want : BOOLEAN])
      /\ DOMAIN wal = Browser
  BY DEF TypeOK, ClicksOK, ClientOK
<1>3. /\ DOMAIN clicks = 1..Len(clicks) /\ Len(clicks) \in Nat
      /\ clicks' \in Seq([tab : Tab, want : BOOLEAN])
      /\ Len(clicks') = m
      /\ clicks'[m] = c
      /\ \A n \in DOMAIN clicks : clicks'[n] = clicks[n]
  <2>1. /\ DOMAIN clicks = 1..Len(clicks) /\ Len(clicks) \in Nat
        /\ \A n \in 1..Len(clicks) : clicks[n] \in [tab : Tab, want : BOOLEAN]
    BY <1>2, LenProperties, ElementOfSeq
  <2>2. c \in [tab : Tab, want : BOOLEAN]
    <3>1. cache[t].done \in BOOLEAN
      BY DEF TypeOK, ClientOK, Shown
    <3>2. (~cache[t].done) \in BOOLEAN
      BY <3>1
    <3> QED
      BY <3>2
  <2> HIDE DEF c
  <2> QED
    BY <1>1, <1>2, <1>m, <2>1, <2>2, AppendProperties
<1>4. DOMAIN clicks' = 1..m
  BY <1>3, LenProperties
<1>5. /\ Home(m)' = b
      /\ \A n \in DOMAIN clicks : Home(n)' = Home(n)
  BY <1>3 DEF Home
<1>6. wal'[b].mut = m
  <2>1. b \in Browser
    BY ConstantsAssumption
  <2> QED
    BY <1>1, <1>2, <2>1 DEF Superseding
<1>7. \A x : x # b => wal'[x] = wal[x]
  BY <1>1
<1>8. ASSUME NEW n \in DOMAIN clicks', n # m
      PROVE  \/ n \in acked'
             \/ wal'[Home(n)'].mut = n
             \/ n \in dead'[Home(n)']
             \/ \E k \in DOMAIN clicks' : k > n /\ Home(k)' = Home(n)'
  <2>1. n \in DOMAIN clicks /\ m > n /\ m \in DOMAIN clicks'
    BY <1>3, <1>4, <1>8, <1>m
  <2>2. CASE Home(n) = b
    <3>1. Home(m)' = Home(n)'
      BY <1>5, <2>1, <2>2
    <3> QED
      BY <2>1, <3>1
  <2>3. CASE Home(n) # b
    <3>1. \/ n \in acked
          \/ wal[Home(n)].mut = n
          \/ n \in dead[Home(n)]
          \/ \E k \in DOMAIN clicks : k > n /\ Home(k) = Home(n)
      BY <2>1 DEF Accounted
    <3>2. \A k \in DOMAIN clicks : k \in DOMAIN clicks'
      BY <1>3, <1>4, <1>m
    <3>3. wal'[Home(n)'] = wal[Home(n)] /\ Home(n)' = Home(n)
      BY <1>5, <1>7, <2>1, <2>3
    <3>4. ASSUME NEW k \in DOMAIN clicks, k > n, Home(k) = Home(n)
          PROVE  Home(k)' = Home(n)' /\ k \in DOMAIN clicks'
      BY <1>5, <2>1, <3>2, <3>4
    <3> QED
      BY ONLY <1>1, <3>1, <3>3, <3>4
  <2> QED
    BY <2>2, <2>3
<1>9. wal'[Home(m)'].mut = m
  BY <1>5, <1>6
<1> QED
  BY <1>8, <1>9 DEF Accounted

\* Every step keeps every click accounted for.
LEMMA AccountedStep == Accounted /\ IInv /\ [Next]_vars => Accounted'
<1> SUFFICES ASSUME Accounted, IInv, [Next]_vars PROVE Accounted'
  OBVIOUS
<1>0. /\ TypeOK
      /\ DOMAIN wal = Browser /\ DOMAIN dead = Browser
      /\ \A t \in Tab : BrowserOf[t] \in Browser
  BY ConstantsAssumption DEF IInv, TypeOK, ClientOK
<1>1. CASE UNCHANGED vars
  BY <1>0, <1>1, AccountedKept DEF vars
<1>2. ASSUME NEW t \in Tab, Click(t) PROVE Accounted'
  BY <1>0, <1>2, ClickAccounted
<1>3. ASSUME NEW t \in Tab, SendLive(t) \/ Retry(t) PROVE Accounted'
  <2>1. clicks' = clicks /\ acked' = acked /\ dead' = dead
    BY <1>3 DEF SendLive, Retry
  <2>2. \A b \in Browser : wal'[b].mut = wal[b].mut
    <3>1. \A b \in Browser : wal[b] \in Entry(Known) \cup {NoEntry}
      BY <1>0 DEF TypeOK, ClientOK
    <3>2. \A e \in Entry(Known) \cup {NoEntry} : \A x : [e EXCEPT !.exp = x].mut = e.mut
      BY DEF Entry, NoEntry
    <3>3. CASE SendLive(t)
      BY <1>0, <3>1, <3>2, <3>3 DEF SendLive
    <3>4. CASE Retry(t)
      BY <1>0, <3>1, <3>2, <3>4 DEF Retry
    <3> QED
      BY <1>3, <3>3, <3>4
  <2> QED
    BY <1>0, <2>1, <2>2, AccountedKept
<1>4. ASSUME NEW t \in Tab, ReceiveOk(t) PROVE Accounted'
  <2>1. /\ clicks' = clicks /\ dead' = dead
        /\ acked' = acked \cup {sent[t].mut}
        /\ wal' = [wal EXCEPT ![BrowserOf[t]] = Without(@, sent[t].mut)]
    BY <1>4 DEF ReceiveOk
  <2>2. \A b \in Browser : wal'[b].mut = wal[b].mut \/ wal[b].mut = sent[t].mut
    BY <1>0, <2>1, WithoutMut
  <2> QED
    BY <1>0, <2>1, <2>2, AccountedKept
<1>5. ASSUME NEW t \in Tab, Bury(t, sent[t].mut), clicks' = clicks, acked' = acked
      PROVE  Accounted'
  <2>1. \A b \in Browser : \/ wal'[b].mut = wal[b].mut
                           \/ b = BrowserOf[t] /\ wal[b].mut = sent[t].mut
    BY <1>0, <1>5, WithoutMut DEF Bury
  <2>2. \A b \in Browser : dead[b] \subseteq dead'[b]
    BY <1>0, <1>5 DEF Bury
  <2>3. wal[BrowserOf[t]].mut = sent[t].mut => sent[t].mut \in dead'[BrowserOf[t]]
    BY <1>0, <1>5 DEF Bury
  <2> QED
    BY <1>0, <1>5, <2>1, <2>2, <2>3, AccountedKept
<1>6. ASSUME NEW t \in Tab, Reject(t) \/ ReceiveRefusal(t) PROVE Accounted'
  <2>1. clicks' = clicks /\ acked' = acked
    BY <1>6 DEF Reject, ReceiveRefusal
  <2>2. Bury(t, sent[t].mut) \/ UNCHANGED <<wal, dead>>
    BY <1>6 DEF Reject, ReceiveRefusal
  <2> QED
    BY <1>0, <1>5, <2>1, <2>2, AccountedKept
<1>7. ASSUME NEW t \in Tab,
             \/ SendReplay(t) \/ SkipReplay(t) \/ StartReplay(t) \/ ServeRequest(t)
             \/ OrdinaryWrite(t) \/ Refresh(t) \/ RefuseRequest(t)
             \/ LoseConnection(t) \/ Reload(t) \/ SlowRead(t) \/ SlowAnswer(t)
      PROVE  Accounted'
  <2>1. UNCHANGED <<clicks, acked, wal, dead>>
    BY <1>7 DEF SendReplay, SkipReplay, StartReplay, ServeRequest, Serve, OrdinaryWrite,
                Refresh, RefuseRequest, LoseConnection, Reload, SlowRead, SlowAnswer,
                client
  <2> QED
    BY <1>0, <2>1, AccountedKept
<1>8. ASSUME NEW q \in late, ServeLate(q) PROVE Accounted'
  <2>1. UNCHANGED <<clicks, acked, wal, dead>>
    BY <1>8 DEF ServeLate, Serve, client
  <2> QED
    BY <1>0, <2>1, AccountedKept
<1> QED
  BY <1>1, <1>2, <1>3, <1>4, <1>6, <1>7, <1>8 DEF Next, Progress

\* No completion click vanishes, with any number of tabs and browsers, however
\* the tabs share them and however many faults there are: walPush, walRemove and
\* walMoveToDeadLetter lose none between them.
THEOREM NoClickLost == Spec => []Accounted
<1>1. Init => Accounted
  BY DEF Init, Accounted
<1>2. IInv /\ Accounted /\ [Next]_vars => Accounted'
  BY AccountedStep
<1> QED
  BY <1>1, <1>2, Inductive, PTL DEF Spec

-----------------------------------------------------------------------------
(***************************************************************************)
(* The row moves only as it is asked to.                                   *)
(***************************************************************************)

\* A served request moves the row to what its click asks for and is logged, or
\* leaves the completion as it is.
LEMMA ServeMoves ==
  ASSUME TypeOK, NEW m \in Known, NEW exp, Serve(m, exp)
  PROVE  /\ row'.done # row.done => log' = Append(log, m) /\ row'.done = Want(m)
         /\ row'.done = row.done => log' = log
<1>1. row \in Row(Known)
  BY DEF TypeOK, ServerOK
<1>2. Committed(m).done = Want(m)
  BY <1>1 DEF Committed, Row
<1>3. row' = row \/ row' = Committed(m)
  BY DEF Serve, Outcome
<1> QED
  BY <1>2, <1>3 DEF Serve

\* Only completion clicks move the row, each to the state it asked for, and no
\* step moves it twice: the completion fields an ordinary write carries, however
\* optimistic or outdated, never reach the row, and a retry of an applied
\* mutation does not move it again.
THEOREM OnlyClicksMove == Spec => MovedAsAsked
<1> DEFINE Asked ==
      /\ row'.done # row.done =>
           \E m \in DOMAIN clicks : log' = Append(log, m) /\ row'.done = Want(m)
      /\ row'.done = row.done => log' = log
<1>1. ASSUME IInv, [Next]_vars PROVE [Asked]_vars
  <2>0. TypeOK
    BY <1>1 DEF IInv
  <2>1. CASE UNCHANGED vars
    BY <2>1
  <2>2. ASSUME NEW t \in Tab, ServeRequest(t) PROVE Asked
    <3>1. sent[t].mut \in Known
      BY <2>0, <2>2 DEF ServeRequest, TypeOK, NetworkOK, Req
    <3> QED
      BY <2>0, <2>2, <3>1, ServeMoves DEF ServeRequest, Known
  <2>3. ASSUME NEW q \in late, ServeLate(q) PROVE Asked
    <3>1. q.mut \in Known
      BY <2>0 DEF TypeOK, NetworkOK, Req
    <3> QED
      BY <2>0, <2>3, <3>1, ServeMoves DEF ServeLate, Known
  <2>4. ASSUME NEW t \in Tab, OrdinaryWrite(t) PROVE Asked
    BY <2>4 DEF OrdinaryWrite, PreserveCompletion
  <2>5. ASSUME NEW t \in Tab,
               \/ SendLive(t) \/ SendReplay(t) \/ SkipReplay(t) \/ ReceiveOk(t)
               \/ Retry(t) \/ Reject(t) \/ ReceiveRefusal(t) \/ Click(t)
               \/ StartReplay(t) \/ Refresh(t) \/ RefuseRequest(t)
               \/ LoseConnection(t) \/ Reload(t) \/ SlowRead(t) \/ SlowAnswer(t)
        PROVE  Asked
    <3>1. UNCHANGED server
      BY <2>5 DEF SendLive, SendReplay, SkipReplay, ReceiveOk, Retry, Reject,
                  ReceiveRefusal, Click, StartReplay, Refresh, RefuseRequest,
                  LoseConnection, Reload, SlowRead, SlowAnswer
    <3> QED
      BY <3>1 DEF server
  <2> QED
    BY <1>1, <2>1, <2>2, <2>3, <2>4, <2>5 DEF Next, Progress
<1>2. IInv /\ [Next]_vars => [Asked]_vars
  BY <1>1
<1> HIDE DEF Asked
<1>3. Spec => [][Asked]_vars
  BY <1>2, Inductive, PTL DEF Spec
<1> QED
  BY <1>3 DEF MovedAsAsked, Asked

-----------------------------------------------------------------------------
(***************************************************************************)
(* A tab goes on showing its own pending intent.                           *)
(***************************************************************************)

\* A step that makes no click keeps a pending intent in sight if it leaves a tab's
\* cache alone, and the intent pending or not, or writes into it through
\* overlayPendingCompletion.
LEMMA ShowsKept ==
  ASSUME ShowsPending, clicks' = clicks,
         \A t \in Tab :
           \/ /\ cache'[t] = cache[t]
              /\ wal'[BrowserOf[t]].mut \in {wal[BrowserOf[t]].mut, 0}
           \/ \E r \in Shown \cup {NoRow} : cache'[t] = Overlay(wal'[BrowserOf[t]], r)
  PROVE  ShowsPending'
<1> SUFFICES ASSUME NEW t \in Tab, NEW m, m = wal'[BrowserOf[t]].mut, m # 0,
                    clicks[m].tab = t
             PROVE  cache'[t].done = Want(m)
  BY DEF ShowsPending, Want
<1>1. CASE cache'[t] = cache[t] /\ m = wal[BrowserOf[t]].mut
  BY <1>1 DEF ShowsPending
<1>2. ASSUME NEW r \in Shown \cup {NoRow}, cache'[t] = Overlay(wal'[BrowserOf[t]], r)
      PROVE  cache'[t].done = Want(m)
  <2>1. wal'[BrowserOf[t]] # NoEntry
    BY DEF NoEntry
  <2>2. cache'[t] = [r EXCEPT !.done = Want(m)]
    BY <1>2, <2>1 DEF Overlay
  <2> HIDE DEF Want
  <2> QED
    BY <2>2 DEF Shown, NoRow
<1> QED
  BY <1>1, <1>2

\* The tab that is clicked shows what the click asks for, and the intents of the
\* other tabs of its browser give way to it.
LEMMA ClickShows ==
  ASSUME TypeOK, ShowsPending, NEW t \in Tab, Click(t)
  PROVE  ShowsPending'
<1> DEFINE b == BrowserOf[t]
<1>m. PICK m : m = Len(clicks) + 1
  OBVIOUS
<1>c. PICK c : c = [tab |-> t, want |-> ~cache[t].done]
  OBVIOUS
<1>1. /\ clicks' = Append(clicks, c)
      /\ wal' = [wal EXCEPT ![b] = Superseding(t, m)]
      /\ cache' = [cache EXCEPT ![t].done = c.want]
  BY <1>m, <1>c DEF Click
<1>2. /\ clicks \in Seq([tab : Tab, want : BOOLEAN])
      /\ wal \in [Browser -> Entry(Known) \cup {NoEntry}]
      /\ cache \in [Tab -> Shown]
      /\ b \in Browser
  BY ConstantsAssumption DEF TypeOK, ClicksOK, ClientOK
<1>3. c \in [tab : Tab, want : BOOLEAN]
  <2>1. (~cache[t].done) \in BOOLEAN
    BY <1>2 DEF Shown
  <2> QED
    BY <1>c, <2>1
<1>4. /\ clicks'[m] = c
      /\ \A k \in DOMAIN clicks : k # m /\ clicks'[k] = clicks[k]
  BY <1>1, <1>2, <1>3, <1>m, AppendProperties, LenProperties
<1>5. wal'[b].mut = m /\ \A x : x # b => wal'[x] = wal[x]
  BY <1>1, <1>2 DEF Superseding
<1>6. cache'[t].done = c.want /\ \A u \in Tab : u # t => cache'[u] = cache[u]
  BY <1>1, <1>2 DEF Shown
<1> SUFFICES ASSUME NEW u \in Tab, NEW k, k = wal'[BrowserOf[u]].mut, k # 0,
                    clicks'[k].tab = u
             PROVE  cache'[u].done = clicks'[k].want
  BY DEF ShowsPending, Want
<1>7. CASE BrowserOf[u] = b
  <2>1. k = m /\ u = t
    BY <1>7, <1>5, <1>4, <1>c
  <2> QED
    BY <2>1, <1>4, <1>6
<1>8. CASE BrowserOf[u] # b
  <2>1. k = wal[BrowserOf[u]].mut /\ u # t
    BY <1>8, <1>5
  <2>2. k \in DOMAIN clicks
    <3>1. BrowserOf[u] \in Browser
      BY ConstantsAssumption
    <3> QED
      BY <3>1, <2>1, <1>2 DEF Entry, NoEntry, Known
  <2> QED
    BY <2>1, <2>2, <1>4, <1>6 DEF ShowsPending, Want
<1> QED
  BY <1>7, <1>8

LEMMA ShowsStep == ShowsPending /\ IInv /\ [Next]_vars => ShowsPending'
<1> SUFFICES ASSUME ShowsPending, IInv, [Next]_vars PROVE ShowsPending'
  OBVIOUS
<1>0. /\ TypeOK
      /\ wal \in [Browser -> Entry(Known) \cup {NoEntry}]
      /\ cache \in [Tab -> Shown]
      /\ fetched \in [Tab -> Shown \cup {NoRow}]
      /\ base \in [Tab -> Shown \cup {NoRow}]
      /\ \A t \in Tab : BrowserOf[t] \in Browser
  BY ConstantsAssumption DEF IInv, TypeOK, ClientOK
<1>s. [done |-> row.done, rev |-> row.rev] \in Shown
  BY <1>0 DEF TypeOK, ServerOK, Row, Shown
<1>1. ASSUME UNCHANGED <<clicks, wal, cache>> PROVE ShowsPending'
  BY <1>1, ShowsKept
<1>2. ASSUME NEW t \in Tab, SendLive(t) \/ Retry(t) PROVE ShowsPending'
  <2>1. clicks' = clicks /\ cache' = cache
    BY <1>2 DEF SendLive, Retry
  <2>2. \A b \in Browser : wal'[b].mut = wal[b].mut
    <3>1. \A e \in Entry(Known) \cup {NoEntry} : \A x : [e EXCEPT !.exp = x].mut = e.mut
      BY DEF Entry, NoEntry
    <3>2. CASE SendLive(t)
      BY <1>0, <3>1, <3>2 DEF SendLive
    <3>3. CASE Retry(t)
      BY <1>0, <3>1, <3>3 DEF Retry
    <3> QED
      BY <1>2, <3>2, <3>3
  <2> QED
    BY <1>0, <2>1, <2>2, ShowsKept
<1>3. ASSUME NEW t \in Tab, NEW m, NEW r \in Shown \cup {NoRow}, clicks' = clicks,
             wal' = [wal EXCEPT ![BrowserOf[t]] = Without(@, m)],
             cache' = [cache EXCEPT ![t] = Overlay(wal'[BrowserOf[t]], r)]
      PROVE  ShowsPending'
  <2>1. \A b \in Browser : wal'[b].mut \in {wal[b].mut, 0}
    BY <1>0, <1>3 DEF Without, NoEntry
  <2>2. \A u \in Tab : u # t => cache'[u] = cache[u]
    BY <1>3
  <2>3. cache'[t] = Overlay(wal'[BrowserOf[t]], r)
    BY <1>0, <1>3
  <2> QED
    BY <1>0, <1>3, <2>1, <2>2, <2>3, ShowsKept
<1>4. ASSUME NEW t \in Tab, ReceiveOk(t) \/ Reject(t) PROVE ShowsPending'
  <2>1. reply[t].row \in Shown
    BY <1>0, <1>4, AnsweredRow DEF ReceiveOk, Reject, TypeOK
  <2> QED
    BY <1>3, <1>4, <2>1 DEF ReceiveOk, Reject, Bury
<1>5. ASSUME NEW t \in Tab, ReceiveRefusal(t) PROVE ShowsPending'
  <2>1. CASE UNCHANGED <<wal, dead, cache>>
    BY <1>1, <1>5, <2>1 DEF ReceiveRefusal
  <2>2. CASE /\ Bury(t, sent[t].mut)
             /\ cache' = [cache EXCEPT ![t] = Overlay(wal'[BrowserOf[t]], base[t])]
    BY <1>0, <1>3, <1>5, <2>2 DEF ReceiveRefusal, Bury
  <2> QED
    BY <1>5, <2>1, <2>2 DEF ReceiveRefusal
<1>6. ASSUME NEW t \in Tab, Reload(t) \/ Refresh(t) \/ SlowAnswer(t) PROVE ShowsPending'
  <2>1. clicks' = clicks /\ wal' = wal
    BY <1>6 DEF Reload, Refresh, SlowAnswer
  <2>2. \E r \in Shown \cup {NoRow} :
          cache' = [cache EXCEPT ![t] = Overlay(wal[BrowserOf[t]], r)]
    BY <1>0, <1>s, <1>6 DEF Reload, Refresh, SlowAnswer
  <2> QED
    BY <1>0, <2>1, <2>2, ShowsKept
<1>7. ASSUME NEW t \in Tab,
             \/ SendReplay(t) \/ SkipReplay(t) \/ StartReplay(t) \/ ServeRequest(t)
             \/ OrdinaryWrite(t) \/ RefuseRequest(t) \/ LoseConnection(t) \/ SlowRead(t)
      PROVE  ShowsPending'
  BY <1>1, <1>7 DEF SendReplay, SkipReplay, StartReplay, ServeRequest, Serve,
     OrdinaryWrite, RefuseRequest, LoseConnection, SlowRead, client
<1>8. ASSUME NEW q \in late, ServeLate(q) PROVE ShowsPending'
  BY <1>1, <1>8 DEF ServeLate, Serve, client
<1>9. CASE UNCHANGED vars
  BY <1>1, <1>9 DEF vars
<1> QED
  BY <1>0, <1>2, <1>4, <1>5, <1>6, <1>7, <1>8, <1>9, ClickShows DEF Next, Progress

\* A tab goes on showing its own pending intent, with any number of tabs and
\* browsers and however the tabs share them: every row that an answer, a conflict,
\* a rollback, a refresh or a slow read brings goes through the overlay.
THEOREM PendingShown == Spec => []ShowsPending
<1>1. Init => ShowsPending
  BY ConstantsAssumption DEF Init, ShowsPending, NoEntry
<1> QED
  BY <1>1, ShowsStep, Inductive, PTL DEF Spec

-----------------------------------------------------------------------------
(***************************************************************************)
(* One tab in each browser: no click moves the row after a later one of    *)
(* its browser, or twice.                                                  *)
(*                                                                         *)
(* What is left of a click that is spent, in the log, in the queue, on the *)
(* network or in an answer, is with a revision that the row has left       *)
(* behind, so the comparison in setTaskCompletion ends it.  A revision is  *)
(* renewed only for a live click, which is not spent before it is          *)
(* confirmed, and for a replay over one of its predecessors, which cannot  *)
(* have got onto the row once the click is spent.                          *)
(***************************************************************************)
OneTabEach == \A t, u \in Tab : BrowserOf[t] = BrowserOf[u] => t = u

\* The mutations that have moved the row.
Moved == ToSet(log)

\* The clicks before m in its browser.
Older(m) == {n \in Known : n < m /\ Home(n) = Home(m)}

\* The row has been moved by m or by a later click of its browser.
Spent(m) == \E k \in Moved : k >= m /\ Home(k) = Home(m)

\* Every revision that anybody holds was the row's at some time.
RevsOK ==
  /\ \A t \in Tab :
       /\ cache[t].rev <= row.rev /\ fetched[t].rev <= row.rev
       /\ base[t].rev <= row.rev
       /\ sent[t].exp <= row.rev /\ reply[t].row.rev <= row.rev
       /\ \A i \in DOMAIN chain[t] : chain[t][i].exp <= row.rev
  /\ \A b \in Browser : wal[b].exp <= row.rev
  /\ \A q \in late : q.exp <= row.rev

\* A browser's log and the queue of a tab hold the browser's own clicks, with
\* older ones as their predecessors.
OwnOK ==
  /\ \A b \in Browser :
       wal[b].mut # 0 => /\ Home(wal[b].mut) = b
                         /\ wal[b].preds \subseteq Older(wal[b].mut)
  /\ \A t \in Tab :
       /\ \A i \in DOMAIN chain[t] :
            /\ Home(chain[t][i].mut) = BrowserOf[t]
            /\ chain[t][i].preds \subseteq Older(chain[t][i].mut)
       /\ sent[t] # NoReq => sent[t].mut = chain[t][1].mut

\* A live click waits behind older ones, and what its browser has given up on is
\* older too.
OrderOK ==
  \A t \in Tab : \A j \in DOMAIN chain[t] : chain[t][j].kind = "live" =>
    /\ \A i \in DOMAIN chain[t] : i < j => chain[t][i].mut < chain[t][j].mut
    /\ \A q \in late : Home(q.mut) = BrowserOf[t] => q.mut < chain[t][j].mut

\* A live click is not spent before it is confirmed.
FreshOK ==
  \A t \in Tab : \A i \in DOMAIN chain[t] :
    chain[t][i].kind = "live" /\ Spent(chain[t][i].mut) =>
      i = 1 /\ reply[t].status = "ok"

\* What is left of a spent click is with a revision the row has left behind.
SpentOK ==
  /\ \A t \in Tab :
       /\ sent[t] # NoReq /\ reply[t] = NoReply /\ Spent(sent[t].mut) =>
            sent[t].exp < row.rev
       /\ reply[t].status = "conflict" /\ MayRetry(t) /\ Spent(sent[t].mut) =>
            reply[t].row.rev < row.rev
       /\ \A i \in DOMAIN chain[t] :
            chain[t][i].kind = "replay" /\ Spent(chain[t][i].mut) =>
              chain[t][i].exp < row.rev
  /\ \A b \in Browser : wal[b].mut # 0 /\ Spent(wal[b].mut) => wal[b].exp < row.rev
  /\ \A q \in late : Spent(q.mut) => q.exp < row.rev

\* The row does not bear the mark of a click that is older than one of its browser
\* that has moved it.
MarkOK == \A k \in Moved : row.mut \notin Older(k)

OrderInv == RevsOK /\ OwnOK /\ OrderOK /\ FreshOK /\ SpentOK /\ MarkOK

-----------------------------------------------------------------------------
(***************************************************************************)
(* What the steps do, tab by tab.                                          *)
(***************************************************************************)

\* Nothing happens to the other tabs and the other browsers.
Elsewhere(t) ==
  /\ \A u \in Tab : u # t =>
       /\ cache'[u] = cache[u] /\ fetched'[u] = fetched[u] /\ base'[u] = base[u]
       /\ chain'[u] = chain[u] /\ sent'[u] = sent[u] /\ reply'[u] = reply[u]
  /\ \A b \in Browser : b # BrowserOf[t] => wal'[b] = wal[b]

\* The head of the queue is over, or all of it.
Over(t) ==
  /\ UNCHANGED <<clicks, row, log>>
  /\ \A i \in DOMAIN chain'[t] : /\ i \in Nat /\ i >= 1
                                 /\ i + 1 \in DOMAIN chain[t]
                                 /\ chain'[t][i] = chain[t][i + 1]
  /\ sent'[t] = NoReq /\ reply'[t] = NoReply
  /\ wal'[BrowserOf[t]] \in {wal[BrowserOf[t]], NoEntry}
  /\ \/ late' = late
     \/ sent[t] # NoReq /\ reply[t] = NoReply /\ late' = late \cup {sent[t]}
  /\ cache'[t].rev \in {cache[t].rev, base[t].rev, reply[t].row.rev, row.rev}
  /\ base'[t].rev \in {-1, base[t].rev, reply[t].row.rev}
  /\ fetched'[t].rev \in {fetched[t].rev, -1}

\* Reads and refusals: only what a tab shows changes, or an answer without a row
\* comes.
Reads(t) ==
  /\ UNCHANGED <<clicks, row, log, chain, sent, wal, late, base>>
  /\ \/ reply'[t] = reply[t]
     \/ reply[t] = NoReply /\ reply'[t] = Refused
  /\ cache'[t].rev \in {cache[t].rev, fetched[t].rev, row.rev}
  /\ fetched'[t].rev \in {fetched[t].rev, -1, row.rev}

LEMMA KnownNat ==
  ASSUME TypeOK
  PROVE  /\ Known = 1..Len(clicks) /\ Len(clicks) \in Nat
         /\ 0 \notin Known /\ Known \subseteq Nat
BY LenProperties DEF TypeOK, ClicksOK, Known

LEMMA JobAt ==
  ASSUME TypeOK, NEW t \in Tab, NEW i \in DOMAIN chain[t]
  PROVE  chain[t][i] \in Job(Known) /\ i \in Nat /\ i >= 1
<1>1. chain[t] \in Seq(Job(Known))
  BY DEF TypeOK, ClientOK
<1>2. DOMAIN chain[t] = 1..Len(chain[t]) /\ Len(chain[t]) \in Nat
  BY <1>1, LenProperties
<1> QED
  BY <1>1, <1>2, ElementOfSeq

\* Revisions and mutations are numbers.
LEMMA Numbers ==
  ASSUME TypeOK
  PROVE  /\ row.rev \in Nat
         /\ \A t \in Tab : /\ cache[t].rev \in Nat /\ fetched[t].rev \in Int
                           /\ base[t].rev \in Int /\ sent[t].exp \in Nat
                           /\ reply[t].row.rev \in Int
                           /\ \A i \in DOMAIN chain[t] : chain[t][i].exp \in Nat
         /\ \A b \in Browser : wal[b].exp \in Nat
         /\ \A q \in late : q.exp \in Nat
<1>1. row.rev \in Nat
  BY DEF TypeOK, ServerOK, Row
<1>2. ASSUME NEW t \in Tab
      PROVE  /\ cache[t].rev \in Nat /\ fetched[t].rev \in Int
             /\ base[t].rev \in Int /\ sent[t].exp \in Nat
             /\ reply[t].row.rev \in Int
  <2>1. cache[t] \in Shown /\ fetched[t] \in Shown \cup {NoRow} /\ base[t] \in Shown \cup {NoRow}
    BY DEF TypeOK, ClientOK
  <2>2. sent[t] \in Req(Known) \cup {NoReq} /\ reply[t] \in Answer(Known) \cup {NoReply, Refused}
    BY DEF TypeOK, NetworkOK
  <2>3. NoRow.rev \in Int /\ \A r \in Shown : r.rev \in Nat
    BY DEF Shown, NoRow
  <2>4. reply[t].row \in Shown \cup {NoRow}
    BY <2>2 DEF Answer, NoReply, Refused
  <2> QED
    BY <2>1, <2>2, <2>3, <2>4 DEF Req, NoReq
<1>3. \A t \in Tab : \A i \in DOMAIN chain[t] : chain[t][i].exp \in Nat
  BY JobAt DEF Job
<1>4. \A b \in Browser : wal[b].exp \in Nat
  BY DEF TypeOK, ClientOK, Entry, NoEntry
<1>5. \A q \in late : q.exp \in Nat
  BY DEF TypeOK, NetworkOK, Req
<1> QED
  BY <1>1, <1>2, <1>3, <1>4, <1>5

\* The browser of a known click, which later clicks do not change.
LEMMA HomeType ==
  ASSUME TypeOK, NEW m \in Known
  PROVE  Home(m) \in Browser
<1>1. clicks[m] \in [tab : Tab, want : BOOLEAN]
  BY ElementOfSeq, LenProperties DEF TypeOK, ClicksOK, Known
<1> QED
  BY <1>1, ConstantsAssumption DEF Home

\* What a click does.
LEMMA ClickDoes ==
  ASSUME TypeOK, NEW t \in Tab, Click(t), NEW m, m = Len(clicks) + 1
  PROVE  /\ Known' = Known \cup {m} /\ m \notin Known
         /\ \A k \in Known : k < m /\ Home(k)' = Home(k)
         /\ Home(m)' = BrowserOf[t]
         /\ wal'[BrowserOf[t]] = Superseding(t, m)
         /\ chain'[t] = Append(chain[t], Live(m))
         /\ cache'[t].rev = cache[t].rev
         /\ base'[t] \in {base[t], cache[t]}
         /\ UNCHANGED <<fetched, sent, reply, late, row, log>>
         /\ Elsewhere(t)
<1>c. PICK c : c = [tab |-> t, want |-> ~cache[t].done]
  OBVIOUS
<1>1. clicks \in Seq([tab : Tab, want : BOOLEAN]) /\ cache[t] \in Shown
  BY DEF TypeOK, ClicksOK, ClientOK
<1>2. c \in [tab : Tab, want : BOOLEAN]
  <2>1. (~cache[t].done) \in BOOLEAN
    BY <1>1 DEF Shown
  <2> QED
    BY <1>c, <2>1
<1>3. clicks' = Append(clicks, c)
  BY <1>c DEF Click
<1>4. /\ Known = 1..Len(clicks) /\ Len(clicks) \in Nat
      /\ Known' = 1..m
      /\ clicks'[m] = c
      /\ \A k \in Known : clicks'[k] = clicks[k]
  BY <1>1, <1>2, <1>3, AppendProperties, LenProperties DEF Known
<1>5. /\ Known' = Known \cup {m} /\ m \notin Known
      /\ \A k \in Known : k < m
  BY <1>4
<1>6. Home(m)' = BrowserOf[t] /\ \A k \in Known : Home(k)' = Home(k)
  BY <1>4, <1>c DEF Home
<1>7. /\ BrowserOf[t] \in Browser /\ DOMAIN wal = Browser
      /\ DOMAIN cache = Tab /\ DOMAIN chain = Tab /\ DOMAIN base = Tab
  BY ConstantsAssumption DEF TypeOK, ClientOK
<1>8. /\ wal' = [wal EXCEPT ![BrowserOf[t]] = Superseding(t, m)]
      /\ chain' = [chain EXCEPT ![t] = Append(@, Live(m))]
      /\ base' = [base EXCEPT ![t] = IF @ = NoRow THEN cache[t] ELSE @]
      /\ cache' = [cache EXCEPT ![t].done = ~cache[t].done]
      /\ UNCHANGED <<fetched, sent, reply, late, row, log>>
  BY DEF Click, server, network
<1>9. cache'[t].rev = cache[t].rev
  BY <1>1, <1>7, <1>8 DEF Shown
<1>10. Elsewhere(t)
  BY <1>7, <1>8 DEF Elsewhere
<1> QED
  BY <1>5, <1>6, <1>7, <1>8, <1>9, <1>10

\* What putting a job on the network does.
LEMMA SendDoes ==
  ASSUME IInv, NEW t \in Tab, SendLive(t) \/ SendReplay(t)
  PROVE  /\ UNCHANGED <<clicks, row, log, cache, fetched, base, chain, reply, late>>
         /\ chain[t] # <<>> /\ 1 \in DOMAIN chain[t] /\ Head(chain[t]) = chain[t][1]
         /\ reply[t] = NoReply
         /\ sent'[t].mut = chain[t][1].mut
         /\ \/ /\ chain[t][1].kind = "live"
               /\ sent'[t].exp = cache[t].rev
               /\ \/ wal'[BrowserOf[t]] = wal[BrowserOf[t]]
                  \/ /\ wal[BrowserOf[t]].mut = chain[t][1].mut
                     /\ wal'[BrowserOf[t]].mut = wal[BrowserOf[t]].mut
                     /\ wal'[BrowserOf[t]].preds = wal[BrowserOf[t]].preds
                     /\ wal'[BrowserOf[t]].exp = cache[t].rev
            \/ /\ chain[t][1].kind = "replay"
               /\ sent'[t].exp = chain[t][1].exp
               /\ wal' = wal
         /\ Elsewhere(t)
<1>0. /\ DOMAIN sent = Tab /\ BrowserOf[t] \in Browser
      /\ wal[BrowserOf[t]] \in Entry(Known) \cup {NoEntry} /\ DOMAIN wal = Browser
  BY ConstantsAssumption DEF IInv, TypeOK, ClientOK, NetworkOK
<1>1. chain[t] # <<>> /\ LockFree(t)
  BY DEF SendLive, SendReplay
<1>2. 1 \in DOMAIN chain[t] /\ Head(chain[t]) = chain[t][1]
  BY <1>1, HeadType DEF IInv, TypeOK
<1>3. reply[t] = NoReply
  BY <1>1 DEF LockFree, IInv, QueueOK
<1>4. CASE SendLive(t)
  <2>1. /\ sent' = [sent EXCEPT ![t] = [mut |-> chain[t][1].mut, exp |-> cache[t].rev]]
        /\ wal' = [wal EXCEPT ![BrowserOf[t]] =
                     IF wal[BrowserOf[t]].mut = chain[t][1].mut
                     THEN [wal[BrowserOf[t]] EXCEPT !.exp = cache[t].rev]
                     ELSE wal[BrowserOf[t]]]
        /\ chain[t][1].kind = "live"
        /\ UNCHANGED <<clicks, row, log, cache, fetched, base, chain, reply, late>>
    BY <1>0, <1>2, <1>4 DEF SendLive, server
  <2>2. \A x : /\ [wal[BrowserOf[t]] EXCEPT !.exp = x].mut = wal[BrowserOf[t]].mut
               /\ [wal[BrowserOf[t]] EXCEPT !.exp = x].preds = wal[BrowserOf[t]].preds
               /\ [wal[BrowserOf[t]] EXCEPT !.exp = x].exp = x
    BY <1>0 DEF Entry, NoEntry
  <2>3. Elsewhere(t)
    BY <1>0, <2>1 DEF Elsewhere
  <2> QED
    BY <1>0, <1>1, <1>2, <1>3, <2>1, <2>2, <2>3
<1>5. CASE SendReplay(t)
  <2>1. /\ sent' = [sent EXCEPT ![t] = [mut |-> chain[t][1].mut, exp |-> chain[t][1].exp]]
        /\ wal' = wal
        /\ chain[t][1].kind = "replay"
        /\ UNCHANGED <<clicks, row, log, cache, fetched, base, chain, reply, late>>
    BY <1>2, <1>5 DEF SendReplay, server, client
  <2>2. Elsewhere(t)
    BY <1>0, <2>1 DEF Elsewhere
  <2> QED
    BY <1>0, <1>1, <1>2, <1>3, <2>1, <2>2
<1> QED
  BY <1>4, <1>5

\* What queueing a replay does.
LEMMA StartDoes ==
  ASSUME IInv, NEW t \in Tab, StartReplay(t)
  PROVE  /\ UNCHANGED <<clicks, row, log, cache, fetched, base, sent, reply, late, wal>>
         /\ wal[BrowserOf[t]] \in Entry(Known)
         /\ chain'[t] = Append(chain[t], Replay(wal[BrowserOf[t]]))
         /\ Elsewhere(t)
<1>0. /\ DOMAIN chain = Tab /\ BrowserOf[t] \in Browser
      /\ wal[BrowserOf[t]] \in Entry(Known) \cup {NoEntry}
  BY ConstantsAssumption DEF IInv, TypeOK, ClientOK
<1>1. /\ wal[BrowserOf[t]] # NoEntry
      /\ chain' = [chain EXCEPT ![t] = Append(@, Replay(wal[BrowserOf[t]]))]
      /\ UNCHANGED <<clicks, row, log, cache, fetched, base, sent, reply, late, wal>>
  BY DEF StartReplay, server, network
<1> QED
  BY <1>0, <1>1 DEF Elsewhere

\* What a retry does.
LEMMA RetryDoes ==
  ASSUME IInv, NEW t \in Tab, Retry(t)
  PROVE  /\ UNCHANGED <<clicks, row, log, cache, fetched, base, late>>
         /\ reply[t].status = "conflict" /\ MayRetry(t)
         /\ chain[t] # <<>> /\ 1 \in DOMAIN chain[t] /\ Head(chain[t]) = chain[t][1]
         /\ DOMAIN chain'[t] = DOMAIN chain[t]
         /\ \A i \in DOMAIN chain[t] :
              /\ chain'[t][i].kind = chain[t][i].kind /\ chain'[t][i].mut = chain[t][i].mut
              /\ chain'[t][i].exp = chain[t][i].exp /\ chain'[t][i].preds = chain[t][i].preds
         /\ sent[t] # NoReq /\ reply'[t] = NoReply
         /\ sent'[t].mut = sent[t].mut /\ sent'[t].exp = reply[t].row.rev
         /\ wal[BrowserOf[t]].mut = chain[t][1].mut
         /\ wal'[BrowserOf[t]].mut = wal[BrowserOf[t]].mut
         /\ wal'[BrowserOf[t]].preds = wal[BrowserOf[t]].preds
         /\ wal'[BrowserOf[t]].exp = reply[t].row.rev
         /\ Elsewhere(t)
<1> DEFINE b == BrowserOf[t]
<1>0. /\ DOMAIN sent = Tab /\ DOMAIN reply = Tab /\ DOMAIN chain = Tab
      /\ DOMAIN wal = Browser /\ b \in Browser
      /\ wal[b] \in Entry(Known) \cup {NoEntry}
      /\ sent[t] \in Req(Known) \cup {NoReq}
  BY ConstantsAssumption DEF IInv, TypeOK, ClientOK, NetworkOK
<1>1. reply[t] # NoReply /\ reply[t].status = "conflict"
  BY DEF Retry, NoReply
<1>2. chain[t] # <<>> /\ sent[t] # NoReq
  BY <1>1 DEF IInv, QueueOK
<1>3. 1 \in DOMAIN chain[t] /\ Head(chain[t]) = chain[t][1] /\ chain[t][1] \in Job(Known)
  BY <1>2, HeadType DEF IInv, TypeOK
<1>4. /\ MayRetry(t)
      /\ sent' = [sent EXCEPT ![t] = [sent[t] EXCEPT !.exp = reply[t].row.rev]]
      /\ reply' = [reply EXCEPT ![t] = NoReply]
      /\ wal' = [wal EXCEPT ![b] = [wal[b] EXCEPT !.exp = reply[t].row.rev]]
      /\ chain' = [chain EXCEPT ![t] =
                     [chain[t] EXCEPT ![1] = [chain[t][1] EXCEPT !.again = TRUE]]]
      /\ UNCHANGED <<clicks, row, log, cache, fetched, base, late>>
  BY <1>0 DEF Retry, server
<1>5. \A x : /\ [wal[b] EXCEPT !.exp = x].mut = wal[b].mut
             /\ [wal[b] EXCEPT !.exp = x].preds = wal[b].preds
             /\ [wal[b] EXCEPT !.exp = x].exp = x
  BY <1>0 DEF Entry, NoEntry
<1>6. \A x : /\ [sent[t] EXCEPT !.exp = x].mut = sent[t].mut
             /\ [sent[t] EXCEPT !.exp = x].exp = x
  BY <1>0 DEF Req, NoReq
<1>7. /\ [chain[t][1] EXCEPT !.again = TRUE].kind = chain[t][1].kind
      /\ [chain[t][1] EXCEPT !.again = TRUE].mut = chain[t][1].mut
      /\ [chain[t][1] EXCEPT !.again = TRUE].exp = chain[t][1].exp
      /\ [chain[t][1] EXCEPT !.again = TRUE].preds = chain[t][1].preds
  BY <1>3 DEF Job
<1>8. /\ DOMAIN chain'[t] = DOMAIN chain[t]
      /\ \A i \in DOMAIN chain[t] :
           /\ chain'[t][i].kind = chain[t][i].kind /\ chain'[t][i].mut = chain[t][i].mut
           /\ chain'[t][i].exp = chain[t][i].exp /\ chain'[t][i].preds = chain[t][i].preds
  <2>1. chain'[t] = [chain[t] EXCEPT ![1] = [chain[t][1] EXCEPT !.again = TRUE]]
    BY <1>0, <1>4
  <2>2. chain'[t][1] = [chain[t][1] EXCEPT !.again = TRUE]
    BY <1>3, <2>1
  <2>3. DOMAIN chain'[t] = DOMAIN chain[t] /\ \A i \in DOMAIN chain[t] : i # 1 => chain'[t][i] = chain[t][i]
    BY <2>1
  <2> QED
    BY <1>7, <2>2, <2>3
<1>9. wal[b].mut = chain[t][1].mut
  BY <1>3, <1>4 DEF MayRetry
<1>10. Elsewhere(t)
  BY <1>0, <1>4 DEF Elsewhere
<1>11. wal'[b] = [wal[b] EXCEPT !.exp = reply[t].row.rev]
  BY <1>0, <1>4
<1>12. sent'[t] = [sent[t] EXCEPT !.exp = reply[t].row.rev] /\ reply'[t] = NoReply
  BY <1>0, <1>4
<1>13. /\ wal'[b].mut = wal[b].mut /\ wal'[b].preds = wal[b].preds
       /\ wal'[b].exp = reply[t].row.rev
  BY <1>5, <1>11
<1>14. sent'[t].mut = sent[t].mut /\ sent'[t].exp = reply[t].row.rev
  BY <1>6, <1>12
<1>15. UNCHANGED <<clicks, row, log, cache, fetched, base, late>> /\ MayRetry(t)
  BY <1>4
<1> QED
  BY ONLY <1>1, <1>2, <1>3, <1>8, <1>9, <1>10, <1>12, <1>13, <1>14, <1>15

\* The answered row that a tab takes, or the one it falls back to.
LEMMA TakenRev ==
  ASSUME NEW e, NEW r \in Shown \cup {NoRow}
  PROVE  Overlay(e, r).rev = r.rev
<1> DEFINE w == Want(e.mut)
<1>1. \A x : [r EXCEPT !.done = x].rev = r.rev
  BY DEF Shown, NoRow
<1> QED
  BY <1>1 DEF Overlay

LEMMA KeptRev ==
  ASSUME NEW t, NEW r
  PROVE  Kept(t, r).rev \in {-1, r.rev, base[t].rev}
BY DEF Kept, NoRow

\* What the end of a request does, and what a tab that is opened again does.
LEMMA OverDoes ==
  ASSUME IInv, NEW t \in Tab,
         \/ SkipReplay(t) \/ ReceiveOk(t) \/ Reject(t) \/ ReceiveRefusal(t)
         \/ LoseConnection(t) \/ Reload(t)
  PROVE  Over(t) /\ Elsewhere(t)
<1> DEFINE b == BrowserOf[t]
<1>0. /\ DOMAIN sent = Tab /\ DOMAIN reply = Tab /\ DOMAIN chain = Tab
      /\ DOMAIN cache = Tab /\ DOMAIN base = Tab /\ DOMAIN fetched = Tab
      /\ DOMAIN wal = Browser /\ b \in Browser
      /\ chain[t] \in Seq(Job(Known))
      /\ base[t] \in Shown \cup {NoRow}
  BY ConstantsAssumption DEF IInv, TypeOK, ClientOK, NetworkOK
<1>1. ASSUME chain[t] # <<>>, chain'[t] = Tail(chain[t])
      PROVE  \A i \in DOMAIN chain'[t] : /\ i \in Nat /\ i >= 1
                                         /\ i + 1 \in DOMAIN chain[t]
                                         /\ chain'[t][i] = chain[t][i + 1]
  <2>1. /\ Len(chain[t]) \in Nat /\ Len(chain[t]) # 0
        /\ DOMAIN chain[t] = 1..Len(chain[t])
    BY <1>0, <1>1, EmptySeq, LenProperties
  <2>2. /\ Tail(chain[t]) \in Seq(Job(Known))
        /\ Len(Tail(chain[t])) = Len(chain[t]) - 1
        /\ \A i \in 1..Len(Tail(chain[t])) : Tail(chain[t])[i] = chain[t][i + 1]
    BY <1>0, <1>1, HeadTailProperties
  <2>3. DOMAIN Tail(chain[t]) = 1..Len(Tail(chain[t]))
    BY <2>2, LenProperties
  <2> QED
    BY <1>1, <2>1, <2>2, <2>3
<1>2. ASSUME chain[t] # <<>>, Finish(t)
      PROVE  /\ chain'[t] = Tail(chain[t]) /\ sent'[t] = NoReq /\ reply'[t] = NoReply
             /\ \A u \in Tab : u # t => /\ chain'[u] = chain[u] /\ sent'[u] = sent[u]
                                        /\ reply'[u] = reply[u]
  BY <1>0, <1>2 DEF Finish
<1>w. ASSUME NEW m, wal' = [wal EXCEPT ![b] = Without(@, m)]
      PROVE  /\ wal'[b] \in {wal[b], NoEntry}
             /\ \A x \in Browser : x # b => wal'[x] = wal[x]
  BY <1>0, <1>w DEF Without
<1>3. CASE SkipReplay(t)
  <2>1. /\ chain[t] # <<>> /\ chain' = [chain EXCEPT ![t] = Tail(@)]
        /\ UNCHANGED <<wal, cache, fetched, base, clicks, row, log, sent, reply, late>>
        /\ sent[t] = NoReq
    BY <1>3 DEF SkipReplay, LockFree, server, network
  <2>2. reply[t] = NoReply
    BY <2>1 DEF IInv, QueueOK
  <2>3. chain'[t] = Tail(chain[t]) /\ \A u \in Tab : u # t => chain'[u] = chain[u]
    BY <1>0, <2>1
  <2> QED
    BY <1>1, <2>1, <2>2, <2>3 DEF Over, Elsewhere
<1>4. CASE ReceiveOk(t) \/ Reject(t)
  <2>1. reply[t] # NoReply /\ reply[t].row \in Shown
    BY <1>4, AnsweredRow DEF ReceiveOk, Reject, IInv, TypeOK
  <2>2. chain[t] # <<>> /\ Finish(t)
    BY <1>4, <2>1 DEF ReceiveOk, Reject, IInv, QueueOK
  <2>3. /\ UNCHANGED <<clicks, row, log, fetched, late>>
        /\ wal' = [wal EXCEPT ![b] = Without(@, sent[t].mut)]
        /\ cache' = [cache EXCEPT ![t] = Overlay(wal'[b], reply[t].row)]
        /\ base' = [base EXCEPT ![t] = Kept(t, reply[t].row)]
    BY <1>4 DEF ReceiveOk, Reject, Bury, server
  <2>4. cache'[t].rev = reply[t].row.rev /\ base'[t].rev \in {-1, reply[t].row.rev, base[t].rev}
    <3>1. cache'[t] = Overlay(wal'[b], reply[t].row) /\ base'[t] = Kept(t, reply[t].row)
      BY <1>0, <2>3
    <3> QED
      BY <2>1, <3>1, TakenRev, KeptRev
  <2>5. \A u \in Tab : u # t => cache'[u] = cache[u] /\ base'[u] = base[u]
    BY <2>3
  <2>6. UNCHANGED <<clicks, row, log, fetched, late>>
    BY <2>3
  <2>7. /\ wal'[b] \in {wal[b], NoEntry}
        /\ \A x \in Browser : x # b => wal'[x] = wal[x]
    BY <1>w, <2>3
  <2> QED
    BY <1>1, <1>2, <2>2, <2>4, <2>5, <2>6, <2>7 DEF Over, Elsewhere
<1>5. CASE ReceiveRefusal(t)
  <2>1. reply[t] # NoReply
    BY <1>5 DEF ReceiveRefusal, NoReply
  <2>2. chain[t] # <<>> /\ Finish(t)
    BY <1>5, <2>1 DEF ReceiveRefusal, IInv, QueueOK
  <2>3. /\ UNCHANGED <<clicks, row, log, fetched, late>>
        /\ base' = [base EXCEPT ![t] = Kept(t, base[t])]
    BY <1>5 DEF ReceiveRefusal, server
  <2>4. base'[t].rev \in {-1, base[t].rev} /\ \A u \in Tab : u # t => base'[u] = base[u]
    <3>1. base'[t] = Kept(t, base[t])
      BY <1>0, <2>3
    <3> QED
      BY <2>3, <3>1, KeptRev
  <2>5. /\ cache'[t].rev \in {cache[t].rev, base[t].rev}
        /\ \A u \in Tab : u # t => cache'[u] = cache[u]
        /\ wal'[b] \in {wal[b], NoEntry}
        /\ \A x \in Browser : x # b => wal'[x] = wal[x]
    <3>1. CASE UNCHANGED <<wal, dead, cache>>
      BY <3>1
    <3>2. CASE /\ Bury(t, sent[t].mut)
               /\ cache' = [cache EXCEPT ![t] = Overlay(wal'[b], base[t])]
      <4>1. cache'[t] = Overlay(wal'[b], base[t])
        BY <1>0, <3>2
      <4>2. cache'[t].rev = base[t].rev
        BY <1>0, <4>1, TakenRev
      <4>3. wal' = [wal EXCEPT ![b] = Without(@, sent[t].mut)]
        BY <3>2 DEF Bury
      <4>4. \A u \in Tab : u # t => cache'[u] = cache[u]
        BY <3>2
      <4>5. /\ wal'[b] \in {wal[b], NoEntry}
            /\ \A x \in Browser : x # b => wal'[x] = wal[x]
        BY <1>w, <4>3
      <4> QED
        BY <4>2, <4>4, <4>5
    <3> QED
      BY <1>5, <3>1, <3>2 DEF ReceiveRefusal
  <2>6. UNCHANGED <<clicks, row, log, fetched, late>>
    BY <2>3
  <2> QED
    BY <1>1, <1>2, <2>2, <2>4, <2>5, <2>6 DEF Over, Elsewhere
<1>6. CASE LoseConnection(t)
  <2>1. chain[t] # <<>> /\ Finish(t)
    BY <1>6 DEF LoseConnection, IInv, QueueOK
  <2>2. /\ UNCHANGED <<clicks, row, log, fetched, cache, wal>>
        /\ base' = [base EXCEPT ![t] = Kept(t, base[t])]
    BY <1>6 DEF LoseConnection, server
  <2>3. \/ late' = late
        \/ sent[t] # NoReq /\ reply[t] = NoReply /\ late' = late \cup {sent[t]}
    BY <1>6 DEF LoseConnection, Abandon
  <2>4. base'[t].rev \in {-1, base[t].rev} /\ \A u \in Tab : u # t => base'[u] = base[u]
    <3>1. base'[t] = Kept(t, base[t])
      BY <1>0, <2>2
    <3> QED
      BY <2>2, <3>1, KeptRev
  <2>5. UNCHANGED <<clicks, row, log, fetched, cache, wal>>
    BY <2>2
  <2> QED
    BY <1>1, <1>2, <2>1, <2>3, <2>4, <2>5 DEF Over, Elsewhere
<1>7. CASE Reload(t)
  <2>1. /\ UNCHANGED <<clicks, row, log, wal>>
        /\ \/ late' = late
           \/ sent[t] # NoReq /\ reply[t] = NoReply /\ late' = late \cup {sent[t]}
    BY <1>7 DEF Reload, Abandon, server
  <2>2. /\ chain'[t] = <<>> /\ sent'[t] = NoReq /\ reply'[t] = NoReply
        /\ base'[t] = NoRow /\ fetched'[t] = NoRow
        /\ cache'[t] = Overlay(wal[b], [done |-> row.done, rev |-> row.rev])
    BY <1>0, <1>7 DEF Reload
  <2>3. Elsewhere(t)
    BY <1>7, <2>1 DEF Reload, Elsewhere
  <2>4. cache'[t].rev = row.rev
    <3>1. [done |-> row.done, rev |-> row.rev] \in Shown
      BY DEF IInv, TypeOK, ServerOK, Row, Shown
    <3> QED
      BY <2>2, <3>1, TakenRev
  <2>5. DOMAIN chain'[t] = {}
    BY <2>2
  <2> QED
    BY <2>1, <2>2, <2>3, <2>4, <2>5 DEF Over, NoRow
<1> QED
  BY <1>3, <1>4, <1>5, <1>6, <1>7

LEMMA ReadsDoes ==
  ASSUME IInv, NEW t \in Tab,
         Refresh(t) \/ SlowRead(t) \/ SlowAnswer(t) \/ RefuseRequest(t)
  PROVE  Reads(t) /\ Elsewhere(t)
<1>0. /\ DOMAIN cache = Tab /\ DOMAIN fetched = Tab /\ DOMAIN reply = Tab
      /\ fetched[t] \in Shown \cup {NoRow}
      /\ [done |-> row.done, rev |-> row.rev] \in Shown
  BY DEF IInv, TypeOK, ClientOK, NetworkOK, ServerOK, Row, Shown
<1>1. CASE Refresh(t)
  <2>1. /\ UNCHANGED <<clicks, row, log, chain, sent, wal, late, base, reply, fetched>>
        /\ cache' = [cache EXCEPT ![t] = Overlay(wal[BrowserOf[t]],
                                                 [done |-> row.done, rev |-> row.rev])]
    BY <1>1 DEF Refresh, server, network
  <2>2. cache'[t].rev = row.rev
    BY <1>0, <2>1, TakenRev
  <2> QED
    BY <2>1, <2>2 DEF Reads, Elsewhere
<1>2. CASE SlowRead(t)
  <2>1. /\ UNCHANGED <<clicks, row, log, chain, sent, wal, late, base, reply, cache>>
        /\ fetched' = [fetched EXCEPT ![t] = [done |-> row.done, rev |-> row.rev]]
    BY <1>2 DEF SlowRead, server
  <2> QED
    BY <1>0, <2>1 DEF Reads, Elsewhere
<1>3. CASE SlowAnswer(t)
  <2>1. /\ UNCHANGED <<clicks, row, log, chain, sent, wal, late, base, reply>>
        /\ cache' = [cache EXCEPT ![t] = Overlay(wal[BrowserOf[t]], fetched[t])]
        /\ fetched' = [fetched EXCEPT ![t] = NoRow]
    BY <1>3 DEF SlowAnswer, server, network
  <2>2. cache'[t].rev = fetched[t].rev
    BY <1>0, <2>1, TakenRev
  <2> QED
    BY <1>0, <2>1, <2>2 DEF Reads, Elsewhere, NoRow
<1>4. CASE RefuseRequest(t)
  BY <1>0, <1>4 DEF RefuseRequest, Reads, Elsewhere, server, client
<1> QED
  BY <1>1, <1>2, <1>3, <1>4

\* What serving a request does: a new mark takes the row's current revision, and
\* a move makes a new one.
LEMMA ServeDoes ==
  ASSUME TypeOK, NEW m \in Known, NEW exp, Serve(m, exp)
  PROVE  /\ UNCHANGED <<clicks, wal, dead, cache, fetched, base, chain>>
         /\ row' = Outcome(m, exp).row
         /\ row.rev \in Nat /\ row'.rev \in Nat /\ row'.rev >= row.rev
         /\ \/ log' = log /\ row'.mut = row.mut
            \/ log' = log /\ row'.mut = m /\ exp = row.rev
            \/ /\ log' = Append(log, m) /\ row'.mut = m
               /\ exp = row.rev /\ row'.rev > row.rev
               /\ row.done # Want(m) /\ row'.done = Want(m)
               /\ Outcome(m, exp).status = "ok"
         /\ Outcome(m, exp).status \in {"ok", "conflict"}
         /\ Outcome(m, exp).status = "conflict" => row' = row /\ log' = log
<1>1. row \in Row(Known)
  BY DEF TypeOK, ServerOK
<1>2. row.rev \in Nat
  BY <1>1 DEF Row
<1>3. /\ Committed(m).mut = m /\ Committed(m).done = Want(m)
      /\ Committed(m).rev = IF row.done # Want(m) \/ row.rev = 0 THEN row.rev + 1 ELSE row.rev
  BY <1>1 DEF Committed, Row
<1>4. /\ row' = Outcome(m, exp).row
      /\ log' = IF row'.done # row.done THEN Append(log, m) ELSE log
      /\ UNCHANGED <<clicks, wal, dead, cache, fetched, base, chain>>
  BY DEF Serve, client
<1>5. CASE SameMutation(m)
  BY <1>2, <1>4, <1>5 DEF Outcome
<1>6. CASE ~SameMutation(m) /\ exp # row.rev
  BY <1>2, <1>4, <1>6 DEF Outcome
<1>7. CASE ~SameMutation(m) /\ exp = row.rev
  <2>1. row' = Committed(m) /\ Outcome(m, exp).status = "ok"
    BY <1>4, <1>7 DEF Outcome
  <2> QED
    BY <1>2, <1>3, <1>4, <1>7, <2>1
<1> QED
  BY <1>5, <1>6, <1>7

LEMMA ServeRequestDoes ==
  ASSUME IInv, NEW t \in Tab, ServeRequest(t)
  PROVE  /\ sent[t] # NoReq /\ reply[t] = NoReply
         /\ sent[t] \in Req(Known) /\ Serve(sent[t].mut, sent[t].exp)
         /\ UNCHANGED <<sent, late>>
         /\ reply'[t].status = Outcome(sent[t].mut, sent[t].exp).status
         /\ reply'[t].mut = row'.mut /\ reply'[t].row.rev = row'.rev
         /\ \A u \in Tab : u # t => reply'[u] = reply[u]
<1>0. DOMAIN reply = Tab /\ sent[t] \in Req(Known) \cup {NoReq}
  BY DEF IInv, TypeOK, NetworkOK
<1>1. /\ sent[t] # NoReq /\ reply[t] = NoReply
      /\ Serve(sent[t].mut, sent[t].exp)
      /\ UNCHANGED <<sent, late>>
      /\ row' = Outcome(sent[t].mut, sent[t].exp).row
  BY DEF ServeRequest, Serve
<1>2. reply' = [reply EXCEPT ![t] =
                  [status |-> Outcome(sent[t].mut, sent[t].exp).status, mut |-> row'.mut,
                   row |-> [done |-> row'.done, rev |-> row'.rev]]]
  BY <1>1 DEF ServeRequest
<1> HIDE DEF Outcome
<1> QED
  BY <1>0, <1>1, <1>2

-----------------------------------------------------------------------------
(***************************************************************************)
(* The parts of OrderInv, one after the other.                             *)
(***************************************************************************)

\* Every step of a tab is one of a few kinds.
LEMMA Kinds ==
  ASSUME IInv, [Next]_vars
  PROVE  \/ UNCHANGED <<clicks, row, log, wal, cache, fetched, base, chain, sent, reply, late>>
         \/ \E t \in Tab :
              \/ Click(t) \/ SendLive(t) \/ SendReplay(t) \/ StartReplay(t)
              \/ Retry(t) \/ ServeRequest(t) \/ OrdinaryWrite(t)
              \/ Over(t) /\ Elsewhere(t)
              \/ Reads(t) /\ Elsewhere(t)
         \/ \E q \in late : ServeLate(q)
<1>1. CASE UNCHANGED vars
  BY <1>1 DEF vars
<1>2. ASSUME NEW t \in Tab,
             \/ SkipReplay(t) \/ ReceiveOk(t) \/ Reject(t) \/ ReceiveRefusal(t)
             \/ LoseConnection(t) \/ Reload(t)
      PROVE  Over(t) /\ Elsewhere(t)
  BY <1>2, OverDoes
<1>3. ASSUME NEW t \in Tab,
             Refresh(t) \/ SlowRead(t) \/ SlowAnswer(t) \/ RefuseRequest(t)
      PROVE  Reads(t) /\ Elsewhere(t)
  BY <1>3, ReadsDoes
<1> QED
  BY <1>1, <1>2, <1>3 DEF Next, Progress

LEMMA WriteDoes ==
  ASSUME IInv, NEW t \in Tab, OrdinaryWrite(t)
  PROVE  /\ UNCHANGED <<clicks, log, wal, cache, fetched, base, chain, sent, reply, late>>
         /\ row'.rev = row.rev /\ row'.mut = row.mut /\ row'.done = row.done
<1>1. row'.rev = row.rev /\ row'.mut = row.mut /\ row'.done = row.done
  BY DEF OrdinaryWrite, PreserveCompletion
<1> QED
  BY <1>1 DEF OrdinaryWrite, client, network

\* Appending to a queue.
LEMMA AppendAt ==
  ASSUME NEW S, NEW s \in Seq(S), NEW x \in S
  PROVE  /\ Len(s) \in Nat /\ DOMAIN s = 1..Len(s)
         /\ DOMAIN Append(s, x) = DOMAIN s \cup {Len(s) + 1}
         /\ Append(s, x)[Len(s) + 1] = x
         /\ \A i \in DOMAIN s : i < Len(s) + 1 /\ Append(s, x)[i] = s[i]
<1>1. /\ Len(s) \in Nat /\ DOMAIN s = 1..Len(s)
      /\ Append(s, x) \in Seq(S) /\ Len(Append(s, x)) = Len(s) + 1
      /\ Append(s, x)[Len(s) + 1] = x
      /\ \A i \in 1..Len(s) : Append(s, x)[i] = s[i]
  BY AppendProperties, LenProperties
<1>2. DOMAIN Append(s, x) = 1..(Len(s) + 1)
  BY <1>1, LenProperties
<1> QED
  BY <1>1, <1>2

\* Nobody has a revision that the row never had.
LEMMA RevsStep == RevsOK /\ IInv /\ [Next]_vars => RevsOK'
<1> SUFFICES ASSUME RevsOK, IInv, [Next]_vars PROVE RevsOK'
  OBVIOUS
<1> DEFINE TabRevs(t) ==
      /\ cache[t].rev <= row.rev /\ fetched[t].rev <= row.rev
      /\ base[t].rev <= row.rev
      /\ sent[t].exp <= row.rev /\ reply[t].row.rev <= row.rev
      /\ \A i \in DOMAIN chain[t] : chain[t][i].exp <= row.rev
<1>0. TypeOK
  BY DEF IInv
<1>n. /\ row.rev \in Nat
      /\ \A t \in Tab : /\ cache[t].rev \in Nat /\ fetched[t].rev \in Int
                        /\ base[t].rev \in Int /\ sent[t].exp \in Nat
                        /\ reply[t].row.rev \in Int
                        /\ \A i \in DOMAIN chain[t] : chain[t][i].exp \in Nat
      /\ \A b \in Browser : wal[b].exp \in Nat
      /\ \A q \in late : q.exp \in Nat
      /\ \A t \in Tab : BrowserOf[t] \in Browser
  BY <1>0, Numbers, ConstantsAssumption
<1>o. /\ \A t \in Tab : TabRevs(t)
      /\ \A b \in Browser : wal[b].exp <= row.rev
      /\ \A q \in late : q.exp <= row.rev
  BY DEF RevsOK
<1> SUFFICES /\ \A t \in Tab : TabRevs(t)'
             /\ \A b \in Browser : wal'[b].exp <= row'.rev
             /\ \A q \in late' : q.exp <= row'.rev
  BY DEF RevsOK
<1>e. ASSUME NEW t \in Tab, row'.rev = row.rev, Elsewhere(t), TabRevs(t)',
             wal'[BrowserOf[t]].exp <= row.rev, \A q \in late' : q.exp <= row.rev
      PROVE  /\ \A u \in Tab : TabRevs(u)'
             /\ \A b \in Browser : wal'[b].exp <= row'.rev
             /\ \A q \in late' : q.exp <= row'.rev
  BY <1>o, <1>e DEF Elsewhere
<1>1. CASE UNCHANGED <<clicks, row, log, wal, cache, fetched, base, chain, sent, reply, late>>
  BY <1>1, <1>o
<1>2. ASSUME NEW t \in Tab, Click(t)
      PROVE  /\ \A u \in Tab : TabRevs(u)'
             /\ \A b \in Browser : wal'[b].exp <= row'.rev
             /\ \A q \in late' : q.exp <= row'.rev
  <2>m. PICK m : m = Len(clicks) + 1
    OBVIOUS
  <2>1. /\ wal'[BrowserOf[t]] = Superseding(t, m)
        /\ chain'[t] = Append(chain[t], Live(m))
        /\ cache'[t].rev = cache[t].rev
        /\ base'[t] \in {base[t], cache[t]}
        /\ UNCHANGED <<fetched, sent, reply, late, row, log>>
        /\ Elsewhere(t)
    BY <1>0, <1>2, <2>m, ClickDoes
  <2>2. wal'[BrowserOf[t]].exp <= row.rev
    BY <1>o, <2>1 DEF Superseding
  <2>3. \A i \in DOMAIN chain'[t] : chain'[t][i].exp <= row.rev
    <3>1. chain[t] \in Seq(Job(Known) \cup {Live(m)})
      <4>1. chain[t] \in Seq(Job(Known))
        BY <1>0 DEF TypeOK, ClientOK
      <4> QED
        BY <4>1, SeqMonotonic
    <3>2. Live(m).exp = 0
      BY DEF Live
    <3> QED
      BY <1>n, <1>o, <2>1, <3>1, <3>2, AppendAt
  <2>4. TabRevs(t)'
    BY <1>o, <2>1, <2>3
  <2> QED
    BY <1>e, <1>o, <2>1, <2>2, <2>4
<1>3. ASSUME NEW t \in Tab, SendLive(t) \/ SendReplay(t)
      PROVE  /\ \A u \in Tab : TabRevs(u)'
             /\ \A b \in Browser : wal'[b].exp <= row'.rev
             /\ \A q \in late' : q.exp <= row'.rev
  <2>1. /\ UNCHANGED <<clicks, row, log, cache, fetched, base, chain, reply, late>>
        /\ 1 \in DOMAIN chain[t]
        /\ sent'[t].exp \in {cache[t].rev, chain[t][1].exp}
        /\ wal'[BrowserOf[t]].exp \in {wal[BrowserOf[t]].exp, cache[t].rev}
        /\ Elsewhere(t)
    BY <1>3, SendDoes
  <2>2. TabRevs(t)' /\ wal'[BrowserOf[t]].exp <= row.rev
    BY <1>n, <1>o, <2>1
  <2> QED
    BY <1>e, <1>o, <2>1, <2>2
<1>4. ASSUME NEW t \in Tab, StartReplay(t)
      PROVE  /\ \A u \in Tab : TabRevs(u)'
             /\ \A b \in Browser : wal'[b].exp <= row'.rev
             /\ \A q \in late' : q.exp <= row'.rev
  <2>1. /\ UNCHANGED <<clicks, row, log, cache, fetched, base, sent, reply, late, wal>>
        /\ wal[BrowserOf[t]] \in Entry(Known)
        /\ chain'[t] = Append(chain[t], Replay(wal[BrowserOf[t]]))
        /\ Elsewhere(t)
    BY <1>4, StartDoes
  <2>2. \A i \in DOMAIN chain'[t] : chain'[t][i].exp <= row.rev
    <3>1. chain[t] \in Seq(Job(Known))
      BY <1>0 DEF TypeOK, ClientOK
    <3>2. Replay(wal[BrowserOf[t]]) \in Job(Known)
      BY <2>1 DEF Replay, Entry, Job
    <3>3. Replay(wal[BrowserOf[t]]).exp = wal[BrowserOf[t]].exp
      BY DEF Replay
    <3> QED
      BY <1>n, <1>o, <2>1, <3>1, <3>2, <3>3, AppendAt
  <2>3. TabRevs(t)' /\ wal'[BrowserOf[t]].exp <= row.rev
    BY <1>n, <1>o, <2>1, <2>2
  <2> QED
    BY <1>e, <1>o, <2>1, <2>3
<1>5. ASSUME NEW t \in Tab, Retry(t)
      PROVE  /\ \A u \in Tab : TabRevs(u)'
             /\ \A b \in Browser : wal'[b].exp <= row'.rev
             /\ \A q \in late' : q.exp <= row'.rev
  <2>1. /\ UNCHANGED <<clicks, row, log, cache, fetched, base, late>>
        /\ DOMAIN chain'[t] = DOMAIN chain[t]
        /\ \A i \in DOMAIN chain[t] : chain'[t][i].exp = chain[t][i].exp
        /\ reply'[t] = NoReply /\ sent'[t].exp = reply[t].row.rev
        /\ wal'[BrowserOf[t]].exp = reply[t].row.rev
        /\ Elsewhere(t)
    BY <1>5, RetryDoes
  <2>2. NoReply.row.rev <= row.rev
    BY <1>n DEF NoReply, NoRow
  <2>3. TabRevs(t)' /\ wal'[BrowserOf[t]].exp <= row.rev
    BY <1>n, <1>o, <2>1, <2>2
  <2> QED
    BY <1>e, <1>o, <2>1, <2>3
<1>6. ASSUME NEW t \in Tab, Over(t), Elsewhere(t)
      PROVE  /\ \A u \in Tab : TabRevs(u)'
             /\ \A b \in Browser : wal'[b].exp <= row'.rev
             /\ \A q \in late' : q.exp <= row'.rev
  <2>1. -1 <= row.rev /\ NoReq.exp <= row.rev /\ NoReply.row.rev <= row.rev
        /\ NoEntry.exp <= row.rev
    BY <1>n DEF NoReq, NoReply, NoRow, NoEntry
  <2>2. row' = row
    BY <1>6 DEF Over
  <2>3. /\ cache'[t].rev <= row.rev /\ fetched'[t].rev <= row.rev
        /\ base'[t].rev <= row.rev
    BY <1>6, <1>n, <1>o, <2>1 DEF Over
  <2>4. sent'[t].exp <= row.rev /\ reply'[t].row.rev <= row.rev
    BY <1>6, <2>1 DEF Over
  <2>5. \A i \in DOMAIN chain'[t] : chain'[t][i].exp <= row.rev
    BY <1>6, <1>o DEF Over
  <2>6. wal'[BrowserOf[t]].exp <= row.rev
    BY <1>6, <1>n, <1>o, <2>1 DEF Over
  <2>7. \A q \in late' : q.exp <= row.rev
    BY <1>6, <1>o DEF Over
  <2>8. TabRevs(t)'
    BY <2>2, <2>3, <2>4, <2>5
  <2> QED
    BY <1>e, <1>6, <2>2, <2>6, <2>7, <2>8
<1>7. ASSUME NEW t \in Tab, Reads(t), Elsewhere(t)
      PROVE  /\ \A u \in Tab : TabRevs(u)'
             /\ \A b \in Browser : wal'[b].exp <= row'.rev
             /\ \A q \in late' : q.exp <= row'.rev
  <2>1. -1 <= row.rev /\ Refused.row.rev <= row.rev
    BY <1>n DEF Refused, NoRow
  <2>2. /\ cache'[t].rev <= row.rev /\ fetched'[t].rev <= row.rev
        /\ reply'[t].row.rev <= row.rev
    BY <1>7, <1>n, <1>o, <2>1 DEF Reads
  <2>3. TabRevs(t)' /\ wal' = wal /\ late' = late /\ row' = row
    BY <1>7, <1>o, <2>2 DEF Reads
  <2> QED
    BY <1>e, <1>7, <1>n, <1>o, <2>3
<1>8. ASSUME NEW m \in Known, NEW exp, Serve(m, exp), sent' = sent, late' \subseteq late,
             \A t \in Tab : reply'[t] = reply[t] \/ reply'[t].row.rev = row'.rev
      PROVE  /\ \A u \in Tab : TabRevs(u)'
             /\ \A b \in Browser : wal'[b].exp <= row'.rev
             /\ \A q \in late' : q.exp <= row'.rev
  <2>1. /\ UNCHANGED <<wal, cache, fetched, base, chain>>
        /\ row'.rev \in Nat /\ row'.rev >= row.rev
    BY <1>0, <1>8, ServeDoes
  <2> QED
    BY <1>8, <1>n, <1>o, <2>1
<1>9. ASSUME NEW t \in Tab, ServeRequest(t)
      PROVE  /\ \A u \in Tab : TabRevs(u)'
             /\ \A b \in Browser : wal'[b].exp <= row'.rev
             /\ \A q \in late' : q.exp <= row'.rev
  <2>1. sent[t].mut \in Known
    BY <1>9, ServeRequestDoes DEF Req
  <2>2. /\ Serve(sent[t].mut, sent[t].exp) /\ sent' = sent /\ late' = late
        /\ \A u \in Tab : reply'[u] = reply[u] \/ reply'[u].row.rev = row'.rev
    BY <1>9, ServeRequestDoes
  <2> QED
    BY <1>8, <2>1, <2>2
<1>10. ASSUME NEW q \in late, ServeLate(q)
       PROVE  /\ \A u \in Tab : TabRevs(u)'
              /\ \A b \in Browser : wal'[b].exp <= row'.rev
              /\ \A p \in late' : p.exp <= row'.rev
  <2>1. q.mut \in Known
    BY <1>0 DEF TypeOK, NetworkOK, Req
  <2>2. Serve(q.mut, q.exp) /\ sent' = sent /\ late' \subseteq late /\ reply' = reply
    BY <1>10 DEF ServeLate
  <2> QED
    BY <1>8, <2>1, <2>2
<1>11. ASSUME NEW t \in Tab, OrdinaryWrite(t)
       PROVE  /\ \A u \in Tab : TabRevs(u)'
              /\ \A b \in Browser : wal'[b].exp <= row'.rev
              /\ \A q \in late' : q.exp <= row'.rev
  BY <1>11, <1>o, WriteDoes
<1> HIDE DEF TabRevs
<1> QED
  BY <1>1, <1>2, <1>3, <1>4, <1>5, <1>6, <1>7, <1>9, <1>10, <1>11, Kinds

\* While no click is made, browsers, orders and histories stay; a new click leaves
\* those of the older ones.
LEMMA SameClicks ==
  ASSUME clicks' = clicks
  PROVE  /\ Known' = Known
         /\ \A m : Home(m)' = Home(m) /\ Older(m)' = Older(m)
         /\ log' = log => \A m : Spent(m)' = Spent(m)
BY DEF Known, Home, Older, Spent, Moved

LEMMA MoreClicks ==
  ASSUME TypeOK, NEW t \in Tab, Click(t), NEW m, m = Len(clicks) + 1
  PROVE  /\ \A k \in Known : Older(k)' = Older(k) /\ (Spent(k)' <=> Spent(k))
         /\ \A n : n \in Older(m)' <=> n \in Known /\ Home(n) = BrowserOf[t]
         /\ ~Spent(m)' /\ Moved' = Moved /\ Moved \subseteq Known
<1>1. /\ Known' = Known \cup {m} /\ m \notin Known
      /\ \A k \in Known : k < m /\ Home(k)' = Home(k)
      /\ Home(m)' = BrowserOf[t]
      /\ log' = log
  BY ClickDoes
<1>2. Known \subseteq Nat /\ m \in Nat
  BY KnownNat
<1>3. Moved' = Moved
  BY <1>1 DEF Moved
<1>4. Moved \subseteq Known
  <2>1. log \in Seq(Known)
    BY DEF TypeOK, ServerOK
  <2>2. \A i \in DOMAIN log : log[i] \in Known
    BY <2>1, LenProperties, ElementOfSeq
  <2> QED
    BY <2>2 DEF Moved, ToSet
<1>5. ASSUME NEW k \in Known PROVE Older(k)' = Older(k)
  <2>1. \A n : n \in Known' /\ n < k <=> n \in Known /\ n < k
    BY <1>1, <1>2
  <2> QED
    BY <1>1, <2>1 DEF Older
<1>6. ASSUME NEW k \in Known PROVE Spent(k)' <=> Spent(k)
  BY <1>1, <1>3, <1>4 DEF Spent
<1>7. \A n : n \in Older(m)' <=> n \in Known /\ Home(n) = BrowserOf[t]
  <2>0. ~(m < m) /\ \A k \in Known : k < m
    BY <1>1, <1>2
  <2>1. \A n : n \in Known' /\ n < m <=> n \in Known
    BY ONLY <1>1, <2>0
  <2> QED
    BY <1>1, <2>1 DEF Older
<1>8. ~Spent(m)'
  BY <1>1, <1>2, <1>3, <1>4 DEF Spent
<1> QED
  BY <1>3, <1>4, <1>5, <1>6, <1>7, <1>8

\* A queue gets one more job.
LEMMA QueueMore ==
  ASSUME TypeOK, NEW t \in Tab, NEW j, chain'[t] = Append(chain[t], j)
  PROVE  \E l \in Nat : /\ \A i \in DOMAIN chain[t] : i \in Nat /\ i < l
                        /\ DOMAIN chain'[t] = DOMAIN chain[t] \cup {l}
                        /\ chain'[t][l] = j
                        /\ \A i \in DOMAIN chain[t] : chain'[t][i] = chain[t][i]
<1>1. chain[t] \in Seq(Job(Known) \cup {j})
  BY SeqMonotonic DEF TypeOK, ClientOK
<1>2. Len(chain[t]) + 1 \in Nat
  BY <1>1, AppendAt
<1> QED
  BY <1>1, <1>2, AppendAt

\* A browser's log and queue keep to its own clicks.
LEMMA OwnStep == OwnOK /\ IInv /\ [Next]_vars => OwnOK'
<1> SUFFICES ASSUME OwnOK, IInv, [Next]_vars PROVE OwnOK'
  OBVIOUS
<1> DEFINE LogOwn(b) ==
      wal[b].mut # 0 => /\ Home(wal[b].mut) = b
                        /\ wal[b].preds \subseteq Older(wal[b].mut)
<1> DEFINE TabOwn(t) ==
      /\ \A i \in DOMAIN chain[t] :
           /\ Home(chain[t][i].mut) = BrowserOf[t]
           /\ chain[t][i].preds \subseteq Older(chain[t][i].mut)
      /\ sent[t] # NoReq => sent[t].mut = chain[t][1].mut
<1> DEFINE Goal == (\A b \in Browser : LogOwn(b)') /\ (\A u \in Tab : TabOwn(u)')
<1>0. /\ TypeOK
      /\ \A t \in Tab : BrowserOf[t] \in Browser
      /\ wal \in [Browser -> Entry(Known) \cup {NoEntry}]
  BY ConstantsAssumption DEF IInv, TypeOK, ClientOK
<1>o. (\A b \in Browser : LogOwn(b)) /\ (\A u \in Tab : TabOwn(u))
  BY DEF OwnOK
<1> SUFFICES Goal
  BY DEF OwnOK
<1>e. ASSUME NEW t \in Tab, clicks' = clicks, Elsewhere(t), LogOwn(BrowserOf[t])', TabOwn(t)'
      PROVE  Goal
  <2>1. ASSUME NEW u \in Tab, u # t PROVE TabOwn(u)'
    BY <1>e, <1>o, <2>1, SameClicks DEF Elsewhere
  <2>2. ASSUME NEW b \in Browser, b # BrowserOf[t] PROVE LogOwn(b)'
    BY <1>e, <1>o, <2>2, SameClicks DEF Elsewhere
  <2> QED
    BY <1>e, <2>1, <2>2
<1>1. ASSUME UNCHANGED <<clicks, wal, chain, sent>> PROVE Goal
  BY <1>1, <1>o, SameClicks
<1>2. ASSUME NEW t \in Tab, Click(t) PROVE Goal
  <2>m. PICK m : m = Len(clicks) + 1
    OBVIOUS
  <2>1. /\ Known' = Known \cup {m} /\ m \notin Known
        /\ \A k \in Known : k < m /\ Home(k)' = Home(k)
        /\ Home(m)' = BrowserOf[t]
        /\ wal'[BrowserOf[t]] = Superseding(t, m)
        /\ chain'[t] = Append(chain[t], Live(m))
        /\ sent' = sent
        /\ Elsewhere(t)
    BY <1>0, <1>2, <2>m, ClickDoes
  <2>2. /\ \A k \in Known : Older(k)' = Older(k)
        /\ \A n : n \in Older(m)' <=> n \in Known /\ Home(n) = BrowserOf[t]
    BY <1>0, <1>2, <2>m, MoreClicks
  <2>3. \A u \in Tab : \A i \in DOMAIN chain[u] : chain[u][i].mut \in Known
    BY <1>0, JobAt DEF Job
  <2>h. \A k \in Known : Older(k) = {n \in Known : n < k /\ Home(n) = Home(k)}
    BY DEF Older
  <2>0. 0 \notin Known
    BY <1>0, KnownNat
  <2>4. LogOwn(BrowserOf[t])'
    <3> DEFINE old == wal[BrowserOf[t]]
    <3>1. /\ wal'[BrowserOf[t]].mut = m
          /\ wal'[BrowserOf[t]].preds = IF old = NoEntry THEN {} ELSE old.preds \cup {old.mut}
      BY <2>1 DEF Superseding
    <3>2. ASSUME old # NoEntry PROVE old.preds \cup {old.mut} \subseteq Older(m)'
      <4>1. old \in Entry(Known)
        BY <1>0, <3>2
      <4>2. old.mut \in Known /\ old.mut # 0
        BY <4>1, <2>0 DEF Entry
      <4>3. Home(old.mut) = BrowserOf[t] /\ old.preds \subseteq Older(old.mut)
        BY <1>0, <1>o, <4>2
      <4> QED
        BY <4>2, <4>3, <2>2, <2>h
    <3> QED
      BY <2>1, <3>1, <3>2
  <2>5. ASSUME NEW b \in Browser, b # BrowserOf[t] PROVE LogOwn(b)'
    <3>1. wal'[b] = wal[b]
      BY <2>1, <2>5 DEF Elsewhere
    <3>2. wal[b].mut # 0 => wal[b].mut \in Known
      BY <1>0 DEF Entry, NoEntry
    <3> QED
      BY <1>o, <2>1, <2>2, <3>1, <3>2
  <2>6. ASSUME NEW u \in Tab, u # t PROVE TabOwn(u)'
    <3>1. chain'[u] = chain[u] /\ sent'[u] = sent[u]
      BY <2>1, <2>6 DEF Elsewhere
    <3> QED
      BY <1>o, <2>1, <2>2, <2>3, <3>1
  <2>7. TabOwn(t)'
    <3>1. PICK l \in Nat : /\ \A i \in DOMAIN chain[t] : i \in Nat /\ i < l
                           /\ DOMAIN chain'[t] = DOMAIN chain[t] \cup {l}
                           /\ chain'[t][l] = Live(m)
                           /\ \A i \in DOMAIN chain[t] : chain'[t][i] = chain[t][i]
      BY <1>0, <2>1, QueueMore
    <3>2. Live(m).mut = m /\ Live(m).preds = {}
      BY DEF Live
    <3>3. \A i \in DOMAIN chain'[t] :
            /\ Home(chain[t][i].mut)' = BrowserOf[t]
            /\ chain'[t][i].preds \subseteq Older(chain[t][i].mut)'
      BY <1>o, <2>1, <2>2, <2>3, <3>1, <3>2 DEF Home, Older
    <3>4. sent[t] # NoReq => 1 \in DOMAIN chain[t]
      <4>1. sent[t] # NoReq => chain[t] # <<>>
        BY DEF IInv, QueueOK
      <4> QED
        BY <4>1, <1>0, HeadType DEF TypeOK
    <3> QED
      BY <1>o, <2>1, <3>1, <3>3, <3>4
  <2> QED
    BY <2>4, <2>5, <2>6, <2>7
<1>3. ASSUME NEW t \in Tab, SendLive(t) \/ SendReplay(t) PROVE Goal
  <2>1. /\ clicks' = clicks /\ chain' = chain
        /\ sent'[t].mut = chain[t][1].mut
        /\ wal'[BrowserOf[t]].mut = wal[BrowserOf[t]].mut
        /\ wal'[BrowserOf[t]].preds = wal[BrowserOf[t]].preds
        /\ Elsewhere(t)
    BY <1>3, SendDoes
  <2>2. LogOwn(BrowserOf[t])' /\ TabOwn(t)'
    BY <1>0, <1>o, <2>1, SameClicks
  <2> QED
    BY <1>e, <2>1, <2>2
<1>4. ASSUME NEW t \in Tab, StartReplay(t) PROVE Goal
  <2>1. /\ clicks' = clicks /\ sent' = sent /\ wal' = wal
        /\ wal[BrowserOf[t]] \in Entry(Known)
        /\ chain'[t] = Append(chain[t], Replay(wal[BrowserOf[t]]))
        /\ Elsewhere(t)
    BY <1>4, StartDoes
  <2>2. PICK l \in Nat : /\ \A i \in DOMAIN chain[t] : i \in Nat /\ i < l
                         /\ DOMAIN chain'[t] = DOMAIN chain[t] \cup {l}
                         /\ chain'[t][l] = Replay(wal[BrowserOf[t]])
                         /\ \A i \in DOMAIN chain[t] : chain'[t][i] = chain[t][i]
    BY <1>0, <2>1, QueueMore
  <2>3. /\ Replay(wal[BrowserOf[t]]).mut = wal[BrowserOf[t]].mut
        /\ Replay(wal[BrowserOf[t]]).preds = wal[BrowserOf[t]].preds
    BY DEF Replay
  <2>4. wal[BrowserOf[t]].mut # 0
    BY <1>0, <2>1, KnownNat DEF Entry
  <2>5. sent[t] # NoReq => 1 \in DOMAIN chain[t]
    <3>1. sent[t] # NoReq => chain[t] # <<>>
      BY DEF IInv, QueueOK
    <3> QED
      BY <3>1, <1>0, HeadType DEF TypeOK
  <2>6. LogOwn(BrowserOf[t])'
    BY <1>0, <1>o, <2>1, SameClicks
  <2>7. \A i \in DOMAIN chain'[t] :
          /\ Home(chain'[t][i].mut) = BrowserOf[t]
          /\ chain'[t][i].preds \subseteq Older(chain'[t][i].mut)
    <3>1. /\ Home(wal[BrowserOf[t]].mut) = BrowserOf[t]
          /\ wal[BrowserOf[t]].preds \subseteq Older(wal[BrowserOf[t]].mut)
      BY <1>0, <1>o, <2>4
    <3> QED
      BY <1>o, <2>2, <2>3, <3>1
  <2>8. TabOwn(t)'
    BY <1>o, <2>1, <2>2, <2>5, <2>7, SameClicks
  <2> QED
    BY <1>e, <2>1, <2>6, <2>8
<1>5. ASSUME NEW t \in Tab, Retry(t) PROVE Goal
  <2>1. /\ clicks' = clicks
        /\ 1 \in DOMAIN chain[t]
        /\ DOMAIN chain'[t] = DOMAIN chain[t]
        /\ \A i \in DOMAIN chain[t] : /\ chain'[t][i].mut = chain[t][i].mut
                                      /\ chain'[t][i].preds = chain[t][i].preds
        /\ sent[t] # NoReq /\ sent'[t].mut = sent[t].mut
        /\ wal'[BrowserOf[t]].mut = wal[BrowserOf[t]].mut
        /\ wal'[BrowserOf[t]].preds = wal[BrowserOf[t]].preds
        /\ Elsewhere(t)
    BY <1>5, RetryDoes
  <2>2. LogOwn(BrowserOf[t])' /\ TabOwn(t)'
    BY <1>0, <1>o, <2>1, SameClicks
  <2> QED
    BY <1>e, <2>1, <2>2
<1>6. ASSUME NEW t \in Tab, Over(t), Elsewhere(t) PROVE Goal
  <2>1. /\ clicks' = clicks /\ sent'[t] = NoReq
        /\ \A i \in DOMAIN chain'[t] : /\ i + 1 \in DOMAIN chain[t]
                                       /\ chain'[t][i] = chain[t][i + 1]
        /\ wal'[BrowserOf[t]] \in {wal[BrowserOf[t]], NoEntry}
    BY <1>6 DEF Over
  <2>2. TabOwn(t)'
    BY <1>o, <2>1, SameClicks
  <2>3. LogOwn(BrowserOf[t])'
    BY <1>0, <1>o, <2>1, SameClicks DEF NoEntry
  <2> QED
    BY <1>e, <1>6, <2>1, <2>2, <2>3
<1>7. ASSUME NEW t \in Tab, Reads(t) PROVE Goal
  BY <1>1, <1>7 DEF Reads
<1>8. ASSUME NEW t \in Tab, ServeRequest(t) PROVE Goal
  BY <1>1, <1>8 DEF ServeRequest, Serve, client
<1>9. ASSUME NEW q \in late, ServeLate(q) PROVE Goal
  BY <1>1, <1>9 DEF ServeLate, Serve, client
<1>10. ASSUME NEW t \in Tab, OrdinaryWrite(t) PROVE Goal
  BY <1>1, <1>10, WriteDoes
<1> HIDE DEF Goal
<1> QED
  BY <1>1, <1>2, <1>3, <1>4, <1>5, <1>6, <1>7, <1>8, <1>9, <1>10, Kinds

\* With one tab in each browser a live click waits behind older ones only.
LEMMA OrderStep ==
  ASSUME OneTabEach, OrderOK, OwnOK, IInv, [Next]_vars
  PROVE  OrderOK'
<1> DEFINE Ordered(t) ==
      \A j \in DOMAIN chain[t] : chain[t][j].kind = "live" =>
        /\ \A i \in DOMAIN chain[t] : i < j => chain[t][i].mut < chain[t][j].mut
        /\ \A q \in late : Home(q.mut) = BrowserOf[t] => q.mut < chain[t][j].mut
<1>0. TypeOK
  BY DEF IInv
<1>k. /\ Known \subseteq Nat
      /\ \A u \in Tab : \A i \in DOMAIN chain[u] :
           chain[u][i].mut \in Known /\ i \in Nat /\ i >= 1
      /\ \A q \in late : q.mut \in Known
  BY <1>0, KnownNat, JobAt DEF Job, TypeOK, NetworkOK, Req
<1>o. \A u \in Tab : Ordered(u)
  BY DEF OrderOK
<1> SUFFICES \A u \in Tab : Ordered(u)'
  BY DEF OrderOK
<1>1. ASSUME UNCHANGED <<clicks, chain>>, late' \subseteq late PROVE \A u \in Tab : Ordered(u)'
  BY <1>1, <1>o, SameClicks
<1>2. ASSUME NEW t \in Tab, Click(t) PROVE \A u \in Tab : Ordered(u)'
  <2>m. PICK m : m = Len(clicks) + 1
    OBVIOUS
  <2>1. /\ m \notin Known
        /\ \A k \in Known : k < m /\ Home(k)' = Home(k)
        /\ chain'[t] = Append(chain[t], Live(m))
        /\ late' = late
        /\ Elsewhere(t)
    BY <1>0, <1>2, <2>m, ClickDoes
  <2>2. ASSUME NEW u \in Tab, u # t PROVE Ordered(u)'
    BY <1>k, <1>o, <2>1, <2>2 DEF Elsewhere
  <2>3. Ordered(t)'
    <3>1. PICK l \in Nat : /\ \A i \in DOMAIN chain[t] : i \in Nat /\ i < l
                           /\ DOMAIN chain'[t] = DOMAIN chain[t] \cup {l}
                           /\ chain'[t][l] = Live(m)
                           /\ \A i \in DOMAIN chain[t] : chain'[t][i] = chain[t][i]
      BY <1>0, <2>1, QueueMore
    <3>2. Live(m).mut = m
      BY DEF Live
    <3>3. ASSUME NEW j \in DOMAIN chain[t], chain[t][j].kind = "live"
          PROVE  /\ \A i \in DOMAIN chain'[t] : i < j => chain'[t][i].mut < chain'[t][j].mut
                 /\ \A q \in late : Home(q.mut) = BrowserOf[t] => q.mut < chain'[t][j].mut
      BY <1>k, <1>o, <2>1, <3>1, <3>3
    <3>4. /\ \A i \in DOMAIN chain'[t] : i < l => chain'[t][i].mut < chain'[t][l].mut
          /\ \A q \in late : q.mut < chain'[t][l].mut
      <4>1. \A k \in Known : k < m
        BY <2>1
      <4>2. ASSUME NEW i \in DOMAIN chain'[t], i < l
            PROVE  chain'[t][i].mut \in Known
        BY <1>k, <3>1, <4>2
      <4> QED
        BY ONLY <1>k, <3>1, <3>2, <4>1, <4>2
    <3>5. ASSUME NEW j \in DOMAIN chain'[t], chain'[t][j].kind = "live"
          PROVE  /\ \A i \in DOMAIN chain'[t] : i < j => chain'[t][i].mut < chain'[t][j].mut
                 /\ \A q \in late : Home(q.mut) = BrowserOf[t] => q.mut < chain'[t][j].mut
      BY <3>1, <3>3, <3>4, <3>5
    <3>6. \A q \in late' : q \in late /\ Home(q.mut)' = Home(q.mut)
      BY <1>k, <2>1 DEF Home
    <3> QED
      BY <3>5, <3>6 DEF Home
  <2> QED
    BY <2>2, <2>3
<1>3. ASSUME NEW t \in Tab, SendLive(t) \/ SendReplay(t) PROVE \A u \in Tab : Ordered(u)'
  BY <1>1, <1>3, SendDoes
<1>4. ASSUME NEW t \in Tab, StartReplay(t) PROVE \A u \in Tab : Ordered(u)'
  <2>1. /\ clicks' = clicks /\ late' = late
        /\ chain'[t] = Append(chain[t], Replay(wal[BrowserOf[t]]))
        /\ Elsewhere(t)
    BY <1>4, StartDoes
  <2>2. PICK l \in Nat : /\ \A i \in DOMAIN chain[t] : i \in Nat /\ i < l
                         /\ DOMAIN chain'[t] = DOMAIN chain[t] \cup {l}
                         /\ chain'[t][l] = Replay(wal[BrowserOf[t]])
                         /\ \A i \in DOMAIN chain[t] : chain'[t][i] = chain[t][i]
    BY <1>0, <2>1, QueueMore
  <2>3. Replay(wal[BrowserOf[t]]).kind # "live"
    BY DEF Replay
  <2>4. \A u \in Tab : \A m : Home(m)' = Home(m)
    BY <2>1, SameClicks
  <2>5. ASSUME NEW j \in DOMAIN chain[t], chain[t][j].kind = "live"
        PROVE  /\ \A i \in DOMAIN chain'[t] : i < j => chain'[t][i].mut < chain'[t][j].mut
               /\ \A q \in late : Home(q.mut) = BrowserOf[t] => q.mut < chain'[t][j].mut
    BY <1>k, <1>o, <2>2, <2>4, <2>5
  <2>6. Ordered(t)'
    BY <2>1, <2>2, <2>3, <2>5 DEF Home
  <2> QED
    BY <1>o, <2>1, <2>4, <2>6 DEF Elsewhere
<1>5. ASSUME NEW t \in Tab, Retry(t) PROVE \A u \in Tab : Ordered(u)'
  <2>1. /\ clicks' = clicks /\ late' = late
        /\ DOMAIN chain'[t] = DOMAIN chain[t]
        /\ \A i \in DOMAIN chain[t] : /\ chain'[t][i].mut = chain[t][i].mut
                                      /\ chain'[t][i].kind = chain[t][i].kind
        /\ Elsewhere(t)
    BY <1>5, RetryDoes
  <2>2. \A m : Home(m)' = Home(m)
    BY <2>1, SameClicks
  <2>3. Ordered(t)'
    BY <1>o, <2>1, <2>2
  <2> QED
    BY <1>o, <2>1, <2>2, <2>3 DEF Elsewhere
<1>6. ASSUME NEW t \in Tab, Over(t), Elsewhere(t) PROVE \A u \in Tab : Ordered(u)'
  <2>1. /\ clicks' = clicks
        /\ \A i \in DOMAIN chain'[t] : /\ i \in Nat /\ i >= 1
                                       /\ i + 1 \in DOMAIN chain[t]
                                       /\ chain'[t][i] = chain[t][i + 1]
        /\ \/ late' = late
           \/ sent[t] # NoReq /\ late' = late \cup {sent[t]}
    BY <1>6 DEF Over
  <2>2. \A m : Home(m)' = Home(m)
    BY <2>1, SameClicks
  <2>3. ASSUME sent[t] # NoReq
        PROVE  /\ 1 \in DOMAIN chain[t] /\ sent[t].mut = chain[t][1].mut
               /\ Home(sent[t].mut) = BrowserOf[t]
    <3>1. chain[t] # <<>>
      BY <2>3 DEF IInv, QueueOK
    <3>2. 1 \in DOMAIN chain[t]
      BY <1>0, <3>1, HeadType DEF TypeOK
    <3> QED
      BY <2>3, <3>2 DEF OwnOK
  <2>4. Ordered(t)'
    <3> SUFFICES ASSUME NEW j \in DOMAIN chain'[t], chain'[t][j].kind = "live"
                 PROVE  /\ \A i \in DOMAIN chain'[t] : i < j => chain'[t][i].mut < chain'[t][j].mut
                        /\ \A q \in late' : Home(q.mut) = BrowserOf[t] => q.mut < chain'[t][j].mut
      BY <2>1 DEF Home
    <3>1. /\ j \in Nat /\ j >= 1 /\ j + 1 \in DOMAIN chain[t]
          /\ chain'[t][j] = chain[t][j + 1] /\ chain[t][j + 1].kind = "live"
      BY <2>1
    <3>2. /\ \A i \in DOMAIN chain[t] : i < j + 1 => chain[t][i].mut < chain[t][j + 1].mut
          /\ \A q \in late : Home(q.mut) = BrowserOf[t] => q.mut < chain[t][j + 1].mut
      BY <1>o, <3>1
    <3>3. ASSUME NEW i \in DOMAIN chain'[t], i < j
          PROVE  chain'[t][i].mut < chain'[t][j].mut
      <4>1. i + 1 \in DOMAIN chain[t] /\ i + 1 < j + 1 /\ chain'[t][i] = chain[t][i + 1]
        BY <2>1, <3>1, <3>3
      <4> QED
        BY <3>1, <3>2, <4>1
    <3>4. sent[t] # NoReq => sent[t].mut < chain[t][j + 1].mut
      <4>1. 1 < j + 1
        BY <3>1
      <4> QED
        BY <2>3, <3>2, <4>1
    <3> QED
      BY <2>1, <2>2, <3>1, <3>2, <3>3, <3>4
  <2>5. ASSUME NEW u \in Tab, u # t PROVE Ordered(u)'
    <3>1. chain'[u] = chain[u]
      BY <1>6, <2>5 DEF Elsewhere
    <3>2. sent[t] # NoReq => Home(sent[t].mut) # BrowserOf[u]
      BY <2>3, <2>5 DEF OneTabEach
    <3> QED
      BY <1>o, <2>1, <2>2, <3>1, <3>2
  <2> QED
    BY <2>4, <2>5
<1>7. ASSUME NEW t \in Tab, Reads(t) PROVE \A u \in Tab : Ordered(u)'
  BY <1>1, <1>7 DEF Reads
<1>8. ASSUME NEW t \in Tab, ServeRequest(t) PROVE \A u \in Tab : Ordered(u)'
  BY <1>1, <1>8 DEF ServeRequest, Serve, client
<1>9. ASSUME NEW q \in late, ServeLate(q) PROVE \A u \in Tab : Ordered(u)'
  BY <1>1, <1>9 DEF ServeLate, Serve, client
<1>10. ASSUME NEW t \in Tab, OrdinaryWrite(t) PROVE \A u \in Tab : Ordered(u)'
  BY <1>1, <1>10, WriteDoes
<1> HIDE DEF Ordered
<1> QED
  BY <1>1, <1>2, <1>3, <1>4, <1>5, <1>6, <1>7, <1>8, <1>9, <1>10, Kinds

\* A row that is served moves only for a click that is not spent; what it spends is
\* that click and the older ones of its browser.
LEMMA ServeSpends ==
  ASSUME TypeOK, MarkOK, NEW m \in Known, NEW exp, Serve(m, exp),
         Spent(m) => exp < row.rev
  PROVE  /\ \A k : Spent(k)' => \/ Spent(k)
                                \/ /\ log' = Append(log, m) /\ row.rev < row'.rev
                                   /\ m >= k /\ Home(m) = Home(k)
         /\ log' = Append(log, m) => m \notin Moved /\ ~Spent(m) /\ Moved' = Moved \cup {m}
         /\ MarkOK'
<1>1. /\ clicks' = clicks
      /\ row.rev \in Nat
      /\ \/ log' = log /\ row'.mut = row.mut
         \/ log' = log /\ row'.mut = m /\ exp = row.rev
         \/ /\ log' = Append(log, m) /\ row'.mut = m
            /\ exp = row.rev /\ row'.rev > row.rev
  BY ServeDoes
<1>2. \A k : Home(k)' = Home(k) /\ Older(k)' = Older(k)
  BY <1>1, SameClicks
<1>3. m \in Nat
  BY KnownNat
<1>4. exp = row.rev => ~Spent(m)
  BY <1>1
<1>5. ~Spent(m) => \A k \in Moved : m \notin Older(k)
  <2> SUFFICES ASSUME NEW k \in Moved, m \in Older(k) PROVE Spent(m)
    OBVIOUS
  <2>1. m < k /\ Home(m) = Home(k)
    BY DEF Older
  <2>2. k \in Nat
    <3>1. log \in Seq(Known)
      BY DEF TypeOK, ServerOK
    <3>2. \A i \in DOMAIN log : log[i] \in Known
      BY <3>1, LenProperties, ElementOfSeq
    <3> QED
      BY <3>2, KnownNat DEF Moved, ToSet
  <2>3. k >= m
    BY <1>3, <2>1, <2>2
  <2> QED
    BY <2>1, <2>3 DEF Spent
<1>6. CASE log' = log
  <2>1. Moved' = Moved
    BY <1>6 DEF Moved
  <2>2. \A k : Spent(k)' = Spent(k)
    BY <1>1, <1>6, SameClicks
  <2>3. \/ row'.mut = row.mut
        \/ row'.mut = m /\ exp = row.rev
    BY <1>1
  <2>4. MarkOK'
    BY <1>2, <1>4, <1>5, <2>1, <2>3 DEF MarkOK
  <2>5. log' # Append(log, m)
    <3>1. log \in Seq(Known)
      BY DEF TypeOK, ServerOK
    <3>2. Len(Append(log, m)) = Len(log) + 1 /\ Len(log) \in Nat
      BY <3>1, AppendProperties, LenProperties
    <3> QED
      BY <1>6, <3>2
  <2> QED
    BY <2>2, <2>4, <2>5
<1>7. CASE log' = Append(log, m) /\ row'.mut = m /\ exp = row.rev /\ row'.rev > row.rev
  <2>1. Moved' = Moved \cup {m}
    <3>1. log \in Seq(Known)
      BY DEF TypeOK, ServerOK
    <3>2. PICK l : /\ DOMAIN log' = DOMAIN log \cup {l} /\ log'[l] = m
                   /\ \A i \in DOMAIN log : log'[i] = log[i]
      BY <1>7, <3>1, AppendAt
    <3> QED
      BY <3>2 DEF Moved, ToSet
  <2>2. ~Spent(m)
    BY <1>4, <1>7
  <2>3. m \notin Moved
    <3>1. m >= m
      BY <1>3
    <3> QED
      BY <2>2, <3>1 DEF Spent
  <2>4. ASSUME NEW k, Spent(k)'
        PROVE  \/ Spent(k)
               \/ m >= k /\ Home(m) = Home(k)
    BY <1>2, <2>1, <2>4 DEF Spent
  <2>5. MarkOK'
    <3>1. m \notin Older(m)
      BY <1>3 DEF Older
    <3> QED
      BY <1>2, <1>5, <1>7, <2>1, <2>2, <3>1 DEF MarkOK
  <2>6. row'.rev \in Nat
    BY ServeDoes
  <2>7. row.rev < row'.rev
    BY <1>1, <1>7, <2>6
  <2> QED
    BY <1>7, <2>1, <2>2, <2>3, <2>4, <2>5, <2>7
<1> QED
  BY <1>1, <1>6, <1>7

LEMMA SameRetry ==
  ASSUME NEW t, chain'[t] = chain[t], reply'[t] = reply[t],
         wal'[BrowserOf[t]] = wal[BrowserOf[t]]
  PROVE  MayRetry(t)' <=> MayRetry(t)
BY DEF MayRetry

\* The head of a longer queue.
LEMMA SameHead ==
  ASSUME TypeOK, NEW t \in Tab, chain[t] # <<>>, NEW j, chain'[t] = Append(chain[t], j)
  PROVE  Head(chain'[t]) = Head(chain[t])
<1>1. chain[t] \in Seq(Job(Known) \cup {j})
  BY SeqMonotonic DEF TypeOK, ClientOK
<1>2. Append(chain[t], j) \in Seq(Job(Known) \cup {j}) /\ Append(chain[t], j) # <<>>
  BY <1>1, AppendProperties
<1>3. Head(chain'[t]) = chain'[t][1]
  BY <1>2, HeadTailProperties
<1>4. 1 \in DOMAIN chain[t] /\ Head(chain[t]) = chain[t][1]
  BY HeadType DEF TypeOK
<1> QED
  BY <1>1, <1>3, <1>4, AppendAt

SpentInv == FreshOK /\ SpentOK /\ MarkOK

\* With one tab in each browser, what is spent stays behind the row.
LEMMA SpentStep ==
  ASSUME OneTabEach, RevsOK, OwnOK, OrderOK, SpentInv, IInv, [Next]_vars
  PROVE  SpentInv'
<1> DEFINE Fresh(t) ==
      \A i \in DOMAIN chain[t] :
        chain[t][i].kind = "live" /\ Spent(chain[t][i].mut) =>
          i = 1 /\ reply[t].status = "ok"
<1> DEFINE OnNet(t) ==
      sent[t] # NoReq /\ reply[t] = NoReply /\ Spent(sent[t].mut) => sent[t].exp < row.rev
<1> DEFINE Again(t) ==
      reply[t].status = "conflict" /\ MayRetry(t) /\ Spent(sent[t].mut) =>
        reply[t].row.rev < row.rev
<1> DEFINE Replays(t) ==
      \A i \in DOMAIN chain[t] :
        chain[t][i].kind = "replay" /\ Spent(chain[t][i].mut) => chain[t][i].exp < row.rev
<1> DEFINE Tabs(t) == Fresh(t) /\ OnNet(t) /\ Again(t) /\ Replays(t)
<1> DEFINE Log(b) == wal[b].mut # 0 /\ Spent(wal[b].mut) => wal[b].exp < row.rev
<1> DEFINE Late == \A q \in late : Spent(q.mut) => q.exp < row.rev
<1> DEFINE Goal == (\A u \in Tab : Tabs(u)') /\ (\A b \in Browser : Log(b)') /\ Late' /\ MarkOK'
<1>0. /\ TypeOK
      /\ \A t \in Tab : BrowserOf[t] \in Browser
      /\ row.rev \in Nat
  BY ConstantsAssumption, Numbers DEF IInv
<1>k. /\ Known \subseteq Nat /\ 0 \notin Known
      /\ \A u \in Tab : \A i \in DOMAIN chain[u] :
           chain[u][i].mut \in Known /\ i \in Nat /\ i >= 1
      /\ \A u \in Tab : sent[u] # NoReq => sent[u].mut \in Known
      /\ \A b \in Browser : wal[b].mut # 0 => wal[b].mut \in Known
      /\ \A q \in late : q.mut \in Known
  <2>1. Known \subseteq Nat /\ 0 \notin Known
    BY <1>0, KnownNat
  <2>2. \A u \in Tab : \A i \in DOMAIN chain[u] : chain[u][i].mut \in Known /\ i \in Nat /\ i >= 1
    BY <1>0, JobAt DEF Job
  <2> QED
    BY <1>0, <2>1, <2>2 DEF TypeOK, NetworkOK, ClientOK, Req, Entry, NoEntry
<1>o. (\A u \in Tab : Tabs(u)) /\ (\A b \in Browser : Log(b)) /\ Late /\ MarkOK
  BY DEF SpentInv, FreshOK, SpentOK
<1>q. \A u \in Tab : /\ sent[u] # NoReq => chain[u] # <<>> /\ 1 \in DOMAIN chain[u]
                     /\ reply[u] # NoReply => sent[u] # NoReq
  <2>1. \A u \in Tab : /\ sent[u] # NoReq => chain[u] # <<>>
                       /\ reply[u] # NoReply => sent[u] # NoReq
    BY DEF IInv, QueueOK
  <2> QED
    BY <1>0, <2>1, HeadType DEF TypeOK
<1> SUFFICES Goal
  BY DEF SpentInv, FreshOK, SpentOK
<1>e. ASSUME NEW t \in Tab, \A k \in Known : Spent(k)' <=> Spent(k),
             row'.rev = row.rev, Elsewhere(t), Tabs(t)', Log(BrowserOf[t])', Late', MarkOK'
      PROVE  Goal
  <2>1. ASSUME NEW u \in Tab, u # t PROVE Tabs(u)'
    <3>1. /\ chain'[u] = chain[u] /\ sent'[u] = sent[u] /\ reply'[u] = reply[u]
          /\ wal'[BrowserOf[u]] = wal[BrowserOf[u]]
      BY <1>0, <1>e, <2>1 DEF Elsewhere, OneTabEach
    <3>2. MayRetry(u)' <=> MayRetry(u)
      BY <3>1, SameRetry
    <3>3. reply[u].status = "conflict" => sent[u] # NoReq
      BY <1>q DEF NoReply
    <3>4. Tabs(u)
      BY <1>o
    <3>5. Fresh(u)'
      BY <1>e, <1>k, <3>1, <3>4
    <3>6. OnNet(u)'
      BY <1>e, <1>k, <3>1, <3>4
    <3>7. Again(u)'
      BY <1>e, <1>k, <3>1, <3>2, <3>3, <3>4
    <3>8. Replays(u)'
      BY <1>e, <1>k, <3>1, <3>4
    <3> QED
      BY <3>5, <3>6, <3>7, <3>8
  <2>2. ASSUME NEW b \in Browser, b # BrowserOf[t] PROVE Log(b)'
    <3>1. wal'[b] = wal[b]
      BY <1>e, <2>2 DEF Elsewhere
    <3> QED
      BY <1>e, <1>k, <1>o, <3>1
  <2> QED
    BY <1>e, <2>1, <2>2
<1>m. ASSUME clicks' = clicks, log' = log, row'.mut = row.mut
      PROVE  MarkOK' /\ \A k : Spent(k)' <=> Spent(k)
  <2>1. Moved' = Moved
    BY <1>m DEF Moved
  <2>2. /\ \A k : Older(k)' = Older(k)
        /\ \A k : Spent(k)' <=> Spent(k)
    BY <1>m, SameClicks
  <2> QED
    BY <1>m, <1>o, <2>1, <2>2 DEF MarkOK
<1> HIDE DEF Goal
<1>1. ASSUME NEW t \in Tab, Click(t) PROVE Goal
  <2>m. PICK m : m = Len(clicks) + 1
    OBVIOUS
  <2>1. /\ m \notin Known
        /\ wal'[BrowserOf[t]].mut = m
        /\ chain'[t] = Append(chain[t], Live(m))
        /\ UNCHANGED <<sent, reply, late, row>>
        /\ Elsewhere(t)
    <3>1. Superseding(t, m).mut = m
      BY DEF Superseding
    <3> QED
      BY <1>0, <1>1, <2>m, <3>1, ClickDoes
  <2>2. /\ \A k \in Known : Older(k)' = Older(k) /\ (Spent(k)' <=> Spent(k))
        /\ ~Spent(m)' /\ Moved' = Moved /\ Moved \subseteq Known
    BY <1>0, <1>1, <2>m, MoreClicks
  <2>3. PICK l \in Nat : /\ \A i \in DOMAIN chain[t] : i \in Nat /\ i < l
                         /\ DOMAIN chain'[t] = DOMAIN chain[t] \cup {l}
                         /\ chain'[t][l] = Live(m)
                         /\ \A i \in DOMAIN chain[t] : chain'[t][i] = chain[t][i]
    BY <1>0, <2>1, QueueMore
  <2>4. Live(m).mut = m /\ Live(m).kind = "live"
    BY DEF Live
  <2>5. Fresh(t)'
    BY <1>k, <1>o, <2>1, <2>2, <2>3, <2>4
  <2>6. OnNet(t)'
    BY <1>k, <1>o, <2>1, <2>2
  <2>7. Again(t)'
    <3> SUFFICES ASSUME reply[t].status = "conflict", MayRetry(t)' PROVE FALSE
      BY <2>1
    <3>1. chain[t] # <<>> /\ 1 \in DOMAIN chain[t]
      BY <1>q DEF NoReply
    <3>2. Head(chain'[t]) = chain[t][1]
      BY <1>0, <2>1, <3>1, SameHead, HeadType DEF TypeOK
    <3>3. wal'[BrowserOf[t]].mut = Head(chain'[t]).mut
      BY DEF MayRetry
    <3> QED
      BY <1>k, <2>1, <3>1, <3>2, <3>3
  <2>8. Replays(t)'
    BY <1>k, <1>o, <2>1, <2>2, <2>3, <2>4
  <2>9. Log(BrowserOf[t])'
    BY <2>1, <2>2
  <2>10. Late'
    BY <1>k, <1>o, <2>1, <2>2
  <2>11. MarkOK'
    BY <1>o, <2>1, <2>2 DEF MarkOK
  <2> QED
    BY <1>e, <2>1, <2>2, <2>5, <2>6, <2>7, <2>8, <2>9, <2>10, <2>11
<1>2. ASSUME NEW t \in Tab, SendLive(t) \/ SendReplay(t) PROVE Goal
  <2>1. /\ UNCHANGED <<clicks, row, log, chain, reply, late>>
        /\ 1 \in DOMAIN chain[t]
        /\ reply[t] = NoReply
        /\ sent'[t].mut = chain[t][1].mut
        /\ Elsewhere(t)
    BY <1>2, SendDoes
  <2>2. \A k : Spent(k)' <=> Spent(k)
    BY <1>m, <2>1
  <2>3. chain[t][1].kind = "live" => ~Spent(chain[t][1].mut)
    BY <1>o, <2>1 DEF NoReply
  <2>4. Fresh(t)' /\ Replays(t)' /\ Late'
    BY <1>o, <2>1, <2>2
  <2>5. Again(t)'
    BY <2>1 DEF NoReply
  <2>6. OnNet(t)'
    <3>1. \/ chain[t][1].kind = "live"
          \/ chain[t][1].kind = "replay" /\ sent'[t].exp = chain[t][1].exp
      BY <1>2, SendDoes
    <3> QED
      BY <1>o, <2>1, <2>2, <2>3, <3>1
  <2>7. Log(BrowserOf[t])'
    <3>1. \/ wal'[BrowserOf[t]] = wal[BrowserOf[t]]
          \/ /\ chain[t][1].kind = "live"
             /\ wal'[BrowserOf[t]].mut = chain[t][1].mut
      BY <1>2, SendDoes
    <3> QED
      BY <1>0, <1>o, <2>1, <2>2, <2>3, <3>1
  <2> QED
    BY <1>e, <1>m, <2>1, <2>2, <2>4, <2>5, <2>6, <2>7
<1>3. ASSUME NEW t \in Tab, StartReplay(t) PROVE Goal
  <2>1. /\ UNCHANGED <<clicks, row, log, sent, reply, late, wal>>
        /\ wal[BrowserOf[t]] \in Entry(Known)
        /\ chain'[t] = Append(chain[t], Replay(wal[BrowserOf[t]]))
        /\ Elsewhere(t)
    BY <1>3, StartDoes
  <2>2. \A k : Spent(k)' <=> Spent(k)
    BY <1>m, <2>1
  <2>3. PICK l \in Nat : /\ \A i \in DOMAIN chain[t] : i \in Nat /\ i < l
                         /\ DOMAIN chain'[t] = DOMAIN chain[t] \cup {l}
                         /\ chain'[t][l] = Replay(wal[BrowserOf[t]])
                         /\ \A i \in DOMAIN chain[t] : chain'[t][i] = chain[t][i]
    BY <1>0, <2>1, QueueMore
  <2>4. /\ Replay(wal[BrowserOf[t]]).mut = wal[BrowserOf[t]].mut
        /\ Replay(wal[BrowserOf[t]]).exp = wal[BrowserOf[t]].exp
        /\ Replay(wal[BrowserOf[t]]).kind = "replay"
    BY DEF Replay
  <2>5. Fresh(t)'
    BY <1>o, <2>1, <2>2, <2>3, <2>4
  <2>6. OnNet(t)' /\ Late'
    BY <1>o, <2>1, <2>2
  <2>7. Replays(t)'
    <3>1. wal[BrowserOf[t]].mut # 0
      BY <1>k, <2>1 DEF Entry
    <3>2. Spent(wal[BrowserOf[t]].mut) => wal[BrowserOf[t]].exp < row.rev
      BY <1>0, <1>o, <3>1
    <3> QED
      BY <1>o, <2>1, <2>2, <2>3, <2>4, <3>2
  <2>8. Again(t)'
    <3> SUFFICES ASSUME reply[t].status = "conflict", MayRetry(t)', Spent(sent[t].mut)
                 PROVE  reply[t].row.rev < row.rev
      BY <2>1, <2>2
    <3>1. chain[t] # <<>>
      BY <1>q DEF NoReply
    <3>2. Head(chain'[t]) = Head(chain[t])
      BY <1>0, <2>1, <3>1, SameHead
    <3>3. MayRetry(t)
      BY <2>1, <3>2 DEF MayRetry
    <3> QED
      BY <1>o, <3>3
  <2>9. Log(BrowserOf[t])'
    BY <1>0, <1>o, <2>1, <2>2
  <2> QED
    BY <1>e, <1>m, <2>1, <2>2, <2>5, <2>6, <2>7, <2>8, <2>9
<1>4. ASSUME NEW t \in Tab, Retry(t) PROVE Goal
  <2>1. /\ UNCHANGED <<clicks, row, log, late>>
        /\ reply[t].status = "conflict" /\ MayRetry(t)
        /\ DOMAIN chain'[t] = DOMAIN chain[t]
        /\ \A i \in DOMAIN chain[t] :
             /\ chain'[t][i].kind = chain[t][i].kind /\ chain'[t][i].mut = chain[t][i].mut
             /\ chain'[t][i].exp = chain[t][i].exp
        /\ sent[t] # NoReq /\ reply'[t] = NoReply
        /\ sent'[t].mut = sent[t].mut /\ sent'[t].exp = reply[t].row.rev
        /\ wal[BrowserOf[t]].mut = chain[t][1].mut
        /\ wal'[BrowserOf[t]].mut = wal[BrowserOf[t]].mut
        /\ wal'[BrowserOf[t]].exp = reply[t].row.rev
        /\ Elsewhere(t)
    BY <1>4, RetryDoes
  <2>2. \A k : Spent(k)' <=> Spent(k)
    BY <1>m, <2>1
  <2>3. Spent(sent[t].mut) => reply[t].row.rev < row.rev
    BY <1>o, <2>1
  <2>4. sent[t].mut = chain[t][1].mut
    BY <2>1 DEF OwnOK
  <2>5. Fresh(t)'
    BY <1>o, <2>1, <2>2
  <2>6. OnNet(t)' /\ Replays(t)' /\ Late'
    BY <1>o, <2>1, <2>2, <2>3
  <2>7. Again(t)'
    BY <2>1 DEF NoReply
  <2>8. Log(BrowserOf[t])'
    BY <2>1, <2>2, <2>3, <2>4
  <2> QED
    BY <1>e, <1>m, <2>1, <2>2, <2>5, <2>6, <2>7, <2>8
<1>5. ASSUME NEW t \in Tab, Over(t), Elsewhere(t) PROVE Goal
  <2>1. /\ UNCHANGED <<clicks, row, log>>
        /\ \A i \in DOMAIN chain'[t] : /\ i \in Nat /\ i >= 1
                                       /\ i + 1 \in DOMAIN chain[t]
                                       /\ chain'[t][i] = chain[t][i + 1]
        /\ sent'[t] = NoReq /\ reply'[t] = NoReply
        /\ wal'[BrowserOf[t]] \in {wal[BrowserOf[t]], NoEntry}
        /\ \/ late' = late
           \/ sent[t] # NoReq /\ reply[t] = NoReply /\ late' = late \cup {sent[t]}
    BY <1>5 DEF Over
  <2>2. \A k : Spent(k)' <=> Spent(k)
    BY <1>m, <2>1
  <2>3. Fresh(t)'
    <3>1. ASSUME NEW i \in DOMAIN chain'[t], chain'[t][i].kind = "live",
                 Spent(chain'[t][i].mut)
          PROVE  FALSE
      <4>1. i + 1 = 1
        BY <1>o, <2>1, <3>1
      <4> QED
        BY <2>1, <4>1
    <3> QED
      BY <2>2, <3>1
  <2>4. Replays(t)'
    BY <1>o, <2>1, <2>2
  <2>5. OnNet(t)' /\ Again(t)'
    BY <2>1 DEF NoReply
  <2>6. Late'
    BY <1>o, <2>1, <2>2
  <2>7. Log(BrowserOf[t])'
    BY <1>0, <1>o, <2>1, <2>2 DEF NoEntry
  <2> QED
    BY <1>e, <1>5, <1>m, <2>1, <2>2, <2>3, <2>4, <2>5, <2>6, <2>7
<1>6. ASSUME UNCHANGED <<clicks, log, wal, chain, sent, late>>,
             row'.rev = row.rev, row'.mut = row.mut,
             \A t \in Tab : \/ reply'[t] = reply[t]
                            \/ reply[t] = NoReply /\ reply'[t] = Refused
      PROVE  Goal
  <2>1. MarkOK' /\ \A k : Spent(k)' <=> Spent(k)
    BY <1>m, <1>6
  <2>2. ASSUME NEW u \in Tab, reply'[u] = reply[u] PROVE Tabs(u)'
    <3>1. MayRetry(u)' <=> MayRetry(u)
      BY <1>6, <2>2, SameRetry
    <3> QED
      BY <1>6, <1>o, <2>1, <2>2, <3>1
  <2>3. ASSUME NEW u \in Tab, reply[u] = NoReply, reply'[u] = Refused PROVE Tabs(u)'
    <3>1. reply[u].status # "ok" /\ reply'[u].status # "conflict" /\ reply'[u] # NoReply
      BY <2>3 DEF NoReply, Refused
    <3> QED
      BY <1>6, <1>o, <2>1, <3>1
  <2> QED
    BY <1>6, <1>o, <2>1, <2>2, <2>3 DEF Goal
<1>7. ASSUME NEW t \in Tab, Reads(t), Elsewhere(t) PROVE Goal
  <2>1. /\ UNCHANGED <<clicks, log, wal, chain, sent, late, row>>
        /\ \A u \in Tab : \/ reply'[u] = reply[u]
                          \/ reply[u] = NoReply /\ reply'[u] = Refused
    BY <1>7 DEF Reads, Elsewhere
  <2> QED
    BY <1>6, <2>1
<1>8. ASSUME NEW t \in Tab, ServeRequest(t) PROVE Goal
  <2>1. /\ sent[t] # NoReq /\ reply[t] = NoReply
        /\ sent[t] \in Req(Known) /\ Serve(sent[t].mut, sent[t].exp)
        /\ UNCHANGED <<sent, late>>
        /\ reply'[t].status = Outcome(sent[t].mut, sent[t].exp).status
        /\ reply'[t].mut = row'.mut /\ reply'[t].row.rev = row'.rev
        /\ \A u \in Tab : u # t => reply'[u] = reply[u]
    BY <1>8, ServeRequestDoes
  <2>m. PICK m : m = sent[t].mut
    OBVIOUS
  <2>x. PICK exp : exp = sent[t].exp
    OBVIOUS
  <2>2. m \in Known /\ Serve(m, exp) /\ (Spent(m) => exp < row.rev)
    BY <1>o, <2>1, <2>m, <2>x DEF Req
  <2>3. /\ UNCHANGED <<clicks, wal, chain>>
        /\ row'.rev \in Nat /\ row'.rev >= row.rev
        /\ log' = Append(log, m) => reply'[t].status = "ok"
        /\ reply'[t].status \in {"ok", "conflict"}
        /\ reply'[t].status = "conflict" => row' = row /\ log' = log
        /\ log' = log \/ log' = Append(log, m)
    <3>1. /\ UNCHANGED <<clicks, wal, chain>>
          /\ row'.rev \in Nat /\ row'.rev >= row.rev
          /\ \/ log' = log
             \/ log' = Append(log, m) /\ Outcome(m, exp).status = "ok"
          /\ Outcome(m, exp).status \in {"ok", "conflict"}
          /\ Outcome(m, exp).status = "conflict" => row' = row /\ log' = log
      BY <1>0, <2>2, ServeDoes
    <3>2. log # Append(log, m)
      <4>1. log \in Seq(Known)
        BY <1>0 DEF TypeOK, ServerOK
      <4>2. Len(Append(log, m)) = Len(log) + 1 /\ Len(log) \in Nat
        BY <2>2, <4>1, AppendProperties, LenProperties
      <4> QED
        BY <4>2
    <3> QED
      BY <2>1, <2>m, <2>x, <3>1, <3>2
  <2>4. /\ \A k : Spent(k)' => \/ Spent(k)
                               \/ /\ log' = Append(log, m) /\ row.rev < row'.rev
                                  /\ m >= k /\ Home(m) = Home(k)
        /\ MarkOK'
    BY <1>0, <1>o, <2>2, ServeSpends
  <2>n. /\ \A b \in Browser : wal[b].exp \in Nat /\ wal[b].exp <= row.rev
        /\ \A q \in late : q.exp \in Nat /\ q.exp <= row.rev
        /\ \A u \in Tab :
             /\ sent[u].exp \in Nat /\ sent[u].exp <= row.rev
             /\ reply[u].row.rev \in Int /\ reply[u].row.rev <= row.rev
             /\ \A i \in DOMAIN chain[u] : chain[u][i].exp \in Nat /\ chain[u][i].exp <= row.rev
    BY <1>0, Numbers DEF RevsOK
  <2>5. ASSUME NEW x \in Int, x <= row.rev, NEW k, Spent(k) => x < row.rev
        PROVE  Spent(k)' => x < row'.rev
    BY <1>0, <2>3, <2>4, <2>5
  <2>6. m = chain[t][1].mut /\ 1 \in DOMAIN chain[t] /\ Home(m) = BrowserOf[t]
    BY <1>q, <2>1, <2>m DEF OwnOK
  <2>7. ASSUME NEW u \in Tab PROVE Fresh(u)'
    <3> SUFFICES ASSUME NEW i \in DOMAIN chain[u], chain[u][i].kind = "live",
                        NEW k, k = chain[u][i].mut, Spent(k)'
                 PROVE  i = 1 /\ reply'[u].status = "ok"
      BY <2>3
    <3>1. \/ ~Spent(k)
          \/ i = 1 /\ reply[u].status = "ok"
      BY <1>o
    <3>2. CASE Spent(k)
      <4>1. u # t
        BY <2>1, <3>1, <3>2 DEF NoReply
      <4> QED
        BY <2>1, <3>1, <3>2, <4>1
    <3>3. CASE ~Spent(k)
      <4>1. log' = Append(log, m) /\ m >= k /\ Home(m) = Home(k)
        BY <2>4, <3>3
      <4>2. Home(k) = BrowserOf[u]
        BY DEF OwnOK
      <4>3. u = t
        BY <2>6, <4>1, <4>2 DEF OneTabEach
      <4>4. i = 1
        <5>1. 1 < i => m < k
          BY <2>6, <4>3 DEF OrderOK
        <5>2. m \in Nat /\ k \in Nat /\ i \in Nat /\ i >= 1
          BY <1>k, <2>2
        <5> QED
          BY <4>1, <5>1, <5>2
      <4> QED
        BY <2>3, <4>1, <4>3, <4>4
    <3> QED
      BY <3>2, <3>3
  <2>8. ASSUME NEW u \in Tab PROVE OnNet(u)'
    <3>1. CASE u = t
      <4>1. reply'[t] # NoReply
        BY <2>3 DEF NoReply
      <4> QED
        BY <3>1, <4>1
    <3>2. CASE u # t
      BY <1>o, <2>1, <2>n, <2>5, <3>2
    <3> QED
      BY <3>1, <3>2
  <2>9. ASSUME NEW u \in Tab PROVE Again(u)'
    <3>1. CASE u # t
      <4>1. MayRetry(u)' <=> MayRetry(u)
        BY <2>1, <2>3, <3>1, SameRetry
      <4> QED
        BY <1>o, <2>1, <2>n, <2>5, <3>1, <4>1
    <3>2. CASE u = t
      <4> SUFFICES ASSUME reply'[t].status = "conflict", MayRetry(t)', Spent(sent[t].mut)'
                   PROVE  FALSE
        BY <3>2
      <4>1. row' = row /\ log' = log /\ log' # Append(log, m)
        BY <2>3
      <4>2. Spent(m)
        BY <2>1, <2>4, <2>m, <4>1
      <4>3. chain[t][1].kind # "live"
        <5>1. reply[t].status # "ok"
          BY <2>1 DEF NoReply
        <5> QED
          BY <1>o, <2>6, <4>2, <5>1
      <4>4. Head(chain[t]) = chain[t][1] /\ chain[t][1].kind = "replay"
        BY <1>0, <1>q, <2>1, <4>3, HeadType DEF TypeOK, Job
      <4>5. reply'[t].mut \in chain[t][1].preds
        BY <2>3, <4>4 DEF MayRetry
      <4>6. row.mut \in Older(m)
        BY <2>1, <2>6, <4>1, <4>5 DEF OwnOK
      <4>7. PICK k \in Moved : k >= m /\ Home(k) = Home(m)
        BY <4>2 DEF Spent
      <4>8. k \in Nat
        <5>1. log \in Seq(Known)
          BY <1>0 DEF TypeOK, ServerOK
        <5>2. \A i \in DOMAIN log : log[i] \in Known
          BY <5>1, LenProperties, ElementOfSeq
        <5> QED
          BY <1>k, <5>2 DEF Moved, ToSet
      <4>9. row.mut \in Older(k)
        <5>1. row.mut \in Known /\ row.mut < m /\ Home(row.mut) = Home(m)
          BY <4>6 DEF Older
        <5>2. m \in Nat /\ row.mut \in Nat
          BY <1>k, <2>2, <5>1
        <5>3. row.mut < k
          BY <4>7, <4>8, <5>1, <5>2
        <5> QED
          BY <4>7, <5>1, <5>3 DEF Older
      <4> QED
        BY <1>o, <4>9 DEF MarkOK
    <3> QED
      BY <3>1, <3>2
  <2>10. ASSUME NEW u \in Tab PROVE Replays(u)'
    BY <1>o, <2>3, <2>n, <2>5
  <2>11. ASSUME NEW b \in Browser PROVE Log(b)'
    BY <1>o, <2>3, <2>n, <2>5
  <2>12. Late'
    BY <1>o, <2>1, <2>n, <2>5
  <2> QED
    BY <2>4, <2>7, <2>8, <2>9, <2>10, <2>11, <2>12 DEF Goal
<1>9. ASSUME NEW q \in late, ServeLate(q) PROVE Goal
  <2>m. PICK m : m = q.mut
    OBVIOUS
  <2>x. PICK exp : exp = q.exp
    OBVIOUS
  <2>1. m \in Known /\ Serve(m, exp) /\ (Spent(m) => exp < row.rev)
        /\ sent' = sent /\ reply' = reply /\ late' \subseteq late
    BY <1>9, <1>k, <1>o, <2>m, <2>x DEF ServeLate
  <2>2. /\ UNCHANGED <<clicks, wal, chain>>
        /\ row'.rev \in Nat /\ row'.rev >= row.rev
    BY <1>0, <2>1, ServeDoes
  <2>3. /\ \A k : Spent(k)' => \/ Spent(k)
                               \/ /\ log' = Append(log, m) /\ row.rev < row'.rev
                                  /\ m >= k /\ Home(m) = Home(k)
        /\ MarkOK'
    BY <1>0, <1>o, <2>1, ServeSpends
  <2>n. /\ \A b \in Browser : wal[b].exp \in Nat /\ wal[b].exp <= row.rev
        /\ \A p \in late : p.exp \in Nat /\ p.exp <= row.rev
        /\ \A u \in Tab :
             /\ sent[u].exp \in Nat /\ sent[u].exp <= row.rev
             /\ reply[u].row.rev \in Int /\ reply[u].row.rev <= row.rev
             /\ \A i \in DOMAIN chain[u] : chain[u][i].exp \in Nat /\ chain[u][i].exp <= row.rev
    BY <1>0, Numbers DEF RevsOK
  <2>4. ASSUME NEW x \in Int, x <= row.rev, NEW k, Spent(k) => x < row.rev
        PROVE  Spent(k)' => x < row'.rev
    BY <1>0, <2>2, <2>3, <2>4
  <2>5. ASSUME NEW u \in Tab PROVE Fresh(u)'
    <3> SUFFICES ASSUME NEW i \in DOMAIN chain[u], chain[u][i].kind = "live",
                        NEW k, k = chain[u][i].mut, Spent(k)'
                 PROVE  i = 1 /\ reply[u].status = "ok"
      BY <2>1, <2>2
    <3>1. Home(m) = Home(k) => m < k
      BY <2>m DEF OrderOK, OwnOK
    <3>2. m \in Nat /\ k \in Nat
      BY <1>k, <2>1
    <3>3. ~(m >= k /\ Home(m) = Home(k))
      BY <3>1, <3>2
    <3>4. Spent(k)
      BY <2>3, <3>3
    <3> QED
      BY <1>o, <3>4
  <2>6. ASSUME NEW u \in Tab PROVE MayRetry(u)' <=> MayRetry(u)
    BY <2>1, <2>2, SameRetry
  <2>7. ASSUME NEW u \in Tab PROVE OnNet(u)'
    BY <1>o, <2>1, <2>n, <2>4
  <2>8. ASSUME NEW u \in Tab PROVE Again(u)'
    BY <1>o, <2>1, <2>6, <2>n, <2>4
  <2>9. ASSUME NEW u \in Tab PROVE Replays(u)'
    BY <1>o, <2>2, <2>n, <2>4
  <2>10. ASSUME NEW b \in Browser PROVE Log(b)'
    BY <1>o, <2>2, <2>n, <2>4
  <2>11. Late'
    BY <1>o, <2>1, <2>n, <2>4
  <2> QED
    BY <2>3, <2>5, <2>7, <2>8, <2>9, <2>10, <2>11 DEF Goal
<1>10. ASSUME NEW t \in Tab, OrdinaryWrite(t) PROVE Goal
  BY <1>6, <1>10, WriteDoes
<1>11. CASE UNCHANGED <<clicks, row, log, wal, cache, fetched, base, chain, sent, reply, late>>
  BY <1>6, <1>11
<1> QED
  BY <1>1, <1>2, <1>3, <1>4, <1>5, <1>7, <1>8, <1>9, <1>10, <1>11, Kinds

-----------------------------------------------------------------------------
(***************************************************************************)
(* The order of the log, and the register.                                 *)
(***************************************************************************)
LEMMA OrderInit == Init => OrderInv
<1> SUFFICES ASSUME Init PROVE OrderInv
  OBVIOUS
<1>1. /\ clicks = <<>> /\ log = <<>> /\ late = {}
      /\ row.rev \in Nat
      /\ wal = [b \in Browser |-> NoEntry]
      /\ cache = [t \in Tab |-> [done |-> row.done, rev |-> row.rev]]
      /\ fetched = [t \in Tab |-> NoRow] /\ base = [t \in Tab |-> NoRow]
      /\ chain = [t \in Tab |-> <<>>]
      /\ sent = [t \in Tab |-> NoReq] /\ reply = [t \in Tab |-> NoReply]
  BY ConstantsAssumption DEF Init
<1>2. Moved = {}
  BY <1>1 DEF Moved, ToSet
<1>3. \A t \in Tab : DOMAIN chain[t] = {}
  BY <1>1
<1>4. /\ NoRow.rev = -1 /\ NoReply.row = NoRow /\ NoReq.exp = 0
      /\ NoEntry.mut = 0 /\ NoEntry.exp = 0
      /\ NoReply.status = "none"
  BY DEF NoRow, NoReply, NoReq, NoEntry
<1>5. RevsOK
  BY <1>1, <1>3, <1>4 DEF RevsOK
<1>6. OwnOK /\ OrderOK /\ FreshOK
  BY <1>1, <1>3, <1>4 DEF OwnOK, OrderOK, FreshOK
<1>7. SpentOK /\ MarkOK
  BY <1>1, <1>2, <1>3, <1>4 DEF SpentOK, MarkOK
<1> QED
  BY <1>5, <1>6, <1>7 DEF OrderInv

LEMMA OrderAlways ==
  ASSUME OneTabEach
  PROVE  Spec => [](IInv /\ OrderInv)
<1>1. IInv /\ OrderInv /\ [Next]_vars => OrderInv'
  BY RevsStep, OwnStep, OrderStep, SpentStep DEF OrderInv, SpentInv
<1> QED
  BY <1>1, OrderInit, Inductive, PTL DEF Spec

\* The row is moved by a click that has not moved it, and after which no later one
\* of its browser has.
LEMMA ServeOnce ==
  ASSUME TypeOK, MarkOK, NEW m \in Known, NEW exp, Serve(m, exp),
         Spent(m) => exp < row.rev
  PROVE  \/ log' = log /\ row'.done = row.done
         \/ /\ log' = Append(log, m) /\ Moved' = Moved \cup {m}
            /\ m \notin Moved /\ ~Spent(m)
            /\ row.done # Want(m) /\ row'.done = Want(m)
<1>1. /\ row'.done # row.done => log' = Append(log, m) /\ row'.done = Want(m)
      /\ row'.done = row.done => log' = log
  BY ServeMoves
<1>2. log' = Append(log, m) => m \notin Moved /\ ~Spent(m) /\ Moved' = Moved \cup {m}
  BY ServeSpends
<1> QED
  BY <1>1, <1>2

\* The only steps that matter to the register.
LEMMA LogStep ==
  ASSUME IInv, OrderInv, [Next]_vars
  PROVE  \/ UNCHANGED <<clicks, log>> /\ row'.done = row.done
         \/ /\ \E t \in Tab : Click(t)
            /\ log' = log /\ row' = row
         \/ \E m \in Known :
              /\ clicks' = clicks
              /\ log' = Append(log, m) /\ Moved' = Moved \cup {m}
              /\ m \notin Moved /\ ~Spent(m)
              /\ row.done # Want(m) /\ row'.done = Want(m)
<1> DEFINE Goal ==
      \/ UNCHANGED <<clicks, log>> /\ row'.done = row.done
      \/ /\ \E t \in Tab : Click(t)
         /\ log' = log /\ row' = row
      \/ \E m \in Known :
           /\ clicks' = clicks
           /\ log' = Append(log, m) /\ Moved' = Moved \cup {m}
           /\ m \notin Moved /\ ~Spent(m)
           /\ row.done # Want(m) /\ row'.done = Want(m)
<1>0. TypeOK /\ MarkOK /\ SpentOK
  BY DEF IInv, OrderInv
<1>1. ASSUME NEW m \in Known, NEW exp, Serve(m, exp), Spent(m) => exp < row.rev
      PROVE  Goal
  <2>1. clicks' = clicks
    BY <1>1 DEF Serve
  <2> QED
    BY <1>0, <1>1, <2>1, ServeOnce
<1>2. ASSUME NEW t \in Tab, Click(t) PROVE Goal
  BY <1>2 DEF Click, server
<1>3. ASSUME NEW t \in Tab, SendLive(t) \/ SendReplay(t) \/ StartReplay(t) \/ Retry(t)
      PROVE  Goal
  BY <1>3 DEF SendLive, SendReplay, StartReplay, Retry, server
<1>4. ASSUME NEW t \in Tab, Over(t) \/ Reads(t) PROVE Goal
  BY <1>4 DEF Over, Reads
<1>5. ASSUME NEW t \in Tab, OrdinaryWrite(t) PROVE Goal
  BY <1>5, WriteDoes
<1>6. ASSUME NEW t \in Tab, ServeRequest(t) PROVE Goal
  <2>1. /\ sent[t] # NoReq /\ reply[t] = NoReply
        /\ sent[t] \in Req(Known) /\ Serve(sent[t].mut, sent[t].exp)
    BY <1>6, ServeRequestDoes
  <2>2. sent[t].mut \in Known
    BY <2>1 DEF Req
  <2>3. Spent(sent[t].mut) => sent[t].exp < row.rev
    BY <1>0, <2>1 DEF SpentOK
  <2> HIDE DEF Goal
  <2> QED
    BY <1>1, <2>1, <2>2, <2>3
<1>7. ASSUME NEW q \in late, ServeLate(q) PROVE Goal
  <2>1. Serve(q.mut, q.exp) /\ q.mut \in Known
    BY <1>0, <1>7 DEF ServeLate, TypeOK, NetworkOK, Req
  <2>2. Spent(q.mut) => q.exp < row.rev
    BY <1>0 DEF SpentOK
  <2> HIDE DEF Goal
  <2> QED
    BY <1>1, <2>1, <2>2
<1> HIDE DEF Goal
<1>a. ASSUME NEW t \in Tab,
             \/ Click(t) \/ SendLive(t) \/ SendReplay(t) \/ StartReplay(t)
             \/ Retry(t) \/ ServeRequest(t) \/ OrdinaryWrite(t)
             \/ Over(t) /\ Elsewhere(t)
             \/ Reads(t) /\ Elsewhere(t)
      PROVE  Goal
  BY <1>a, <1>2, <1>3, <1>4, <1>5, <1>6
<1>b. (\E q \in late : ServeLate(q)) => Goal
  BY <1>7
<1>9. Goal
  <2>1. \/ UNCHANGED <<clicks, row, log, wal, cache, fetched, base, chain, sent, reply, late>>
        \/ \E t \in Tab :
             \/ Click(t) \/ SendLive(t) \/ SendReplay(t) \/ StartReplay(t)
             \/ Retry(t) \/ ServeRequest(t) \/ OrdinaryWrite(t)
             \/ Over(t) /\ Elsewhere(t)
             \/ Reads(t) /\ Elsewhere(t)
        \/ \E q \in late : ServeLate(q)
    BY Kinds, Zenon
  <2> QED
    <3>1. CASE UNCHANGED <<clicks, row, log, wal, cache, fetched, base, chain, sent, reply, late>>
      BY <3>1 DEF Goal
    <3>2. CASE \E t \in Tab :
             \/ Click(t) \/ SendLive(t) \/ SendReplay(t) \/ StartReplay(t)
             \/ Retry(t) \/ ServeRequest(t) \/ OrdinaryWrite(t)
             \/ Over(t) /\ Elsewhere(t)
             \/ Reads(t) /\ Elsewhere(t)
      BY <1>a, <3>2
    <3>3. CASE \E q \in late : ServeLate(q)
      BY <1>b, <3>3
    <3> QED
      BY <2>1, <3>1, <3>2, <3>3
<1> QED
  BY <1>9 DEF Goal

LEMMA LogOrderStep ==
  ASSUME LogInClickOrder, IInv, OrderInv, [Next]_vars
  PROVE  LogInClickOrder'
<1>0. TypeOK /\ log \in Seq(Known)
  BY DEF IInv, TypeOK, ServerOK
<1>k. Known \subseteq Nat
  BY <1>0, KnownNat
<1>l. \A i \in DOMAIN log : log[i] \in Known /\ log[i] \in Nat /\ log[i] \in Moved
  BY <1>0, <1>k, LenProperties, ElementOfSeq DEF Moved, ToSet
<1>1. CASE UNCHANGED <<clicks, log>>
  BY <1>1 DEF LogInClickOrder, Home
<1>2. ASSUME NEW t \in Tab, Click(t), log' = log PROVE LogInClickOrder'
  <2>1. \A k \in Known : Home(k)' = Home(k)
    BY <1>0, <1>2, ClickDoes
  <2>2. ASSUME NEW i \in DOMAIN log, NEW j \in DOMAIN log, i < j,
               Home(log[i])' = Home(log[j])'
        PROVE  log[i] < log[j]
    <3>1. Home(log[i])' = Home(log[i]) /\ Home(log[j])' = Home(log[j])
      BY <1>2, <1>l, <2>1
    <3> QED
      BY <2>2, <3>1 DEF LogInClickOrder
  <2> QED
    BY <1>2, <2>2 DEF LogInClickOrder
<1>3. ASSUME NEW m \in Known, clicks' = clicks, log' = Append(log, m), ~Spent(m)
      PROVE  LogInClickOrder'
  <2>1. \A k : Home(k)' = Home(k)
    BY <1>3, SameClicks
  <2>2. PICK l \in Nat : /\ DOMAIN log' = DOMAIN log \cup {l} /\ log'[l] = m
                         /\ \A i \in DOMAIN log : i < l /\ i \in Nat /\ log'[i] = log[i]
    <3>1. Len(log) + 1 \in Nat
      BY <1>0, AppendAt
    <3> QED
      BY <1>0, <1>3, <3>1, AppendAt
  <2>3. ASSUME NEW i \in DOMAIN log', NEW j \in DOMAIN log', i < j,
               Home(log'[i]) = Home(log'[j])
        PROVE  log'[i] < log'[j]
    <3>1. i \in DOMAIN log
      BY <2>2, <2>3
    <3>2. CASE j \in DOMAIN log
      BY <2>2, <2>3, <3>1, <3>2 DEF LogInClickOrder
    <3>3. CASE j = l
      <4>1. log[i] \in Nat /\ m \in Nat /\ log[i] \in Moved /\ Home(log[i]) = Home(m)
        BY <1>k, <1>l, <2>2, <2>3, <3>1, <3>3
      <4>2. ~(log[i] >= m)
        BY <1>3, <4>1 DEF Spent
      <4>3. log[i] < m
        BY <4>1, <4>2
      <4> QED
        BY <2>2, <3>1, <3>3, <4>3
    <3> QED
      BY <2>2, <3>2, <3>3
  <2> QED
    BY <1>3, <2>1, <2>3 DEF LogInClickOrder, Home
<1> QED
  BY <1>1, <1>2, <1>3, LogStep

\* LogInClickOrder: with one tab in each browser, the clicks of a browser move
\* the row in the order they were made (setTaskCompletion's revision check,
\* through retries, replays and requests that are served late).
THEOREM ClicksInOrder ==
  ASSUME OneTabEach
  PROVE  Spec => []LogInClickOrder
<1>1. Init => LogInClickOrder
  BY DEF Init, LogInClickOrder
<1>2. IInv /\ OrderInv /\ LogInClickOrder /\ [Next]_vars => LogInClickOrder'
  BY LogOrderStep
<1> QED
  BY <1>1, <1>2, OrderAlways, PTL DEF Spec

-----------------------------------------------------------------------------
\* What the clicks ask for, as the register sees it.
Wanted == [i \in DOMAIN clicks |-> clicks[i].want]

LEMMA WantedSeq ==
  ASSUME TypeOK
  PROVE  Wanted \in Seq(BOOLEAN) /\ Len(Wanted) = Len(clicks)
<1>1. clicks \in Seq([tab : Tab, want : BOOLEAN]) /\ DOMAIN clicks = 1..Len(clicks)
  BY LenProperties DEF TypeOK, ClicksOK
<1>2. \A i \in 1..Len(clicks) : clicks[i].want \in BOOLEAN
  <2>1. \A i \in 1..Len(clicks) : clicks[i] \in [tab : Tab, want : BOOLEAN]
    BY <1>1, ElementOfSeq, Zenon
  <2> QED
    BY <2>1
<1>3. Len(clicks) \in Nat
  BY <1>1, LenProperties
<1>4. Wanted \in [1..Len(clicks) -> BOOLEAN]
  BY <1>1, <1>2 DEF Wanted
<1>5. Wanted \in Seq(BOOLEAN)
  <2> HIDE DEF Wanted
  <2>1. Seq(BOOLEAN) = UNION {[1..n -> BOOLEAN] : n \in Nat}
    BY SeqDef, Zenon
  <2>2. \E n \in Nat : Wanted \in [1..n -> BOOLEAN]
    BY <1>3, <1>4, Zenon
  <2> QED
    BY <2>1, <2>2, Zenon
<1> QED
  BY <1>3, <1>4, <1>5, LenProperties

LEMMA ClickIssues ==
  ASSUME TypeOK, NEW t \in Tab, Click(t)
  PROVE  \E w \in BOOLEAN : Wanted' = Append(Wanted, w)
<1>w. PICK w : w = ~cache[t].done
  OBVIOUS
<1>c. PICK c : c = [tab |-> t, want |-> w]
  OBVIOUS
<1>1. clicks \in Seq([tab : Tab, want : BOOLEAN]) /\ cache[t] \in Shown
  BY DEF TypeOK, ClicksOK, ClientOK
<1>2. w \in BOOLEAN
  <2>1. (~cache[t].done) \in BOOLEAN
    OBVIOUS
  <2> QED
    BY <1>w, <2>1
<1>3. clicks' = Append(clicks, c) /\ c \in [tab : Tab, want : BOOLEAN]
  BY <1>c, <1>w, <1>2 DEF Click
<1>4. /\ Len(clicks) \in Nat /\ DOMAIN clicks = 1..Len(clicks)
      /\ DOMAIN clicks' = DOMAIN clicks \cup {Len(clicks) + 1}
      /\ clicks'[Len(clicks) + 1] = c
      /\ \A i \in DOMAIN clicks : clicks'[i] = clicks[i]
  BY <1>1, <1>3, AppendAt
<1>5. Wanted \in Seq(BOOLEAN) /\ Len(Wanted) = Len(clicks)
  BY WantedSeq
<1>6. /\ DOMAIN Append(Wanted, w) = DOMAIN clicks'
      /\ Append(Wanted, w)[Len(clicks) + 1] = w
      /\ \A i \in DOMAIN clicks : Append(Wanted, w)[i] = clicks[i].want
      /\ Append(Wanted, w) \in Seq(BOOLEAN)
  BY <1>2, <1>4, <1>5, AppendAt, AppendProperties DEF Wanted
<1>7. Append(Wanted, w) = [i \in DOMAIN clicks' |-> Append(Wanted, w)[i]]
  BY <1>6, LenProperties
<1>8. \A i \in DOMAIN clicks' : Append(Wanted, w)[i] = clicks'[i].want
  BY <1>4, <1>6, <1>c
<1>9. Wanted' = [i \in DOMAIN clicks' |-> Append(Wanted, w)[i]]
  BY <1>8 DEF Wanted
<1> QED
  BY <1>2, <1>7, <1>9

\* RegisterSpec: with one tab in each browser, setTaskCompletion and updateBlock
\* with any number of clients around them implement the register: only clicks
\* move the task, each at most once, each to the state it asked for.
THEOREM ImplementsRegister ==
  ASSUME OneTabEach
  PROVE  Spec => RegisterSpec
<1>1. Init => Register!Init
  <2> SUFFICES ASSUME Init PROVE Register!Init
    OBVIOUS
  <2>1. clicks = <<>> /\ log = <<>> /\ row.done \in BOOLEAN
    BY ConstantsAssumption DEF Init
  <2>2. [i \in DOMAIN clicks |-> clicks[i].want] = <<>>
    BY <2>1
  <2>3. ToSet(log) = {}
    BY <2>1 DEF ToSet
  <2> QED
    BY <2>1, <2>2, <2>3 DEF Register!Init
<1>2. ASSUME IInv, OrderInv, [Next]_vars PROVE [Register!Next]_(Register!vars)
  <2>0. TypeOK
    BY <1>2 DEF IInv
  <2>1. CASE UNCHANGED <<clicks, log>> /\ row'.done = row.done
    BY <2>1 DEF Register!vars
  <2>2. ASSUME NEW t \in Tab, Click(t), log' = log, row' = row
        PROVE  Register!Next
    <3>1. \E w \in BOOLEAN : Wanted' = Append(Wanted, w)
      BY <2>0, <2>2, ClickIssues
    <3> QED
      BY <2>2, <3>1 DEF Register!Next, Register!Issue, Wanted
  <2>3. ASSUME NEW m \in Known, clicks' = clicks, Moved' = Moved \cup {m}, m \notin Moved,
               row.done # Want(m), row'.done = Want(m)
        PROVE  Register!Next
    <3>1. /\ DOMAIN Wanted = Known
          /\ Wanted[m] = Want(m)
          /\ Wanted' = Wanted
      BY <2>3 DEF Wanted, Known, Want
    <3>2. Register!Move(m)
      BY <2>3, <3>1 DEF Register!Move, Wanted, Moved
    <3> QED
      BY <3>1, <3>2 DEF Register!Next, Wanted
  <2> QED
    BY <1>2, <2>1, <2>2, <2>3, LogStep
<1>3. IInv /\ OrderInv /\ [Next]_vars => [Register!Next]_(Register!vars)
  BY <1>2
<1> QED
  BY <1>1, <1>3, OrderAlways, PTL DEF Spec, RegisterSpec, Register!Spec
=============================================================================
