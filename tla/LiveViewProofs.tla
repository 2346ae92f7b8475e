--------------------------- MODULE LiveViewProofs ---------------------------
(***************************************************************************)
(* Proofs about LiveView, for any number of changes and of troubles: the   *)
(* page is never adrift, a page at rest has missed nothing, and (at the    *)
(* end) a page that stays visible catches up once the feed is quiet.       *)
(***************************************************************************)
EXTENDS LiveView, TLAPS

\* The page's data; a stream that is not established has nothing on its way, and
\* one that is has only news.
Shape(p) ==
  /\ p \in Page
  /\ p.stream \notin {"open", "ended"} => p.wire = << >>
  /\ p.stream = "open" => p.wire \in Seq({"connected", "changed"})

\* A read that is to follow another one, and a probe that waits, do so while a
\* read is under way.
Probing(p) ==
  /\ p.rerun => p.reading # Idle
  /\ p.probing # "no" => p.reading # Idle
  /\ p.probing = "next" => p.rerun

\* NeverAdrift of a page.
Final(p) ==
  Revoked(p) => /\ p.shown = 0 /\ p.stream = "none"
                /\ ~p.watchdog /\ ~p.reopen /\ ~p.retry

Anchored(p) ==
  /\ Final(p)
  /\ ~Revoked(p) /\ p.stream = "none" => p.probing # "no" \/ p.reopen \/ ~p.visible

Sound(p) == Shape(p) /\ Probing(p) /\ Anchored(p)

\* A connected page on which nothing calls for a read shows the version v, or is
\* reading it.
Fresh(p, v) ==
  /\ p.stream = "open" /\ p.visible
  /\ p.wire = << >> /\ p.due = 0 /\ ~p.rerun /\ ~p.retry
  => /\ p.reading.phase = "idle" => p.shown = v
     /\ p.reading.phase = "answered" /\ p.reading.status = "ok" => p.reading.seen = v

\* What a read is before it has begun, and while it is asked for.
LEMMA Constants ==
  /\ Asking \in Reading /\ Idle \in Reading /\ Asking # Idle
  /\ Asking.phase = "sent" /\ Idle.phase = "idle"
  /\ << >> \in Seq(Event) /\ 0 \in 0..MaxVersion
BY ConstantsAssumption DEF Asking, Idle, Reading, Status
-----------------------------------------------------------------------------
\* A refresh keeps the page sound, and leaves the probe as it is.
LEMMA RefreshedSound ==
  ASSUME NEW p, Shape(p), Final(p)
  PROVE  /\ Shape(Refreshed(p)) /\ Final(Refreshed(p))
         /\ Anchored(p) => Anchored(Refreshed(p))
         /\ Probing(p) => Probing(Refreshed(p))
         /\ Refreshed(p).probing = p.probing
         /\ p.reading = Idle /\ ~p.rerun => ~Refreshed(p).rerun
<1> DEFINE r == Refreshed(p)
<1>1. CASE Revoked(p) \/ ~p.visible
  BY <1>1 DEF Refreshed
<1>2. CASE ~Revoked(p) /\ p.visible /\ p.reading # Idle
  <2>1. r = [p EXCEPT !.rerun = TRUE]
    BY <1>2 DEF Refreshed
  <2> QED
    BY <1>2, <2>1 DEF Shape, Anchored, Final, Probing, Page, Revoked
<1>3. CASE ~Revoked(p) /\ p.visible /\ p.reading = Idle
  <2>1. r = [p EXCEPT !.reading = Asking]
    BY <1>3 DEF Refreshed
  <2> QED
    BY <1>3, <2>1, Constants DEF Shape, Anchored, Final, Probing, Page, Revoked
<1> QED BY <1>1, <1>2, <1>3

\* Whatever version is shown, a refresh calls for a read of the latest.
LEMMA RefreshedFresh ==
  ASSUME NEW p, Shape(p), Final(p), NEW v
  PROVE  Fresh(Refreshed(p), v)
BY Constants DEF Shape, Final, Refreshed, Page, Revoked, Fresh

\* A stream that is opened anchors any page.
LEMMA OpenedSound ==
  ASSUME NEW p, Shape(p), Probing(p), Final(p)
  PROVE  Sound(Opened(p))
<1>1. CASE Revoked(p)
  BY <1>1 DEF Opened, Sound, Shape, Anchored, Final, Page, Revoked
<1>2. CASE ~Revoked(p)
  <2>1. Opened(p) \in Page
    BY <1>2, Constants DEF Shape, Opened, Page, Stream, State
  <2>2. Opened(p).state = IF p.state = "start" THEN "connecting" ELSE p.state
    BY <1>2 DEF Shape, Opened, Page
  <2>3. /\ Opened(p).stream = "waiting" /\ Opened(p).wire = << >>
        /\ Opened(p).probing = p.probing /\ Opened(p).reading = p.reading
        /\ Opened(p).rerun = p.rerun
    BY <1>2 DEF Shape, Opened, Page
  <2> QED
    BY <1>2, <2>1, <2>2, <2>3 DEF Sound, Shape, Anchored, Final, Probing, Revoked
<1> QED BY <1>1, <1>2

\* Nothing can be missed before the stream is established.
LEMMA OpenedShut ==
  ASSUME NEW p, Shape(p), Final(p)
  PROVE  Opened(p).stream # "open"
BY DEF Opened, Shape, Final, Page

\* A page that is cleared keeps what was under way, and nothing else.
LEMMA ClearedSound ==
  ASSUME NEW p, p \in Page
  PROVE  /\ Shape(Cleared(p)) /\ Anchored(Cleared(p)) /\ Revoked(Cleared(p))
         /\ Cleared(p).probing = p.probing /\ Cleared(p).reading = p.reading
         /\ Cleared(p).rerun = p.rerun /\ Cleared(p).stream = "none"
BY Constants DEF Shape, Anchored, Final, Cleared, Teardown, Page, Revoked, Stream, State

\* A report changes the state only, or clears the page.
LEMMA ReportedSound ==
  ASSUME NEW p, p \in Page, NEW status \in Status
  PROVE  /\ Shape(p) => Shape(Reported(p, status))
         /\ Final(p) => Final(Reported(p, status))
         /\ Anchored(p) => Anchored(Reported(p, status))
         /\ Reported(p, status) \in Page
         /\ Reported(p, status).probing = p.probing
         /\ Reported(p, status).reading = p.reading
         /\ Reported(p, status).rerun = p.rerun
         /\ \A v : Fresh(p, v) => Fresh(Reported(p, status), v)
         /\ ~Revoked(Reported(p, status)) => /\ Reported(p, status).shown = p.shown
                                             /\ Reported(p, status).stream = p.stream
<1> DEFINE r == Reported(p, status)
           Goal == /\ Shape(p) => Shape(r)
                   /\ Final(p) => Final(r)
                   /\ Anchored(p) => Anchored(r)
                   /\ r \in Page
                   /\ r.probing = p.probing /\ r.reading = p.reading /\ r.rerun = p.rerun
                   /\ \A v : Fresh(p, v) => Fresh(r, v)
                   /\ ~Revoked(r) => r.shown = p.shown /\ r.stream = p.stream
<1>1. r = Cleared(p) => Goal
  BY ClearedSound DEF Fresh, Shape, Anchored
<1>2. r = p => Goal
  OBVIOUS
<1>3. ASSUME ~Revoked(p), NEW s \in State \ {"revoked"}, r = [p EXCEPT !.state = s]
      PROVE  Goal
  BY <1>3 DEF Page, Shape, Anchored, Final, Fresh, Revoked
<1> DEFINE next == IF status = "error" THEN "offline"
                   ELSE IF p.state \notin {"start", "connecting", "offline"} THEN p.state
                   ELSE IF Ready(p) THEN "live" ELSE "polling"
<1>4. \/ r = p
      \/ r = Cleared(p)
      \/ ~Revoked(p) /\ r = [p EXCEPT !.state = next]
  <2>1. CASE Revoked(p)
    BY <2>1 DEF Reported
  <2>2. CASE ~Revoked(p) /\ status = "gone"
    BY <2>2 DEF Reported
  <2>3. CASE ~Revoked(p) /\ status = "error"
    BY <2>3 DEF Reported
  <2>4. CASE ~Revoked(p) /\ status = "ok"
    BY <2>4 DEF Reported
  <2> QED BY <2>1, <2>2, <2>3, <2>4 DEF Status
<1>5. {"offline", "live", "polling"} \subseteq State \ {"revoked"}
  BY DEF State
<1>6. ~Revoked(p) => next \in State \ {"revoked"}
  BY <1>5 DEF Page, Revoked
<1> HIDE DEF r, next
<1> QED
  <2>1. Goal BY <1>1, <1>2, <1>3, <1>4, <1>5, <1>6
  <2> QED BY <2>1 DEF r

\* After an event the page has a read to do, or no stream.
LEMMA ReceivedSound ==
  ASSUME NEW p, Sound(p), p.wire # << >>, NEW v
  PROVE  Sound(Received(p)) /\ Fresh(Received(p), v)
<1> DEFINE q == [p EXCEPT !.wire = Tail(@)]
<1>1. Sound(q) /\ ~Revoked(q)
  <2>1. /\ Tail(p.wire) \in Seq(Event)
        /\ p.stream = "open" => Tail(p.wire) \in Seq({"connected", "changed"})
    BY DEF Sound, Shape, Page
  <2> QED BY <2>1 DEF Sound, Shape, Probing, Anchored, Final, Page, Revoked
<1>2. /\ Head(p.wire) \in Event
      /\ p.stream = "open" => Head(p.wire) \in {"connected", "changed"}
      /\ q.stream = p.stream
  BY DEF Sound, Shape, Page
<1> HIDE DEF q
<1>3. CASE Head(p.wire) \in {"connected", "changed"}
  <2> DEFINE n == q.due + 1
             r == [q EXCEPT !.watchdog = TRUE, !.state = "live", !.due = n]
  <2>1. Received(p) = r
    BY <1>3 DEF Received, q
  <2>2. n \in Nat /\ n # 0
    BY <1>1 DEF Sound, Shape, Page
  <2> HIDE DEF n
  <2>3. /\ r \in Page /\ r.state = "live" /\ r.due # 0
        /\ r.stream = q.stream /\ r.wire = q.wire /\ r.probing = q.probing
        /\ r.reading = q.reading /\ r.rerun = q.rerun /\ r.reopen = q.reopen
        /\ r.visible = q.visible
    BY <1>1, <2>2 DEF Sound, Shape, Page, State
  <2> HIDE DEF r
  <2> QED
    BY <1>1, <2>1, <2>3 DEF Sound, Shape, Probing, Anchored, Final, Revoked, Fresh
<1>4. CASE Head(p.wire) = "capacity"
  BY <1>1, <1>2, <1>4 DEF Received, Sound, Shape, Probing, Anchored, Final, Page, Revoked, State,
                     Fresh, q
<1>5. CASE Head(p.wire) = "revoked"
  <2>1. q \in Page
    BY <1>1 DEF Sound, Shape
  <2>2. Received(p) = Cleared(q)
    BY <1>5 DEF Received, q
  <2> QED BY <1>1, <2>1, <2>2, ClearedSound DEF Sound, Probing, Fresh
<1> QED BY <1>2, <1>3, <1>4, <1>5 DEF Event

\* A probe that ends leaves a stream to come, or a page that is cleared.
LEMMA ProbedSound ==
  ASSUME NEW p, Shape(p), Final(p), p.rerun => p.reading # Idle
  PROVE  /\ Sound(Probed(p))
         /\ \A v : Fresh(p, v) => Fresh(Probed(p), v)
<1> DEFINE status == IF p.last = "none" THEN "ok" ELSE p.last
           o == [p EXCEPT !.probing = "no"]
           q == Reported(o, status)
           next == IF status = "error" THEN q.state ELSE "polling"
           r == [q EXCEPT !.state = next, !.reopen = TRUE]
<1>1. status \in Status
  BY DEF Shape, Page, Status
<1>2. /\ o \in Page /\ Shape(o) /\ Final(o) /\ o.probing = "no"
      /\ o.rerun => o.reading # Idle
      /\ \A v : Fresh(p, v) => Fresh(o, v)
  BY DEF Shape, Page, Fresh, Final, Revoked
<1>3. Probed(p) = IF Revoked(q) THEN q ELSE r
  BY DEF Probed
<1> HIDE DEF status, o
<1>4. /\ Shape(q) /\ Final(q) /\ q \in Page /\ q.probing = "no"
      /\ q.rerun => q.reading # Idle
      /\ \A v : Fresh(o, v) => Fresh(q, v)
  BY <1>1, <1>2, ReportedSound
<1>6. next \in State /\ (~Revoked(q) => next # "revoked")
  BY <1>4 DEF Page, State, Revoked
<1> HIDE DEF q, next
<1>7. ~Revoked(q) => Sound(r) /\ \A v : Fresh(q, v) => Fresh(r, v)
  BY <1>4, <1>6 DEF Sound, Shape, Probing, Anchored, Final, Page, Revoked, Fresh
<1> HIDE DEF r
<1> QED
  BY <1>2, <1>3, <1>4, <1>7 DEF Sound, Probing, Anchored

\* A probe that begins reads the feed, unless the page is hidden.
LEMMA ProbeSound ==
  ASSUME NEW p, Shape(p), Probing(p), Final(p), p.stream = "none"
  PROVE  Sound(Probe(p)) /\ \A v : Fresh(Probe(p), v)
<1> DEFINE o == [p EXCEPT !.last = "none"]
           q == Refreshed(o)
<1>1. CASE Revoked(p)
  BY <1>1 DEF Probe, Sound, Anchored, Fresh
<1>2. CASE ~Revoked(p) /\ p.probing # "no"
  BY <1>2 DEF Probe, Sound, Anchored, Fresh
<1>3. CASE ~Revoked(p) /\ p.probing = "no"
  <2>1. /\ Shape(o) /\ ~Revoked(o) /\ o.probing = "no" /\ o.reading = p.reading
        /\ o.rerun => o.reading # Idle
        /\ o.stream = "none" /\ o.visible = p.visible /\ Final(o)
    BY <1>3 DEF Shape, Page, Status, Revoked, Final, Probing
  <2>2. Probe(p) = IF ~p.visible THEN Probed(q)
                   ELSE [q EXCEPT !.probing = IF p.reading = Idle THEN "read" ELSE "next"]
    BY <1>3 DEF Probe
  <2> HIDE DEF o
  <2>3. CASE ~p.visible
    <3>1. q = o /\ \A v : Fresh(o, v)
      BY <2>1, <2>3 DEF Refreshed, Fresh
    <3> HIDE DEF q
    <3>2. Probe(p) = Probed(o)
      BY <2>2, <2>3, <3>1
    <3> QED BY <2>1, <3>1, <3>2, ProbedSound
  <2>4. CASE p.visible /\ p.reading # Idle
    <3> DEFINE r == [o EXCEPT !.rerun = TRUE, !.probing = "next"]
    <3>1. Probe(p) = r
      BY <2>1, <2>2, <2>4 DEF Refreshed
    <3>2. Sound(r) /\ \A v : Fresh(r, v)
      BY <2>1, <2>4 DEF Sound, Shape, Probing, Anchored, Final, Page, Revoked, Fresh
    <3> QED BY <3>1, <3>2
  <2>5. CASE p.visible /\ p.reading = Idle
    <3> DEFINE r == [o EXCEPT !.reading = Asking, !.probing = "read"]
    <3>1. Probe(p) = r
      BY <2>1, <2>2, <2>5 DEF Refreshed
    <3>2. Sound(r) /\ \A v : Fresh(r, v)
      BY <2>1, <2>5, Constants
      DEF Sound, Shape, Probing, Anchored, Final, Page, Revoked, Fresh
    <3> QED BY <3>1, <3>2
  <2> QED BY <2>3, <2>4, <2>5
<1> QED BY <1>1, <1>2, <1>3

LEMMA ContinuedSound ==
  ASSUME NEW p, Shape(p), Anchored(p), p.reading = Idle, p.probing = "next" => p.rerun,
         NEW v, Fresh(p, v)
  PROVE  Sound(Continued(p)) /\ Fresh(Continued(p), v)
<1> DEFINE o == [p EXCEPT !.rerun = FALSE]
           q == IF p.rerun THEN Refreshed(o) ELSE p
           r == [q EXCEPT !.probing = "read"]
<1>1. /\ Shape(o) /\ Anchored(o) /\ Final(o) /\ o.probing = p.probing /\ o.reading = Idle
      /\ ~o.rerun
  BY DEF Shape, Anchored, Final, Page, Revoked
<1>2. /\ Shape(q) /\ Anchored(q) /\ q.probing = p.probing /\ Fresh(q, v)
      /\ ~q.rerun
  <2> HIDE DEF o
  <2> QED BY <1>1, RefreshedSound, RefreshedFresh
<1>3. Continued(p) = CASE p.probing = "read" -> Probed(q)
                       [] p.probing = "next" -> IF q.reading = Idle THEN Probed(q) ELSE r
                       [] OTHER -> q
  BY DEF Continued
<1> HIDE DEF q
<1>4. Sound(Probed(q)) /\ Fresh(Probed(q), v)
  BY <1>2, ProbedSound DEF Anchored
<1>5. q.reading # Idle => Sound(r) /\ Fresh(r, v)
  BY <1>2 DEF Sound, Shape, Probing, Anchored, Final, Page, Revoked, Fresh
<1>6. p.probing = "no" => Sound(q)
  BY <1>2 DEF Sound, Probing
<1>7. p.probing \in {"no", "next", "read"}
  BY DEF Shape, Page
<1> HIDE DEF r
<1> QED BY <1>2, <1>3, <1>4, <1>5, <1>6, <1>7

\* A read that ends leaves the page up to date, or has something else to do.
LEMMA ReadEndedSound ==
  ASSUME NEW p, Sound(p), p.reading.phase = "answered", NEW v, Fresh(p, v)
  PROVE  Sound(ReadEnded(p)) /\ Fresh(ReadEnded(p), v)
<1> DEFINE q == [p EXCEPT !.reading = Idle]
           a == [q EXCEPT !.shown = p.reading.seen, !.last = "ok"]
           f == [q EXCEPT !.last = p.reading.status]
<1>1. p.reading \in Reading /\ p.reading.status \in Status
      /\ p.reading.seen \in 0..MaxVersion
  BY DEF Sound, Shape, Page, Reading
<1>2. /\ q \in Page /\ Shape(q) /\ Anchored(q) /\ q.reading = Idle /\ q.rerun = p.rerun
      /\ q.probing = p.probing /\ (Revoked(q) <=> Revoked(p))
      /\ p.probing = "next" => q.rerun
  BY Constants DEF Sound, Shape, Probing, Anchored, Final, Page, Revoked
<1>3. ASSUME p.reading.status = "ok"
      PROVE  LET n == Applied(q, p.reading.seen)
             IN  /\ Shape(n) /\ Anchored(n) /\ n.reading = Idle /\ Fresh(n, v)
                 /\ n.probing = "next" => n.rerun
  <2>1. CASE Revoked(q)
    <3>1. Applied(q, p.reading.seen) = q
      BY <2>1 DEF Applied
    <3> QED BY <1>2, <2>1, <3>1 DEF Anchored, Final, Fresh
  <2>2. CASE ~Revoked(q)
    <3>1. Applied(q, p.reading.seen) = Reported(a, "ok")
      BY <2>2 DEF Applied
    <3>2. /\ a \in Page /\ Shape(a) /\ Anchored(a) /\ a.reading = Idle
          /\ a.probing = p.probing /\ a.rerun = p.rerun
      BY <1>1, <1>2, <2>2 DEF Shape, Anchored, Final, Page, Revoked, Status
    <3>3. Fresh(a, v)
      BY <1>3, <1>1, <1>2, Constants DEF Shape, Sound, Page, Fresh
    <3> HIDE DEF a, q
    <3> QED BY <1>2, <3>1, <3>2, <3>3, ReportedSound DEF Status
  <2> QED BY <2>1, <2>2
<1>4. LET n == Failed(q, p.reading.status)
      IN  /\ Shape(n) /\ Anchored(n) /\ n.reading = Idle /\ Fresh(n, v)
          /\ n.probing = "next" => n.rerun
  <2> DEFINE r == Reported(f, p.reading.status)
             t == [r EXCEPT !.retry = TRUE]
  <2>1. /\ f \in Page /\ Shape(f) /\ Anchored(f) /\ f.reading = Idle
        /\ f.probing = p.probing /\ f.rerun = p.rerun
    BY <1>1, <1>2 DEF Shape, Anchored, Final, Page, Revoked
  <2> HIDE DEF f
  <2>2. /\ Shape(r) /\ Anchored(r) /\ r.reading = Idle /\ r.probing = p.probing
        /\ r.rerun = p.rerun
    BY <1>1, <2>1, ReportedSound
  <2>3. Failed(q, p.reading.status) = IF Revoked(r) THEN r ELSE t
    BY DEF Failed, f
  <2> HIDE DEF r
  <2>4. Revoked(r) => Fresh(r, v)
    BY <2>2 DEF Anchored, Final, Fresh
  <2>5. ~Revoked(r) => /\ Shape(t) /\ Anchored(t) /\ t.reading = Idle /\ Fresh(t, v)
                       /\ t.probing = p.probing /\ t.rerun = p.rerun
    BY <2>2 DEF Shape, Anchored, Final, Page, Revoked, Fresh
  <2> HIDE DEF t
  <2> QED BY <1>2, <2>2, <2>3, <2>4, <2>5
<1>5. ReadEnded(p) = Continued(IF p.reading.status = "ok" THEN Applied(q, p.reading.seen)
                               ELSE Failed(q, p.reading.status))
  BY DEF ReadEnded
<1> HIDE DEF q
<1> QED BY <1>3, <1>4, <1>5, ContinuedSound

\* A stream that is tried again, and one that is given up.
LEMMA RetryingSound ==
  ASSUME NEW p, Sound(p), ~Revoked(p), NEW v
  PROVE  /\ Sound(Retrying(p)) /\ Fresh(Retrying(p), v)
         /\ Sound(GivenUp(p)) /\ Fresh(GivenUp(p), v)
<1>1. Sound(Retrying(p)) /\ Fresh(Retrying(p), v)
  BY Constants DEF Retrying, Sound, Shape, Probing, Anchored, Final, Page, Revoked, State,
                   Stream, Fresh
<1>2. /\ Shape(Teardown(p)) /\ Probing(Teardown(p)) /\ Final(Teardown(p))
      /\ Teardown(p).stream = "none"
  BY Constants DEF Teardown, Sound, Shape, Probing, Anchored, Final, Page, Revoked, Stream
<1> QED BY <1>1, <1>2, ProbeSound DEF GivenUp
-----------------------------------------------------------------------------
\* While nothing is on its way from the owner's writes to the page's stream, the
\* page is fresh.
Told == link = "on" /\ owed = 0 /\ ~pinging => Fresh(page, version)

Rest ==
  /\ version \in 1..MaxVersion
  /\ owed \in 0..MaxVersion
  /\ link \in {"on", "closing", "off"}
  /\ up \in BOOLEAN /\ pinging \in BOOLEAN /\ full \in BOOLEAN
  /\ troubles \in 0..MaxTroubles
  /\ owed < version

IInv == Rest /\ Sound(page) /\ Told

\* The page begins with its first read and its first stream.
LEMMA Initially == Init => IInv
<1> SUFFICES ASSUME Init PROVE IInv
  OBVIOUS
<1> DEFINE p == [state |-> "start", stream |-> "none", wire |-> << >>, watchdog |-> FALSE,
                 reopen |-> FALSE, probing |-> "no", reading |-> Idle, rerun |-> FALSE,
                 retry |-> FALSE, due |-> 0, last |-> "none", shown |-> 0, visible |-> TRUE]
           q == [p EXCEPT !.reading = Asking]
<1>1. Rest
  <2>1. /\ version = 1 /\ owed = 0 /\ link = "on" /\ up = TRUE /\ pinging = FALSE
        /\ full = FALSE /\ troubles = 0
    BY DEF Init
  <2>2. 1 \in 1..MaxVersion /\ 0 \in 0..MaxVersion /\ 0 \in 0..MaxTroubles /\ 0 < 1
    BY ConstantsAssumption
  <2>3. up \in BOOLEAN /\ pinging \in BOOLEAN /\ full \in BOOLEAN
    BY <2>1
  <2> QED BY <2>1, <2>2, <2>3 DEF Rest
<1>2. page = Opened(Refreshed(p))
  BY DEF Init
<1>3. Shape(q) /\ Probing(q) /\ Final(q) /\ Refreshed(p) = q
  <2>1. p \in Page
    BY Constants DEF Page, State, Stream, Status
  <2>2. /\ p.state = "start" /\ p.wire = << >> /\ p.stream = "none" /\ p.probing = "no"
        /\ p.reading = Idle /\ p.visible /\ ~p.rerun
    OBVIOUS
  <2> HIDE DEF p
  <2> QED
    BY <2>1, <2>2, Constants DEF Refreshed, Shape, Probing, Final, Page, Revoked
<1> HIDE DEF p, q
<1>4. Sound(page)
  BY <1>2, <1>3, OpenedSound
<1>5. page.stream # "open"
  BY <1>2, <1>3, OpenedShut
<1> QED BY <1>1, <1>4, <1>5 DEF IInv, Told, Fresh

\* Steps that leave the server's variables alone and a page that is fresh.
LEMMA PageStep ==
  ASSUME IInv, UNCHANGED <<version, owed, link, up, pinging, full>>,
         troubles' \in 0..MaxTroubles, Sound(page'),
         Fresh(page, version) => Fresh(page', version)
  PROVE  IInv'
BY DEF IInv, Rest, Told

\* Steps of the server that leave the page alone; a broadcast that finds an open
\* stream sets a ping.
LEMMA ServerStep ==
  ASSUME IInv, Commit \/ Broadcast \/ Disable \/ Crowd \/ Leave \/ Restart
  PROVE  IInv'
<1>1. CASE Commit
  <2>1. /\ version' \in 1..MaxVersion /\ owed' \in 0..MaxVersion /\ owed' < version'
        /\ owed' # 0
    BY <1>1, ConstantsAssumption DEF Commit, IInv, Rest
  <2>2. UNCHANGED <<link, up, pinging, full, page, troubles>>
    BY <1>1 DEF Commit
  <2> QED BY <2>1, <2>2 DEF IInv, Rest, Told
<1>2. CASE Broadcast
  <2>1. page.stream = "open" => pinging'
    BY <1>2 DEF Broadcast, Watched
  <2>2. page.stream # "open" => Fresh(page, version)
    BY DEF Fresh
  <2>3. /\ owed' \in 0..MaxVersion /\ owed' < version
        /\ UNCHANGED <<version, link, up, full, page, troubles>>
    BY <1>2, ConstantsAssumption DEF Broadcast, IInv, Rest
  <2>4. pinging' \in BOOLEAN
    BY <1>2 DEF Broadcast
  <2>5. Rest' /\ Sound(page')
    BY <2>3, <2>4 DEF IInv, Rest
  <2>6. Told'
    BY <2>1, <2>2, <2>3 DEF Told
  <2> QED BY <2>5, <2>6 DEF IInv
<1>3. CASE Disable
  BY <1>3 DEF IInv, Rest, Told, Disable
<1>4. CASE Crowd
  BY <1>4, ConstantsAssumption DEF IInv, Rest, Told, Crowd, Trouble
<1>5. CASE Leave \/ Restart
  BY <1>5 DEF IInv, Rest, Told, Leave, Restart
<1> QED BY <1>1, <1>2, <1>3, <1>4, <1>5

\* A ping is on its way to the page whose stream is open.
LEMMA PingStep ==
  ASSUME IInv, Ping
  PROVE  IInv'
<1>1. CASE page.stream = "open"
  <2> DEFINE w == Append(page.wire, "changed")
             r == [page EXCEPT !.wire = w]
  <2>1. w \in Seq(Event) /\ w \in Seq({"connected", "changed"}) /\ w # << >>
    BY <1>1 DEF IInv, Sound, Shape, Page, Event
  <2>2. page' = r
    BY <1>1 DEF Ping, Sent
  <2> HIDE DEF w
  <2>3. Sound(r) /\ Fresh(r, version)
    BY <1>1, <2>1 DEF IInv, Sound, Shape, Probing, Anchored, Final, Page, Revoked, Fresh
  <2> QED BY <2>2, <2>3 DEF Ping, IInv, Rest, Told
<1>2. CASE page.stream # "open"
  BY <1>2 DEF Ping, Sent, IInv, Rest, Told, Fresh
<1> QED BY <1>1, <1>2

\* A page that is told the link is gone need not be fresh any longer.
LEMMA CloseStep ==
  ASSUME IInv, CloseStreams
  PROVE  IInv'
<1>1. Sound(page')
  <2>1. CASE page.stream = "open"
    <3> DEFINE w == Append(page.wire, "revoked")
    <3>1. w \in Seq(Event)
      BY DEF IInv, Sound, Shape, Page, Event
    <3>2. page' = [[page EXCEPT !.wire = w] EXCEPT !.stream = "ended"]
      BY <2>1 DEF CloseStreams, Sent
    <3> HIDE DEF w
    <3> QED
      BY <2>1, <3>1, <3>2
      DEF IInv, Sound, Shape, Probing, Anchored, Final, Page, Revoked, Stream
  <2>2. CASE page.stream # "open"
    BY <2>2 DEF CloseStreams, IInv
  <2> QED BY <2>1, <2>2
<1> QED BY <1>1 DEF CloseStreams, IInv, Rest, Told

\* A stream that is established begins with news.
LEMMA RegisterStep ==
  ASSUME IInv, Register
  PROVE  IInv'
<1>1. <<"capacity">> \in Seq(Event) /\ <<"connected">> \in Seq(Event)
      /\ <<"connected">> \in Seq({"connected", "changed"})
  BY DEF Event
<1>2. /\ page.stream = "asked"
      /\ \/ page' = [page EXCEPT !.stream = "ended", !.wire = <<"capacity">>]
         \/ page' = [page EXCEPT !.stream = "open", !.wire = <<"connected">>]
      /\ UNCHANGED <<version, owed, link, up, pinging, full, troubles>>
  BY DEF Register
<1>3. ASSUME NEW w \in Seq(Event), w # << >>,
             NEW st \in {"open", "ended"},
             st = "open" => w \in Seq({"connected", "changed"})
      PROVE  LET q == [page EXCEPT !.stream = st, !.wire = w]
             IN  Sound(q) /\ Fresh(q, version)
  BY <1>2, <1>3
  DEF IInv, Sound, Shape, Probing, Anchored, Final, Page, Revoked, Stream, Fresh
<1>4. <<"capacity">> # << >> /\ <<"connected">> # << >>
  OBVIOUS
<1>5. Sound(page') /\ Fresh(page', version)
  <2>1. CASE page' = [page EXCEPT !.stream = "ended", !.wire = <<"capacity">>]
    BY <1>1, <1>3, <1>4, <2>1
  <2>2. CASE page' = [page EXCEPT !.stream = "open", !.wire = <<"connected">>]
    BY <1>1, <1>3, <1>4, <2>2
  <2> QED BY <1>2, <2>1, <2>2
<1> QED BY <1>2, <1>5, PageStep DEF IInv, Rest

\* The answers a read can have.
LEMMA Answers ==
  ASSUME version \in 1..MaxVersion
  PROVE  /\ Answer("ok", version) \in Reading /\ Answer("ok", version).seen = version
         /\ \A s \in Status, n \in 0..MaxVersion : Answer(s, n).status = s
         /\ Answer("gone", 0) \in Reading /\ Answer("error", 0) \in Reading
         /\ \A s, n : Answer(s, n) # Idle /\ Answer(s, n).phase = "answered"
BY ConstantsAssumption DEF Answer, Reading, Status, Idle

\* A read that is answered by now.
LEMMA AnsweredSound ==
  ASSUME IInv, NEW p, Sound(p), p.reading.phase = "sent"
  PROVE  /\ LET q == [p EXCEPT !.reading = Answer("error", 0)]
             IN  Sound(q) /\ (\A v : Fresh(q, v)) /\ q.stream = p.stream
                 /\ (Revoked(q) <=> Revoked(p))
         /\ LET q == [p EXCEPT !.reading = Answer("gone", 0)]
             IN  Sound(q) /\ \A v : Fresh(q, v)
         /\ LET q == [p EXCEPT !.reading = Answer("ok", version)]
             IN  Sound(q) /\ Fresh(q, version)
<1>1. version \in 1..MaxVersion
  BY DEF IInv, Rest
<1>2. \A a \in Reading : a # Idle => Sound([p EXCEPT !.reading = a])
  BY DEF Sound, Shape, Probing, Anchored, Final, Page, Revoked
<1>3. \A v : \A a \in Reading :
        a.phase = "answered" /\ (a.status = "ok" => a.seen = v)
          => Fresh([p EXCEPT !.reading = a], v)
  BY DEF Sound, Shape, Page, Fresh
<1>4. /\ Answer("error", 0).status = "error" /\ Answer("gone", 0).status = "gone"
  BY DEF Answer
<1>5. \A a : [p EXCEPT !.reading = a].stream = p.stream
              /\ [p EXCEPT !.reading = a].state = p.state
  BY DEF Sound, Shape, Page
<1> QED BY <1>1, <1>2, <1>3, <1>4, <1>5, Answers DEF Revoked
-----------------------------------------------------------------------------
\* The answer to a read is the version there is.
LEMMA ServeStep ==
  ASSUME IInv, Serve
  PROVE  IInv'
<1>1. /\ page.reading.phase = "sent"
      /\ page' = [page EXCEPT !.reading = IF link = "on" THEN Answer("ok", version)
                                          ELSE Answer("gone", 0)]
      /\ UNCHANGED <<version, owed, link, up, pinging, full, troubles>>
  BY DEF Serve
<1>2. Sound(page') /\ (link = "on" => Fresh(page', version))
  <2>1. CASE link = "on"
    <3>1. page' = [page EXCEPT !.reading = Answer("ok", version)]
      BY <1>1, <2>1
    <3> QED BY <1>1, <3>1, AnsweredSound DEF IInv
  <2>2. CASE link # "on"
    <3>1. page' = [page EXCEPT !.reading = Answer("gone", 0)]
      BY <1>1, <2>2
    <3> QED BY <1>1, <2>2, <3>1, AnsweredSound DEF IInv
  <2> QED BY <2>1, <2>2
<1> QED BY <1>1, <1>2 DEF IInv, Rest, Told

\* What a restart forgets to broadcast is read when the broken stream is back.
LEMMA CrashStep ==
  ASSUME IInv, Crash
  PROVE  IInv'
<1> DEFINE p == IF page.reading.phase = "sent"
                THEN [page EXCEPT !.reading = Answer("error", 0)] ELSE page
<1>1. page' \in IF p.stream \in {"asked", "open", "ended"} THEN {Retrying(p), GivenUp(p)}
                ELSE {p}
  BY DEF Crash
<1>2. Sound(p)
  BY AnsweredSound DEF IInv
<1> HIDE DEF p
<1>3. Sound(page') /\ Fresh(page', version)
  <2>1. CASE p.stream \in {"asked", "open", "ended"}
    <3>1. ~Revoked(p)
      BY <1>2, <2>1 DEF Sound, Anchored, Final
    <3> QED BY <1>1, <1>2, <2>1, <3>1, RetryingSound
  <2>2. CASE p.stream \notin {"asked", "open", "ended"}
    BY <1>1, <1>2, <2>2 DEF Fresh
  <2> QED BY <2>1, <2>2
<1>4. /\ up' = FALSE /\ owed' = 0 /\ pinging' = FALSE
      /\ link' \in {"on", "off"} /\ troubles' \in 0..MaxTroubles
      /\ UNCHANGED <<version, full>>
  <2>1. /\ up' = FALSE /\ owed' = 0 /\ pinging' = FALSE
        /\ link' \in {"on", "off"} /\ Trouble
        /\ UNCHANGED <<version, full>>
    BY DEF Crash
  <2>2. troubles' \in 0..MaxTroubles
    BY <2>1, ConstantsAssumption DEF Trouble, IInv, Rest
  <2> QED BY <2>1, <2>2
<1>5. Rest'
  <2>1. up' \in BOOLEAN /\ pinging' \in BOOLEAN
    BY <1>4
  <2>2. version' \in 1..MaxVersion /\ owed' \in 0..MaxVersion /\ owed' < version'
    BY <1>4, ConstantsAssumption DEF IInv, Rest
  <2> QED BY <1>4, <2>1, <2>2 DEF IInv, Rest
<1>6. Sound(page') /\ Fresh(page', version')
  BY <1>3, <1>4
<1>7. Told'
  BY <1>6 DEF Told
<1>8. Sound(page)'
  BY <1>6
<1> QED BY <1>5, <1>7, <1>8 DEF IInv

\* What becomes of the page's stream.
LEMMA StreamStep ==
  ASSUME IInv, Connect \/ NoticeEnd \/ Silence \/ Break \/ Watchdog
  PROVE  IInv'
<1>1. /\ UNCHANGED <<version, owed, link, up, pinging, full>>
      /\ troubles' \in 0..MaxTroubles
  BY ConstantsAssumption
  DEF Connect, NoticeEnd, Silence, Break, Watchdog, Heard, OnPage, Trouble, IInv, Rest
<1>2. page.stream # "none" => ~Revoked(page)
  BY DEF IInv, Sound, Anchored, Final
<1>3. CASE page' \in {Retrying(page), GivenUp(page)} /\ page.stream # "none"
  BY <1>1, <1>2, <1>3, RetryingSound, PageStep DEF IInv
<1>4. ASSUME NEW st \in {"asked", "silent", "hung"}, page.stream # "none",
             \/ page.wire = << >> /\ page' = [page EXCEPT !.stream = st]
             \/ page' = [page EXCEPT !.stream = st, !.wire = << >>]
      PROVE  IInv'
  <2>1. st # "open" /\ st # "ended" /\ st # "none" /\ st \in Stream
    BY DEF Stream
  <2>2. Sound(page') /\ page'.stream # "open"
    BY <1>2, <1>4, <2>1, Constants
    DEF IInv, Sound, Shape, Probing, Anchored, Final, Page, Revoked
  <2> QED BY <1>1, <2>2, PageStep DEF Fresh
<1>5. page.stream = "waiting" => page.wire = << >>
  BY DEF IInv, Sound, Shape
<1>6. CASE Connect
  <2>1. /\ page.stream = "waiting"
        /\ \/ page' \in {Retrying(page), GivenUp(page)}
           \/ page' = [page EXCEPT !.stream = "asked"]
    BY <1>6 DEF Connect, Heard, OnPage
  <2> QED BY <1>3, <1>4, <1>5, <2>1
<1>7. CASE NoticeEnd \/ Break
  <2>1. page.stream # "none" /\ page' \in {Retrying(page), GivenUp(page)}
    BY <1>7 DEF NoticeEnd, Break, Heard, OnPage
  <2> QED BY <1>3, <2>1
<1>8. CASE Silence
  <2>1. \/ /\ page.stream = "open"
           /\ page' = [page EXCEPT !.stream = "silent", !.wire = << >>]
        \/ page.stream = "waiting" /\ page' = [page EXCEPT !.stream = "hung"]
    BY <1>8 DEF Silence, OnPage
  <2> QED BY <1>4, <1>5, <2>1
<1>9. CASE Watchdog
  <2> DEFINE r == [page EXCEPT !.state = "reconnecting"]
  <2>1. page.stream # "none" /\ page' = Opened(r)
    BY <1>9 DEF Watchdog, Heard, OnPage
  <2>2. Shape(r) /\ Probing(r) /\ Final(r)
    BY <1>2, <2>1 DEF IInv, Sound, Shape, Probing, Anchored, Final, Page, Revoked, State
  <2> HIDE DEF r
  <2>3. Sound(page') /\ page'.stream # "open"
    BY <2>1, <2>2, OpenedSound, OpenedShut
  <2> QED BY <1>1, <2>3, PageStep DEF Fresh
<1> QED BY <1>6, <1>7, <1>8, <1>9

\* What arrives on the stream.
LEMMA EventStep ==
  ASSUME IInv, Receive \/ Heartbeat
  PROVE  IInv'
<1>1. /\ UNCHANGED <<version, owed, link, up, pinging, full>>
      /\ troubles' \in 0..MaxTroubles
  BY DEF Receive, Heartbeat, Heard, OnPage, IInv, Rest
<1>2. CASE Receive
  <2>1. Sound(page') /\ Fresh(page', version)
    BY <1>2, ReceivedSound DEF IInv, Receive, Heard, OnPage
  <2> QED BY <1>1, <2>1, PageStep
<1>3. CASE Heartbeat
  <2> DEFINE st == IF page.state \in {"reconnecting", "offline"} THEN "live" ELSE page.state
             r  == [page EXCEPT !.watchdog = TRUE, !.state = st]
  <2>1. page.stream = "open" /\ page' = r
    BY <1>3 DEF Heartbeat, Heard, OnPage, IInv, Sound, Shape, Page
  <2>2. st \in State /\ st # "revoked"
    BY <2>1 DEF IInv, Sound, Shape, Anchored, Final, Page, Revoked, State
  <2> HIDE DEF st
  <2>3. Sound(r) /\ (Fresh(page, version) => Fresh(r, version))
    BY <2>1, <2>2
    DEF IInv, Sound, Shape, Probing, Anchored, Final, Page, Revoked, Fresh
  <2> QED BY <1>1, <2>1, <2>3, PageStep
<1> QED BY <1>2, <1>3

\* What becomes of the page's read.
LEMMA ReadStep ==
  ASSUME IInv, LoseRead \/ Unreached \/ Read
  PROVE  IInv'
<1>1. /\ UNCHANGED <<version, owed, link, up, pinging, full>>
      /\ troubles' \in 0..MaxTroubles
  BY ConstantsAssumption DEF LoseRead, Unreached, Read, Trouble, Heard, OnPage, IInv, Rest
<1>2. CASE LoseRead \/ Unreached
  <2>1. /\ page.reading.phase = "sent"
        /\ page' = [page EXCEPT !.reading = Answer("error", 0)]
    BY <1>2 DEF LoseRead, Unreached, Heard, OnPage
  <2>2. Sound(page') /\ Fresh(page', version)
    BY <2>1, AnsweredSound DEF IInv
  <2> QED BY <1>1, <2>2, PageStep
<1>3. CASE Read
  <2>1. page.reading.phase = "answered" /\ page' = ReadEnded(page)
    BY <1>3 DEF Read, Heard, OnPage
  <2>2. Sound(page') /\ (Fresh(page, version) => Fresh(page', version))
    <3>1. CASE Fresh(page, version)
      BY <2>1, <3>1, ReadEndedSound DEF IInv
    <3>2. CASE ~Fresh(page, version)
      <4>1. PICK w : Fresh(page, w)
        BY DEF Fresh
      <4> QED BY <2>1, <3>2, <4>1, ReadEndedSound DEF IInv
    <3> QED BY <3>1, <3>2
  <2> QED BY <1>1, <2>2, PageStep
<1> QED BY <1>2, <1>3

\* The timers, the tab that is hidden and shown, the network that is back.
LEMMA TimerStep ==
  ASSUME IInv,
         PingTimer \/ RetryTimer \/ IntervalTimer \/ ReopenTimer \/ Hide \/ Show \/ Online
  PROVE  IInv'
<1>1. /\ UNCHANGED <<version, owed, link, up, pinging, full>>
      /\ troubles' \in 0..MaxTroubles
  BY DEF PingTimer, RetryTimer, IntervalTimer, ReopenTimer, Hide, Show, Online, Heard, OnPage,
         IInv, Rest
<1>2. Sound(page)
  BY DEF IInv
<1>3. ASSUME NEW p, Sound(p), page' = Refreshed(p)
      PROVE  IInv'
  <2>1. Sound(page') /\ Fresh(page', version)
    BY <1>3, RefreshedSound, RefreshedFresh DEF Sound, Anchored
  <2> QED BY <1>1, <2>1, PageStep
<1>4. ASSUME NEW p, Shape(p), Probing(p), Final(p), page' = Opened(p)
      PROVE  IInv'
  <2>1. Sound(page') /\ page'.stream # "open"
    BY <1>4, OpenedSound, OpenedShut
  <2> QED BY <1>1, <2>1, PageStep DEF Fresh
<1>5. CASE PingTimer
  <2> DEFINE n == page.due - 1
             r == [page EXCEPT !.due = n]
  <2>1. page' = Refreshed(r)
    BY <1>5 DEF PingTimer, Heard, OnPage
  <2>2. n \in Nat
    BY <1>2, <1>5 DEF PingTimer, Sound, Shape, Page
  <2> HIDE DEF n
  <2>3. Sound(r)
    BY <1>2, <2>2 DEF Sound, Shape, Probing, Anchored, Final, Page, Revoked
  <2> QED BY <1>3, <2>1, <2>3
<1>6. CASE RetryTimer
  <2> DEFINE r == [page EXCEPT !.retry = FALSE]
  <2>1. page' = Refreshed(r)
    BY <1>6 DEF RetryTimer, Heard, OnPage
  <2>2. Sound(r)
    BY <1>2 DEF Sound, Shape, Probing, Anchored, Final, Page, Revoked
  <2> QED BY <1>3, <2>1, <2>2
<1>7. CASE IntervalTimer
  BY <1>2, <1>3, <1>7 DEF IntervalTimer, Heard, OnPage
<1>8. CASE ReopenTimer
  <2> DEFINE r == [page EXCEPT !.reopen = FALSE]
  <2>1. /\ Shape(r) /\ Probing(r) /\ Final(r)
        /\ ~page.visible => Sound(r)
        /\ Fresh(page, version) => Fresh(r, version)
    BY <1>2 DEF Sound, Shape, Probing, Anchored, Final, Page, Revoked, Fresh
  <2>2. page' = IF page.visible THEN Opened(r) ELSE r
    BY <1>8 DEF ReopenTimer, Heard, OnPage
  <2> HIDE DEF r
  <2> QED BY <1>1, <1>4, <2>1, <2>2, PageStep
<1>9. CASE Hide
  <2>1. page' = [page EXCEPT !.visible = FALSE]
    BY <1>9 DEF Hide, Heard, OnPage
  <2>2. Sound(page') /\ Fresh(page', version)
    BY <1>2, <2>1 DEF Sound, Shape, Probing, Anchored, Final, Page, Revoked, Fresh
  <2> QED BY <1>1, <2>2, PageStep
<1>10. CASE Show
  <2> DEFINE o == [page EXCEPT !.visible = TRUE]
             r == Refreshed(o)
  <2>1. Shape(o) /\ Probing(o) /\ Final(o)
    BY <1>2 DEF Sound, Shape, Probing, Anchored, Final, Page, Revoked
  <2>2. page' = IF r.stream = "none" THEN Opened(r) ELSE r
    BY <1>10 DEF Show, Heard, OnPage, resume
  <2> HIDE DEF o
  <2>3. Shape(r) /\ Probing(r) /\ Final(r) /\ Fresh(r, version)
    BY <2>1, RefreshedSound, RefreshedFresh
  <2> HIDE DEF r
  <2>4. CASE r.stream = "none"
    BY <1>4, <2>2, <2>3, <2>4
  <2>5. CASE r.stream # "none"
    <3>1. Sound(r)
      BY <2>3, <2>5 DEF Sound, Anchored
    <3> QED BY <1>1, <2>2, <2>3, <2>5, <3>1, PageStep
  <2> QED BY <2>4, <2>5
<1>11. CASE Online
  <2>1. page' = Refreshed(resume(page))
    BY <1>11 DEF Online, Heard, OnPage
  <2>2. Sound(resume(page))
    BY <1>2, OpenedSound DEF resume, Sound, Anchored
  <2> QED BY <1>3, <2>1, <2>2
<1> QED BY <1>5, <1>6, <1>7, <1>8, <1>9, <1>10, <1>11

\* Every step keeps the invariant.
LEMMA Inductive ==
  ASSUME IInv, [Next]_vars
  PROVE  IInv'
<1>1. CASE UNCHANGED vars
  BY <1>1 DEF vars, IInv, Rest, Told
<1>2. CASE Next
  BY <1>2, ServerStep, PingStep, CloseStep, RegisterStep, ServeStep, CrashStep, StreamStep,
     EventStep, ReadStep, TimerStep
  DEF Next
<1> QED BY <1>1, <1>2

\* The invariant holds in every behaviour.
LEMMA Always == Spec => []IInv
<1>1. Init => IInv
  BY Initially
<1>2. IInv /\ [Next]_vars => IInv'
  BY Inductive
<1> QED BY <1>1, <1>2, PTL DEF Spec
-----------------------------------------------------------------------------
\* TypeOK holds for any number of changes and troubles: a probe that waits has a
\* read of the coordinator to wait for.
THEOREM TypeCorrect == Spec => []TypeOK
<1>1. IInv => TypeOK
  BY DEF IInv, Rest, Sound, Shape, Probing, TypeOK
<1> QED BY <1>1, Always, PTL

\* A page is never left without a stream, a probe or a timer that brings one, and
\* nothing survives the revocation of its link (live-channel.js, public-todo-share.js).
THEOREM NeverAdriftAlways == Spec => []NeverAdrift
<1>1. IInv => NeverAdrift
  BY DEF IInv, Sound, Anchored, Final, NeverAdrift
<1> QED BY <1>1, Always, PTL

\* A page that is connected and has nothing to do or to wait for shows the latest
\* version: no change is lost between a stream and a read (refresh-coordinator.js,
\* public-sse.js).
THEOREM NothingMissedAlways == Spec => []NothingMissed
<1>1. IInv => NothingMissed
  BY Constants DEF IInv, Told, Fresh, Sound, Probing, NothingMissed
<1> QED BY <1>1, Always, PTL

-----------------------------------------------------------------------------
(***************************************************************************)
(* Towards CatchesUp: what becomes of a read.                              *)
(***************************************************************************)
\* A read that q has and p has not is one that was just asked for.
Follows(p, q) ==
  \/ q.reading = p.reading
  \/ p.reading = Idle /\ q.reading = Asking

\* A read in flight is never replaced; what is shown outlives a probe.
LEMMA RefreshedFollows ==
  ASSUME NEW p \in Page
  PROVE  /\ Refreshed(p) \in Page /\ Follows(p, Refreshed(p))
         /\ Refreshed(p).state = p.state /\ Refreshed(p).shown = p.shown
BY Constants DEF Follows, Refreshed, Page

LEMMA OpenedFollows ==
  ASSUME NEW p \in Page
  PROVE  Opened(p).reading = p.reading
BY DEF Opened, Page

LEMMA ProbedFollows ==
  ASSUME NEW p \in Page
  PROVE  /\ Probed(p).reading = p.reading
         /\ ~Revoked(Probed(p)) => ~Revoked(p) /\ Probed(p).shown = p.shown
<1> DEFINE status == IF p.last = "none" THEN "ok" ELSE p.last
           o == [p EXCEPT !.probing = "no"]
           q == Reported(o, status)
           next == IF status = "error" THEN q.state ELSE "polling"
           r == [q EXCEPT !.state = next, !.reopen = TRUE]
<1>1. status \in Status
  BY DEF Page, Status
<1>2. /\ o \in Page /\ o.reading = p.reading /\ o.shown = p.shown
      /\ Revoked(o) <=> Revoked(p)
  BY DEF Page, Revoked
<1>3. Probed(p) = IF Revoked(q) THEN q ELSE r
  BY DEF Probed
<1> HIDE DEF status, o
<1>4. /\ q \in Page /\ q.reading = o.reading
      /\ ~Revoked(q) => ~Revoked(o) /\ q.shown = o.shown
  <2>1. Revoked(o) => q = o
    BY DEF Reported
  <2> QED BY <1>1, <1>2, <2>1, ReportedSound
<1> HIDE DEF q, next
<1>5. r.reading = q.reading /\ r.shown = q.shown
  BY <1>4 DEF Page
<1> HIDE DEF r
<1> QED BY <1>2, <1>3, <1>4, <1>5

LEMMA ProbeFollows ==
  ASSUME NEW p \in Page
  PROVE  Follows(p, Probe(p))
<1> DEFINE o == [p EXCEPT !.last = "none"]
           q == Refreshed(o)
<1>1. o \in Page /\ o.reading = p.reading
  BY DEF Page, Status
<1> HIDE DEF o
<1>2. q \in Page /\ Follows(p, q)
  BY <1>1, RefreshedFollows DEF Follows
<1>3. \/ Probe(p) = p \/ Probe(p) = Probed(q)
      \/ \E w : Probe(p) = [q EXCEPT !.probing = w]
  BY DEF Probe, o
<1> HIDE DEF q
<1>4. Follows(p, p) /\ \A w : [q EXCEPT !.probing = w].reading = q.reading
  BY <1>2 DEF Follows, Page
<1> QED BY <1>2, <1>3, <1>4, ProbedFollows DEF Follows

LEMMA TriedFollows ==
  ASSUME NEW p \in Page
  PROVE  Follows(p, Retrying(p)) /\ Follows(p, GivenUp(p))
<1>1. Retrying(p).reading = p.reading
  BY DEF Retrying, Page
<1>2. Teardown(p) \in Page /\ Teardown(p).reading = p.reading
  BY Constants DEF Teardown, Page, Stream
<1> QED BY <1>1, <1>2, ProbeFollows DEF GivenUp, Follows

LEMMA ReceivedFollows ==
  ASSUME NEW p, Sound(p), p.wire # << >>
  PROVE  Received(p).reading = p.reading
<1> DEFINE q == [p EXCEPT !.wire = Tail(@)]
<1>1. Head(p.wire) \in Event /\ Tail(p.wire) \in Seq(Event)
  BY DEF Sound, Shape, Page
<1>2. q \in Page /\ q.reading = p.reading
  BY <1>1 DEF Sound, Shape, Page
<1>3. \/ Received(p) = [q EXCEPT !.watchdog = TRUE, !.state = "live", !.due = @ + 1]
      \/ Received(p) = [q EXCEPT !.watchdog = FALSE, !.state = "polling"]
      \/ Received(p) = Cleared(q)
  BY <1>1 DEF Received, Event
<1> HIDE DEF q
<1>4. /\ [q EXCEPT !.watchdog = TRUE, !.state = "live", !.due = @ + 1].reading = q.reading
      /\ [q EXCEPT !.watchdog = FALSE, !.state = "polling"].reading = q.reading
  BY <1>2 DEF Page
<1> QED BY <1>2, <1>3, <1>4, ClearedSound

\* A read that ends leaves the page without one, or with the one that was asked for
\* meanwhile; and it shows its answer, or is revoked.
LEMMA ReadEndedFollows ==
  ASSUME NEW p, Sound(p), p.reading.phase = "answered"
  PROVE  LET q == ReadEnded(p)
         IN  /\ q.reading \in {Idle, Asking}
             /\ p.reading.status = "gone" => Revoked(q)
             /\ p.reading.status = "ok" /\ ~Revoked(q) => q.shown = p.reading.seen
<1> DEFINE o == [p EXCEPT !.reading = Idle]
           a == IF p.reading.status = "ok" THEN Applied(o, p.reading.seen)
                ELSE Failed(o, p.reading.status)
           b == [a EXCEPT !.rerun = FALSE]
           c == IF a.rerun THEN Refreshed(b) ELSE a
           d == [c EXCEPT !.probing = "read"]
<1>1. /\ p \in Page /\ p.reading \in Reading /\ p.reading.status \in Status
      /\ p.reading.seen \in 0..MaxVersion
  BY DEF Sound, Shape, Page, Reading
<1>2. o \in Page /\ o.reading = Idle
  BY <1>1, Constants DEF Page
<1>3. ReadEnded(p) = Continued(a)
  BY DEF ReadEnded
<1> HIDE DEF o
<1>4. /\ a \in Page /\ a.reading = Idle
      /\ p.reading.status = "gone" => Revoked(a)
      /\ p.reading.status = "ok" /\ ~Revoked(a) => a.shown = p.reading.seen
  <2>1. CASE p.reading.status = "ok"
    <3> DEFINE e == [o EXCEPT !.shown = p.reading.seen, !.last = "ok"]
    <3>1. e \in Page /\ e.reading = Idle /\ e.shown = p.reading.seen
      BY <1>1, <1>2 DEF Page, Status
    <3>2. a = IF Revoked(o) THEN o ELSE Reported(e, "ok")
      BY <2>1 DEF Applied
    <3> HIDE DEF e
    <3>3. "ok" \in Status
      BY DEF Status
    <3> QED BY <1>2, <2>1, <3>1, <3>2, <3>3, ReportedSound
  <2>2. CASE p.reading.status # "ok"
    <3> DEFINE e == [o EXCEPT !.last = p.reading.status]
               f == Reported(e, p.reading.status)
    <3>1. e \in Page /\ e.reading = Idle /\ e.state = o.state
      BY <1>1, <1>2 DEF Page, Status
    <3>2. a = IF Revoked(f) THEN f ELSE [f EXCEPT !.retry = TRUE]
      BY <2>2 DEF Failed
    <3> HIDE DEF e
    <3>3. p.reading.status = "gone" => Revoked(f)
      BY <3>1, ClearedSound DEF Reported
    <3>4. f \in Page /\ f.reading = Idle
      BY <1>1, <3>1, ReportedSound
    <3> HIDE DEF f
    <3>5. [f EXCEPT !.retry = TRUE] \in Page /\ [f EXCEPT !.retry = TRUE].reading = Idle
      BY <3>4 DEF Page
    <3> QED BY <2>2, <3>2, <3>3, <3>4, <3>5
  <2> QED BY <2>1, <2>2
<1> HIDE DEF a
<1>5. /\ b \in Page /\ b.reading = Idle /\ b.shown = a.shown /\ b.state = a.state
  BY <1>4 DEF Page
<1>6. Continued(a) = CASE a.probing = "read" -> Probed(c)
                       [] a.probing = "next" -> IF c.reading = Idle THEN Probed(c) ELSE d
                       [] OTHER -> c
  BY DEF Continued
<1> HIDE DEF b
<1>7. /\ c \in Page /\ c.reading \in {Idle, Asking}
      /\ c.shown = a.shown /\ c.state = a.state
  BY <1>4, <1>5, RefreshedFollows DEF Follows
<1> HIDE DEF c
<1>8. d.reading = c.reading /\ d.shown = c.shown /\ d.state = c.state
  BY <1>7 DEF Page
<1>9. Continued(a) \in {Probed(c), d, c}
  <2>1. a.probing \in {"no", "next", "read"}
    BY <1>4 DEF Page
  <2> QED BY <1>6, <2>1
<1> HIDE DEF d
<1>10. /\ Continued(a).reading \in {Idle, Asking}
       /\ ~Revoked(Continued(a)) => ~Revoked(a) /\ Continued(a).shown = a.shown
  BY <1>7, <1>8, <1>9, ProbedFollows DEF Revoked
<1> QED BY <1>3, <1>4, <1>10

\* What a step makes of the page's read.
LEMMA ReadingStep ==
  ASSUME IInv, Next
  PROVE  \/ Follows(page, page')
         \/ Serve \/ Read
         \/ Trouble /\ page'.reading = Answer("error", 0)
         \/ Unreached /\ page'.reading = Answer("error", 0)
<1>1. Sound(page) /\ page \in Page
  BY DEF IInv, Sound, Shape
<1>2. CASE UNCHANGED page
  BY <1>2 DEF Follows
<1>3. CASE Commit \/ Broadcast \/ Disable \/ Crowd \/ Leave \/ Restart
  BY <1>2, <1>3 DEF Commit, Broadcast, Disable, Crowd, Leave, Restart
<1>4. CASE Ping \/ CloseStreams \/ Register \/ Heartbeat \/ Hide
  BY <1>1, <1>4
  DEF Ping, CloseStreams, Register, Heartbeat, Hide, Heard, OnPage, Sent, Page, Follows
<1>5. CASE Crash
  <2> DEFINE p == [page EXCEPT !.reading = Answer("error", 0)]
  <2>1. Trouble
    BY <1>5 DEF Crash
  <2>2. p \in Page /\ p.reading = Answer("error", 0) /\ p.reading # Idle
    BY <1>1, Answers DEF IInv, Rest, Page
  <2>3. page' \in UNION {{q, Retrying(q), GivenUp(q)} : q \in {p, page}}
    BY <1>5 DEF Crash
  <2> HIDE DEF p
  <2>4. CASE page' \in {p, Retrying(p), GivenUp(p)}
    BY <2>1, <2>2, <2>4, TriedFollows DEF Follows
  <2>5. CASE page' \in {page, Retrying(page), GivenUp(page)}
    BY <1>1, <1>2, <2>5, TriedFollows
  <2> QED BY <2>3, <2>4, <2>5
<1>6. CASE LoseRead \/ Unreached
  BY <1>1, <1>6 DEF LoseRead, Unreached, Heard, OnPage, Page
<1>7. CASE Connect \/ NoticeEnd \/ Break
  <2>1. page' \in {Retrying(page), GivenUp(page), [page EXCEPT !.stream = "asked"]}
    BY <1>7 DEF Connect, NoticeEnd, Break, Heard, OnPage
  <2>2. [page EXCEPT !.stream = "asked"].reading = page.reading
    BY <1>1 DEF Page
  <2> QED BY <1>1, <2>1, <2>2, TriedFollows DEF Follows
<1>8. CASE Receive
  BY <1>1, <1>8, ReceivedFollows DEF Receive, Heard, OnPage, Follows
<1>9. CASE Silence
  BY <1>1, <1>9 DEF Silence, OnPage, Page, Follows
<1>10. ASSUME NEW p \in Page, p.reading = page.reading,
              page' \in {p, Refreshed(p), Opened(p)}
       PROVE  Follows(page, page')
  BY <1>10, RefreshedFollows, OpenedFollows DEF Follows
<1>11. CASE PingTimer
  <2> DEFINE p == [page EXCEPT !.due = @ - 1]
  <2>1. p \in Page /\ p.reading = page.reading
    BY <1>1, <1>11 DEF PingTimer, Page
  <2>2. page' = Refreshed(p)
    BY <1>11 DEF PingTimer, Heard, OnPage
  <2> HIDE DEF p
  <2> QED BY <1>10, <2>1, <2>2
<1>12. CASE RetryTimer
  <2> DEFINE p == [page EXCEPT !.retry = FALSE]
  <2>1. p \in Page /\ p.reading = page.reading
    BY <1>1 DEF Page
  <2>2. page' = Refreshed(p)
    BY <1>12 DEF RetryTimer, Heard, OnPage
  <2> HIDE DEF p
  <2> QED BY <1>10, <2>1, <2>2
<1>13. CASE IntervalTimer
  BY <1>1, <1>10, <1>13 DEF IntervalTimer, Heard, OnPage
<1>14. CASE Watchdog
  <2> DEFINE p == [page EXCEPT !.state = "reconnecting"]
  <2>1. p \in Page /\ p.reading = page.reading
    BY <1>1 DEF Page, State
  <2>2. page' = Opened(p)
    BY <1>14 DEF Watchdog, Heard, OnPage
  <2> HIDE DEF p
  <2> QED BY <1>10, <2>1, <2>2
<1>15. CASE ReopenTimer
  <2> DEFINE p == [page EXCEPT !.reopen = FALSE]
  <2>1. p \in Page /\ p.reading = page.reading
    BY <1>1 DEF Page
  <2>2. page' \in {p, Opened(p)}
    BY <1>15 DEF ReopenTimer, Heard, OnPage
  <2> HIDE DEF p
  <2> QED BY <1>10, <2>1, <2>2
<1>16. CASE Show
  <2> DEFINE p == [page EXCEPT !.visible = TRUE]
             r == Refreshed(p)
  <2>1. p \in Page /\ p.reading = page.reading
    BY <1>1 DEF Page
  <2>2. page' \in {r, Opened(r)}
    BY <1>16 DEF Show, Heard, OnPage, resume
  <2> HIDE DEF p
  <2>3. r \in Page /\ Follows(page, r)
    BY <2>1, RefreshedFollows DEF Follows
  <2> HIDE DEF r
  <2> QED BY <2>2, <2>3, OpenedFollows DEF Follows
<1>17. CASE Online
  <2>1. resume(page) \in Page /\ resume(page).reading = page.reading
    BY <1>1, OpenedFollows, OpenedSound DEF resume, Sound, Shape, Anchored
  <2> QED BY <1>10, <1>17, <2>1 DEF Online, Heard, OnPage
<1>18. CASE Serve \/ Read
  BY <1>18
<1> QED
  BY <1>3, <1>4, <1>5, <1>6, <1>7, <1>8, <1>9, <1>11, <1>12, <1>13, <1>14, <1>15, <1>16,
     <1>17, <1>18
  DEF Next

\* A read that has not begun is Idle.
Unbegun == page.reading.phase = "idle" => page.reading = Idle

LEMMA UnbegunAlways == Spec => [](IInv /\ Unbegun)
<1>1. Init => Unbegun
  <2> SUFFICES ASSUME Init PROVE Unbegun
    OBVIOUS
  <2> DEFINE p == [state |-> "start", stream |-> "none", wire |-> << >>,
                   watchdog |-> FALSE, reopen |-> FALSE, probing |-> "no",
                   reading |-> Idle, rerun |-> FALSE, retry |-> FALSE, due |-> 0,
                   last |-> "none", shown |-> 0, visible |-> TRUE]
  <2>1. p \in Page /\ p.reading = Idle
    BY Constants DEF Page, State, Stream, Status
  <2>2. page = Opened(Refreshed(p))
    BY DEF Init
  <2> HIDE DEF p
  <2>3. Refreshed(p) \in Page /\ Refreshed(p).reading \in {Idle, Asking}
    BY <2>1, RefreshedFollows DEF Follows
  <2> QED BY <2>2, <2>3, OpenedFollows, Constants DEF Unbegun
<1>2. IInv /\ Unbegun /\ [Next]_vars => Unbegun'
  <2> SUFFICES ASSUME IInv, Unbegun, [Next]_vars PROVE Unbegun'
    OBVIOUS
  <2>1. CASE UNCHANGED vars
    BY <2>1 DEF vars, Unbegun
  <2>2. CASE Serve
    <3>1. page'.reading.phase = "answered"
      BY <2>2 DEF Serve, IInv, Sound, Shape, Page, Answer
    <3> QED BY <3>1 DEF Unbegun
  <2>3. CASE Read
    <3>1. page'.reading \in {Idle, Asking}
      BY <2>3, ReadEndedFollows DEF Read, Heard, OnPage, IInv
    <3> QED BY <3>1, Constants DEF Unbegun
  <2>4. CASE Follows(page, page')
    BY <2>4, Constants DEF Follows, Unbegun
  <2>5. CASE page'.reading = Answer("error", 0)
    BY <2>5 DEF Answer, Unbegun
  <2> QED BY <2>1, <2>2, <2>3, <2>4, <2>5, ReadingStep
<1> QED BY <1>1, <1>2, Always, Inductive, PTL DEF Spec
-----------------------------------------------------------------------------
(***************************************************************************)
(* Once the feed and the network are quiet.  A read is Wanted, Sent, and   *)
(* then Good or Bad, as its answer fits the feed and the link.             *)
(***************************************************************************)
Quiet == UNCHANGED <<version, troubles>>
Calm == [Next]_vars /\ [Quiet]_vars

\* What CatchesUp says is true again and again.
Current == Revoked(page) \/ ~page.visible \/ (link = "on" /\ page.shown = version)

On == link = "on"
Wanted == page.reading = Idle
SentOut == page.reading.phase = "sent"
Good == /\ page.reading.phase = "answered"
        /\ IF On THEN page.reading.status = "ok" /\ page.reading.seen = version
           ELSE page.reading.status = "gone"
Bad == page.reading.phase = "answered" /\ ~Good

Reads == Serve \/ Unreached \/ Read

\* No trouble, no step that needs one.
LEMMA CalmStep ==
  ASSUME IInv, Calm
  PROVE  /\ ~Trouble /\ ~Crash
         /\ version' = version
<1>1. troubles' = troubles /\ version' = version
  BY DEF Calm, Quiet, vars
<1>2. troubles \in Nat
  BY ConstantsAssumption DEF IInv, Rest
<1>3. ~Trouble
  BY <1>1, <1>2 DEF Trouble
<1> QED BY <1>1, <1>3 DEF Crash

\* A server that is up stays up, and a link that is off stays off.
LEMMA CalmServer ==
  ASSUME IInv, Calm
  PROVE  /\ up => up'
         /\ ~On => ~On'
         /\ <<Restart>>_vars => up'
<1>1. CASE UNCHANGED vars
  BY <1>1 DEF vars, On
<1>2. CASE Next
  <2>1. ~Crash
    BY CalmStep
  <2>2. \/ UNCHANGED <<up, link>>
        \/ Disable \/ CloseStreams \/ Restart
    BY <1>2, <2>1
    DEF Next, Commit, Broadcast, Ping, Register, Serve, Crowd, Leave, Connect, Receive,
        NoticeEnd, Heartbeat, Silence, Break, LoseRead, Unreached, Read, PingTimer,
        RetryTimer, IntervalTimer, Watchdog, ReopenTimer, Hide, Show, Online, Heard, OnPage
  <2> QED BY <2>2 DEF Disable, CloseStreams, Restart, On
<1> QED BY <1>1, <1>2 DEF Calm

\* The stages of a read, each of which is left for the next one only.
LEMMA CalmRead ==
  ASSUME IInv, Calm, up, On' <=> On, ~Current'
  PROVE  /\ Wanted => Wanted' \/ SentOut'
         /\ SentOut => SentOut' \/ Good'
         /\ Good => Good'
         /\ Bad => Bad' \/ Wanted' \/ SentOut'
<1>1. version' = version /\ ~Trouble
  BY CalmStep
<1>2. ~Unreached
  BY DEF Unreached
<1>3. page.reading \in Reading /\ Sound(page)
  BY DEF IInv, Sound, Shape, Page
<1>4. CASE page'.reading = page.reading
  BY <1>1, <1>4 DEF Wanted, SentOut, Good, Bad
<1>5. CASE Follows(page, page')
  <2>1. CASE Wanted /\ page'.reading = Asking
    BY <2>1, Constants DEF Wanted, SentOut, Good, Bad
  <2> QED BY <1>4, <1>5, <2>1 DEF Follows, Wanted
<1>6. CASE Serve
  <2>1. SentOut /\ page'.reading = IF link = "on" THEN Answer("ok", version)
                                   ELSE Answer("gone", 0)
    BY <1>6 DEF Serve, SentOut, IInv, Sound, Shape, Page
  <2>2. Good'
    BY <1>1, <2>1 DEF Good, On, Answer
  <2> QED BY <2>1, <2>2, Constants DEF Wanted, SentOut, Good, Bad
<1>7. CASE Read
  <2>1. page.reading.phase = "answered" /\ page' = ReadEnded(page)
    BY <1>7 DEF Read, Heard, OnPage
  <2>2. page'.reading \in {Idle, Asking}
    BY <1>3, <2>1, ReadEndedFollows
  <2>3. ~Good
    <3>1. ~Revoked(page') /\ ~(On' /\ page'.shown = version')
      BY DEF Current, On
    <3>2. /\ page.reading.status = "gone" => Revoked(page')
          /\ page.reading.status = "ok" /\ ~Revoked(page') => page'.shown = page.reading.seen
      BY <1>3, <2>1, ReadEndedFollows
    <3> QED BY <1>1, <3>1, <3>2 DEF Good
  <2> QED BY <2>1, <2>2, <2>3, Constants DEF Wanted, SentOut, Bad
<1>8. CASE UNCHANGED vars
  BY <1>4, <1>8 DEF vars
<1> QED BY <1>1, <1>2, <1>5, <1>6, <1>7, <1>8, ReadingStep DEF Calm

\* The fair steps take a read to its next stage.
LEMMA FairRead ==
  ASSUME IInv, Calm, up, On' <=> On, ~Current, ~Current'
  PROVE  /\ Wanted /\ <<IntervalTimer>>_vars => SentOut'
         /\ SentOut /\ <<Reads>>_vars => Good'
         /\ Good => ~<<Reads>>_vars
         /\ Bad /\ <<Reads>>_vars => Wanted' \/ SentOut'
<1>1. version' = version /\ Sound(page)
  BY CalmStep DEF IInv
<1>2. ASSUME Wanted, IntervalTimer
      PROVE  SentOut'
  <2>1. page' = Refreshed(page) /\ ~Revoked(page) /\ page.visible
    BY <1>2 DEF IntervalTimer, Heard, OnPage, Current
  <2>2. page' = [page EXCEPT !.reading = Asking]
    BY <1>2, <2>1 DEF Refreshed, Wanted
  <2> QED BY <1>1, <2>2, Constants DEF SentOut, Sound, Shape, Page
<1>3. ASSUME SentOut, Reads
      PROVE  Good'
  <2>1. Serve
    BY <1>3 DEF Reads, Unreached, Read, SentOut
  <2>2. page'.reading = IF link = "on" THEN Answer("ok", version) ELSE Answer("gone", 0)
    BY <1>1, <2>1 DEF Serve, Sound, Shape, Page
  <2> QED BY <1>1, <2>2 DEF Good, On, Answer
<1>4. ASSUME page.reading.phase = "answered", Reads
      PROVE  ~Good /\ (Wanted' \/ SentOut')
  <2>1. page' = ReadEnded(page)
    BY <1>4 DEF Reads, Serve, Unreached, Read, Heard, OnPage
  <2>2. page'.reading \in {Idle, Asking}
    BY <1>1, <1>4, <2>1, ReadEndedFollows
  <2>3. ~Revoked(page') /\ ~(On' /\ page'.shown = version')
    BY DEF Current, On
  <2>4. /\ page.reading.status = "gone" => Revoked(page')
        /\ page.reading.status = "ok" /\ ~Revoked(page') => page'.shown = page.reading.seen
    BY <1>1, <1>4, <2>1, ReadEndedFollows
  <2>5. ~Good
    BY <1>1, <2>3, <2>4 DEF Good
  <2> QED BY <2>2, <2>5, Constants DEF Wanted, SentOut
<1> QED BY <1>2, <1>3, <1>4 DEF Good, Bad

\* The fair steps can run while these guards hold: ENABLED is beyond the provers, so
\* that this is a hypothesis of the theorem below.
CanRun ==
  /\ ~up => ENABLED <<Restart>>_vars
  /\ SentOut \/ Good \/ Bad => ENABLED <<Reads>>_vars
  /\ Wanted /\ ~Current => ENABLED <<IntervalTimer>>_vars

\* The theorem's hypothesis in the form of the temporal steps.
Settling == FairSpec /\ []CanRun /\ <>[][Quiet]_vars

\* The server is up for good.
LEMMA UpAtLast == Settling => <>[](IInv /\ Unbegun /\ up) /\ <>[][Calm]_vars
<1>1. IInv /\ [Calm]_vars => (up => up') /\ (<<Restart>>_vars => up')
  BY CalmServer DEF Calm, vars
<1>2. [Next]_vars /\ [Quiet]_vars => [Calm]_vars
  BY DEF Calm
<1> QED BY <1>1, <1>2, UnbegunAlways, PTL DEF Settling, FairSpec, Spec, CanRun

\* The link is on for good, or gone for good.
LEMMA LinkAtLast == Settling => <>[]On \/ <>[]~On
<1>1. IInv /\ [Calm]_vars => (~On => ~On')
  BY CalmServer DEF Calm, vars, On
<1> QED BY <1>1, UpAtLast, PTL

\* A read that is wanted, or under way, ends in one that CatchesUp speaks of.
LEMMA ReadsAtLast ==
  Settling /\ (<>[]On \/ <>[]~On) /\ <>[]~Current => FALSE
<1> DEFINE Still == /\ IInv /\ up /\ [Calm]_vars /\ (On' <=> On)
                    /\ ~Current /\ ~Current'
<1>1. Still => /\ Wanted => Wanted' \/ SentOut'
               /\ SentOut => SentOut' \/ Good'
               /\ Good => Good'
               /\ Bad => Bad' \/ Wanted' \/ SentOut'
  BY CalmRead DEF Calm, vars
<1>2. Still => /\ Wanted /\ <<IntervalTimer>>_vars => SentOut'
               /\ SentOut /\ <<Reads>>_vars => Good'
               /\ Good => ~<<Reads>>_vars
               /\ Bad /\ <<Reads>>_vars => Wanted' \/ SentOut'
  BY FairRead DEF Calm, vars
<1>3. IInv /\ Unbegun => Wanted \/ SentOut \/ Good \/ Bad
  BY DEF IInv, Sound, Shape, Page, Reading, Unbegun, Wanted, SentOut, Bad
<1> QED BY <1>1, <1>2, <1>3, UpAtLast, PTL DEF Settling, FairSpec, CanRun, Reads

\* CatchesUp: once the feed and the network are quiet, a page that stays visible
\* comes to show the latest version, or to know that its link is gone, whatever
\* became of its stream and of the reads under way (refresh-coordinator.js,
\* public-todo-share.js).
THEOREM CatchesUpAtLast ==
  FairSpec /\ []CanRun /\ <>[][Quiet]_vars => CatchesUp
<1>1. CatchesUp <=> []<>Current
  BY DEF CatchesUp, Current
<1> QED BY <1>1, LinkAtLast, ReadsAtLast, PTL DEF Settling
=============================================================================
