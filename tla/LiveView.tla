------------------------------ MODULE LiveView ------------------------------
(***************************************************************************)
(* A page that follows a shared link: the server's event streams           *)
(* (lib/public-sse.js), the page's stream (public/js/live-channel.js) and  *)
(* its reads of the feed (public/js/refresh-coordinator.js), put together  *)
(* as public/js/public-todo-share.js does.                                 *)
(*                                                                         *)
(* The stream says only that something changed; the page then reads the    *)
(* feed.  A change is committed, then broadcast, then pinged once for      *)
(* several changes; the server may be restarted anywhere in between.  A    *)
(* stream may be refused, be over the cap, break, or fall silent.          *)
(*                                                                         *)
(* Delays are left out: a timer that is set may run at any time, but for   *)
(* the watchdog, which runs when no event comes.  The timed read of a      *)
(* lease that lapses, and answers other than found, gone and failed, are   *)
(* left out.                                                               *)
(***************************************************************************)
EXTENDS Naturals, Sequences

CONSTANTS
  MaxVersion,   \* bound: changes of the feed
  MaxTroubles   \* bound: restarts, broken or silent streams, lost reads, caps

ASSUME ConstantsAssumption == MaxVersion \in Nat \ {0} /\ MaxTroubles \in Nat

VARIABLES
  version,   \* the feed
  owed,      \* committed changes that are still to be broadcast
  link,      \* "on"; "closing" once the table says so, "off" once pages were told
  up,        \* the server runs
  pinging,   \* a ping of the pages is due
  full,      \* other pages fill the cap
  page,      \* the page, its stream, and what is on the way to it
  troubles

vars == <<version, owed, link, up, pinging, full, page, troubles>>

Idle == [phase |-> "idle", status |-> "ok", seen |-> 0]
Asking == [Idle EXCEPT !.phase = "sent"]
Answer(status, seen) == [phase |-> "answered", status |-> status, seen |-> seen]

\* readyState OPEN.
Ready(p) == p.stream \in {"open", "ended", "silent"}
Revoked(p) == p.state = "revoked"

-----------------------------------------------------------------------------
(***************************************************************************)
(* The coordinator and the channel, as functions of the page.              *)
(***************************************************************************)
\* Variant for mutation testing: a refresh joins the read that is under way.
RefreshedNow(p) ==
  IF Revoked(p) \/ ~p.visible \/ p.reading # Idle THEN p
  ELSE [p EXCEPT !.reading = Asking]

\* refresh: one read at a time, and one more after it when it was asked for.
Refreshed(p) ==
  IF Revoked(p) \/ ~p.visible THEN p
  ELSE IF p.reading # Idle THEN [p EXCEPT !.rerun = TRUE]
  ELSE [p EXCEPT !.reading = Asking]

Teardown(p) == [p EXCEPT !.watchdog = FALSE, !.stream = "none", !.wire = << >>]

\* open: a new source in place of the one there is.
Opened(p) ==
  IF Revoked(p) THEN p
  ELSE [p EXCEPT !.stream = "waiting", !.wire = << >>, !.watchdog = TRUE,
                 !.reopen = FALSE,
                 !.state = IF @ = "start" THEN "connecting" ELSE @]

resume(p) == IF p.stream = "none" THEN Opened(p) ELSE p

\* revoke and showRevoked: the page is cleared and its timers stopped.
Cleared(p) ==
  [Teardown(p) EXCEPT !.state = "revoked", !.reopen = FALSE, !.retry = FALSE,
                      !.shown = 0]

\* report: every read of the feed reports its status.
Reported(p, status) ==
  IF Revoked(p) THEN p
  ELSE CASE status = "gone"  -> Cleared(p)
         [] status = "error" -> [p EXCEPT !.state = "offline"]
         [] OTHER -> [p EXCEPT !.state = IF @ \notin {"start", "connecting", "offline"} THEN @
                                         ELSE IF Ready(p) THEN "live" ELSE "polling"]

\* Variant for mutation testing: the stream is reopened only when the feed answered.
ProbedOnce(p) ==
  LET status == IF p.last = "none" THEN "ok" ELSE p.last
      q      == Reported([p EXCEPT !.probing = "no"], status)
  IN  IF Revoked(q) \/ status = "error" THEN q
      ELSE [q EXCEPT !.state = "polling", !.reopen = TRUE]

\* The rest of probe, whatever became of the stream meanwhile.
Probed(p) ==
  LET status == IF p.last = "none" THEN "ok" ELSE p.last
      q      == Reported([p EXCEPT !.probing = "no"], status)
  IN  IF Revoked(q) THEN q
      ELSE [q EXCEPT !.state = IF status = "error" THEN @ ELSE "polling",
                     !.reopen = TRUE]

\* probe: it awaits the read that it started, or the one after that under way.
Probe(p) ==
  IF p.probing # "no" \/ Revoked(p) THEN p
  ELSE LET q == Refreshed([p EXCEPT !.last = "none"])
       IN  IF ~p.visible THEN Probed(q)
           ELSE [q EXCEPT !.probing = IF p.reading = Idle THEN "read" ELSE "next"]

\* onerror: the browser gave the stream up, or will try again.
GivenUp(p) == Probe(Teardown(p))
Retrying(p) ==
  [p EXCEPT !.stream = "waiting", !.wire = << >>,
            !.state = IF @ = "polling" THEN @ ELSE "reconnecting"]

\* What follows a read: the read that was asked for meanwhile, then the probe.
Continued(p) ==
  LET q == IF p.rerun THEN Refreshed([p EXCEPT !.rerun = FALSE]) ELSE p
  IN  CASE p.probing = "read" -> Probed(q)
        [] p.probing = "next" -> IF q.reading = Idle THEN Probed(q)
                                 ELSE [q EXCEPT !.probing = "read"]
        [] OTHER -> q

\* An answer is applied, unless the link was revoked while it was awaited.
Applied(p, seen) ==
  IF Revoked(p) THEN p ELSE Reported([p EXCEPT !.shown = seen, !.last = "ok"], "ok")

\* A read that failed is reported and tried again later.
Failed(p, status) ==
  LET q == Reported([p EXCEPT !.last = status], status)
  IN  IF Revoked(q) THEN q ELSE [q EXCEPT !.retry = TRUE]

\* Variant for mutation testing: a read that failed is never over.
StuckRead(p) ==
  IF p.reading.status = "ok"
  THEN Continued(Applied([p EXCEPT !.reading = Idle], p.reading.seen))
  ELSE Failed(p, p.reading.status)

ReadEnded(p) ==
  LET q == [p EXCEPT !.reading = Idle]
  IN  Continued(IF p.reading.status = "ok" THEN Applied(q, p.reading.seen)
                ELSE Failed(q, p.reading.status))

\* Variant for mutation testing: the page does not read again when it reconnects.
ReceivedSilently(p) ==
  LET e == Head(p.wire)
      q == [p EXCEPT !.wire = Tail(@)]
  IN  CASE e = "connected" -> [q EXCEPT !.watchdog = TRUE, !.state = "live"]
        [] e = "changed"   -> [q EXCEPT !.watchdog = TRUE, !.state = "live", !.due = @ + 1]
        [] e = "capacity"  -> [q EXCEPT !.watchdog = FALSE, !.state = "polling"]
        [] e = "revoked"   -> Cleared(q)

\* onPing reads the feed a little later, so that pages do not read all at once.
Received(p) ==
  LET e == Head(p.wire)
      q == [p EXCEPT !.wire = Tail(@)]
  IN  CASE e \in {"connected", "changed"} ->
             [q EXCEPT !.watchdog = TRUE, !.state = "live", !.due = @ + 1]
        [] e = "capacity" -> [q EXCEPT !.watchdog = FALSE, !.state = "polling"]
        [] e = "revoked"  -> Cleared(q)
-----------------------------------------------------------------------------
(***************************************************************************)
(* The server.                                                             *)
(***************************************************************************)
\* A row of the shared day is written; the broadcast follows the commit.
Commit ==
  /\ up /\ version < MaxVersion
  /\ version' = version + 1
  /\ owed' = owed + 1
  /\ UNCHANGED <<link, up, pinging, full, page, troubles>>

\* The hub holds a stream of the workspace; one that fell silent is still held.
Watched == full \/ page.stream \in {"open", "ended", "silent"}

\* ping: one is set when somebody watches, and none is yet.
Broadcast ==
  /\ up /\ owed > 0
  /\ owed' = owed - 1
  /\ pinging' = (pinging \/ Watched)
  /\ UNCHANGED <<version, link, up, full, page, troubles>>

Sent(p, e) == IF p.stream = "open" THEN [p EXCEPT !.wire = Append(@, e)] ELSE p

Ping ==
  /\ pinging
  /\ pinging' = FALSE
  /\ page' = Sent(page, "changed")
  /\ UNCHANGED <<version, owed, link, up, full, troubles>>

\* The link is turned off or replaced: the table first.
Disable ==
  /\ up /\ link = "on"
  /\ link' = "closing"
  /\ UNCHANGED <<version, owed, up, pinging, full, page, troubles>>

\* close: the pages that watch are told, and their streams ended.
CloseStreams ==
  /\ up /\ link = "closing"
  /\ link' = "off"
  /\ pinging' = FALSE
  /\ page' = IF page.stream = "open"
             THEN [Sent(page, "revoked") EXCEPT !.stream = "ended"] ELSE page
  /\ UNCHANGED <<version, owed, up, full, troubles>>

\* register, once the link was found in the table: a stream over the cap is
\* told so and ended.
Register ==
  /\ page.stream = "asked"
  /\ page' = IF full THEN [page EXCEPT !.stream = "ended", !.wire = <<"capacity">>]
             ELSE [page EXCEPT !.stream = "open", !.wire = <<"connected">>]
  /\ UNCHANGED <<version, owed, link, up, pinging, full, troubles>>

Serve ==
  /\ up /\ page.reading.phase = "sent"
  /\ page' = [page EXCEPT !.reading = IF link = "on" THEN Answer("ok", version)
                                      ELSE Answer("gone", 0)]
  /\ UNCHANGED <<version, owed, link, up, pinging, full, troubles>>

Trouble == troubles < MaxTroubles /\ troubles' = troubles + 1

\* Other pages come and go.
Crowd ==
  /\ ~full /\ Trouble
  /\ full' = TRUE
  /\ UNCHANGED <<version, owed, link, up, pinging, page>>

Leave ==
  /\ full
  /\ full' = FALSE
  /\ UNCHANGED <<version, owed, link, up, pinging, page, troubles>>

\* The process stops: streams break, reads fail, what was to be broadcast or
\* pinged is forgotten.
Crash ==
  /\ up /\ Trouble
  /\ up' = FALSE
  /\ owed' = 0
  /\ pinging' = FALSE
  /\ link' = IF link = "on" THEN "on" ELSE "off"
  /\ LET p == IF page.reading.phase = "sent"
              THEN [page EXCEPT !.reading = Answer("error", 0)] ELSE page
     IN  page' \in IF p.stream \in {"asked", "open", "ended"} THEN {Retrying(p), GivenUp(p)}
                   ELSE {p}
  /\ UNCHANGED <<version, full>>

Restart ==
  /\ ~up
  /\ up' = TRUE
  /\ UNCHANGED <<version, owed, link, pinging, full, page, troubles>>
-----------------------------------------------------------------------------
(***************************************************************************)
(* The network and the page's events.                                      *)
(***************************************************************************)
OnPage(p) ==
  /\ page' = p
  /\ UNCHANGED <<version, owed, link, up, pinging, full>>

Heard(p) == OnPage(p) /\ UNCHANGED troubles

\* The browser connects: a link that is gone answers 404, a server that is down
\* nothing at all.
Connect ==
  /\ page.stream = "waiting"
  /\ \E p \in IF ~up THEN {Retrying(page), GivenUp(page)}
              ELSE IF link = "on" THEN {[page EXCEPT !.stream = "asked"]}
              ELSE {GivenUp(page)} : Heard(p)

Receive == page.wire # << >> /\ Heard(Received(page))

\* A stream that the server ended is connected again by the browser.
NoticeEnd == page.stream = "ended" /\ page.wire = << >> /\ Heard(Retrying(page))

Heartbeat ==
  /\ page.stream = "open" /\ page.wire = << >>
  /\ Heard([page EXCEPT !.watchdog = TRUE,
              !.state = IF @ \in {"reconnecting", "offline"} THEN "live" ELSE @])

\* Nothing arrives any longer, and nobody is told.
Silence ==
  /\ Trouble
  /\ \/ page.stream = "open" /\ OnPage([page EXCEPT !.stream = "silent", !.wire = << >>])
     \/ page.stream = "waiting" /\ OnPage([page EXCEPT !.stream = "hung"])

\* The network fails: the stream breaks.
Break ==
  /\ Trouble
  /\ page.stream \in {"asked", "open", "ended", "silent", "hung"}
  /\ OnPage(Retrying(page)) \/ OnPage(GivenUp(page))

LoseRead ==
  /\ Trouble
  /\ page.reading.phase = "sent"
  /\ OnPage([page EXCEPT !.reading = Answer("error", 0)])

\* A read of a server that is down.
Unreached ==
  /\ ~up /\ page.reading.phase = "sent"
  /\ Heard([page EXCEPT !.reading = Answer("error", 0)])

Read == page.reading.phase = "answered" /\ Heard(ReadEnded(page))

\* The timers: after a ping, after a failed read, the interval, and those of the
\* channel.
PingTimer == page.due > 0 /\ Heard(Refreshed([page EXCEPT !.due = @ - 1]))
RetryTimer == page.retry /\ Heard(Refreshed([page EXCEPT !.retry = FALSE]))
IntervalTimer == ~Revoked(page) /\ Heard(Refreshed(page))

\* No event came for two heartbeats and a half.
Watchdog ==
  /\ page.watchdog /\ page.stream \in {"waiting", "hung", "silent"}
  /\ Heard(Opened([page EXCEPT !.state = "reconnecting"]))

ReopenTimer ==
  /\ page.reopen
  /\ LET p == [page EXCEPT !.reopen = FALSE]
     IN  Heard(IF page.visible THEN Opened(p) ELSE p)

Hide ==
  /\ page.visible
  /\ Heard([page EXCEPT !.visible = FALSE])

\* Back on the page: the feed is read, and a stream that is not running reopened.
Show ==
  /\ ~page.visible
  /\ Heard(resume(Refreshed([page EXCEPT !.visible = TRUE])))

Online == Heard(Refreshed(resume(page)))
-----------------------------------------------------------------------------
Init ==
  /\ version = 1
  /\ owed = 0
  /\ link = "on"
  /\ up = TRUE
  /\ pinging = FALSE
  /\ full = FALSE
  /\ page = Opened(Refreshed(
       [state |-> "start", stream |-> "none", wire |-> << >>, watchdog |-> FALSE,
        reopen |-> FALSE, probing |-> "no", reading |-> Idle, rerun |-> FALSE,
        retry |-> FALSE, due |-> 0, last |-> "none", shown |-> 0, visible |-> TRUE]))
  /\ troubles = 0

Next ==
  \/ Commit \/ Broadcast \/ Ping \/ Disable \/ CloseStreams \/ Register \/ Serve
  \/ Crowd \/ Leave \/ Crash \/ Restart
  \/ Connect \/ Receive \/ NoticeEnd \/ Heartbeat \/ Silence \/ Break \/ LoseRead
  \/ Unreached \/ Read
  \/ PingTimer \/ RetryTimer \/ IntervalTimer \/ Watchdog \/ ReopenTimer
  \/ Hide \/ Show \/ Online

Spec == Init /\ [][Next]_vars

\* A server that is down is restarted, a read comes to its end, the interval runs.
FairSpec ==
  /\ Spec
  /\ WF_vars(Restart)
  /\ WF_vars(Serve \/ Unreached \/ Read)
  /\ WF_vars(IntervalTimer)
-----------------------------------------------------------------------------
State == {"start", "connecting", "live", "reconnecting", "polling", "offline", "revoked"}
Stream == {"none", "waiting", "hung", "asked", "open", "ended", "silent"}
Event == {"connected", "changed", "capacity", "revoked"}
Status == {"ok", "gone", "error"}
Reading == [phase : {"idle", "sent", "answered"}, status : Status, seen : 0..MaxVersion]

Page ==
  [state : State, stream : Stream, wire : Seq(Event),
   watchdog : BOOLEAN, reopen : BOOLEAN, probing : {"no", "next", "read"},
   reading : Reading, rerun : BOOLEAN, retry : BOOLEAN, due : Nat,
   last : Status \cup {"none"}, shown : 0..MaxVersion, visible : BOOLEAN]

\* The shape of the variables; a probe that waits does so for a read under way.
TypeOK ==
  /\ version \in 1..MaxVersion
  /\ owed \in 0..MaxVersion
  /\ link \in {"on", "closing", "off"}
  /\ up \in BOOLEAN /\ pinging \in BOOLEAN /\ full \in BOOLEAN
  /\ page \in Page
  /\ page.probing # "no" => page.reading # Idle
  /\ page.probing = "next" => page.rerun
  /\ troubles \in 0..MaxTroubles

\* The stream alone keeps a page up to date: one that is connected and has
\* nothing to do or to wait for shows the latest version, whatever changed while
\* it was reading, was reconnected or was hidden ("every reconnect reconciles
\* missed pings", public-sse.js; "a ping never lands on a response that was
\* already in flight", refresh-coordinator.js).
NothingMissed ==
  /\ page.stream = "open" /\ page.visible /\ link = "on"
  /\ owed = 0 /\ ~pinging
  /\ page.wire = << >> /\ page.due = 0 /\ page.reading = Idle /\ ~page.retry
  => page.shown = version

\* A page without a stream is going to have one: a probe is under way, which
\* reopens it, or a timer is set, or the page will be shown again; and the page of
\* a revoked link shows nothing, has no stream and sets no timer, whatever was
\* still on its way to it ("no timers survive a revoke", live-channel.test.js).
NeverAdrift ==
  IF Revoked(page)
  THEN /\ page.shown = 0 /\ page.stream = "none"
       /\ ~page.watchdog /\ ~page.reopen /\ ~page.retry
  ELSE page.stream = "none" => page.probing # "no" \/ page.reopen \/ ~page.visible

\* A page that stays visible is up to date again and again, or has learnt that its
\* link is gone, whatever becomes of its stream.
CatchesUp ==
  []<>(Revoked(page) \/ ~page.visible \/ (link = "on" /\ page.shown = version))
=============================================================================
