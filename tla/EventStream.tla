---------------------------- MODULE EventStream ----------------------------
(***************************************************************************)
(* The events of one run on their way to a watching client: the stored log *)
(* of the run (internal/persistence/store.go, retention.go), the hub that  *)
(* polls it and feeds its subscribers (internal/eventstream/hub.go), the   *)
(* handler that replays what is stored and then follows the hub            *)
(* (internal/httpapi/sse.go), and the client that reconnects from the last *)
(* event it printed (cmd/forge/watch.go).                                  *)
(*                                                                         *)
(* An event is its sequence number; fin is the number of run.finished, and *)
(* 0 before it.  A handler's write reaches the client at once or not at    *)
(* all: what is lost on a broken connection was not yet written.  A poll   *)
(* of the database that fails for now is retried by the next tick and is   *)
(* no step.                                                                *)
(***************************************************************************)
EXTENDS Integers, Sequences, FiniteSets

CONSTANTS Clients,         \* watching clients
          Conns,           \* request handlers of the API process
          Hubs,            \* generations of the run's hub
          None,            \* no hub, no connection
          HistorySize,     \* events a hub remembers
          QueueSize,       \* events a subscriber's channel holds
          MaxSubscribers,  \* subscribers of one hub
          PageSize,        \* events one query returns
          MaxReconnects,   \* reconnects of a client without progress
          KeepTails,       \* events a trim may leave
          MaxEvents        \* events of the run before it finishes

ASSUME StreamAssumption ==
  /\ {HistorySize, QueueSize, MaxSubscribers, PageSize} \subseteq Nat \ {0}
  /\ {MaxReconnects, MaxEvents} \subseteq Nat
  /\ KeepTails \subseteq Nat \ {0}
  /\ None \notin Hubs \cup Conns

VARIABLES stored,  \* events the database holds
          covered, \* CoveredSeq: the last event appended
          first,   \* RetainedFromSeq: the oldest event a cursor may ask for
          fin,     \* the event run.finished
          hub,     \* generations of the hub
          current, \* the hub in the manager's map
          conn,    \* the handlers, each with its subscription
          client   \* the watching clients

db == <<stored, covered, first, fin>>
streamVars == <<stored, covered, first, fin, hub, current, conn, client>>

FreeHub == [pc |-> "free", cursor |-> 0, history |-> << >>, batch |-> << >>]

\* sub is the hub the handler subscribed to, open that it is still one of the
\* hub's subscribers; queue and err are the subscription's two channels.
FreeConn == [pc |-> "free", owner |-> None, after |-> 0, covered |-> 0,
             written |-> FALSE, sub |-> None, open |-> FALSE, subAfter |-> 0,
             queue |-> << >>, err |-> FALSE]

NewClient == [pc |-> "ready", conn |-> None, after |-> 0, before |-> 0,
              failures |-> 0]

StreamInit ==
  /\ stored = {} /\ covered = 0 /\ first = 1 /\ fin = 0
  /\ hub = [g \in Hubs |-> FreeHub] /\ current = None
  /\ conn = [h \in Conns |-> FreeConn]
  /\ client = [k \in Clients |-> NewClient]

-----------------------------------------------------------------------------
(* The stored log *)

appendEvent ==
  /\ covered' = covered + 1 /\ stored' = stored \cup {covered + 1}
  /\ UNCHANGED first

\* Worker, control and transition events of a run that is not finished.
AppendEvent ==
  /\ fin = 0 /\ covered < MaxEvents
  /\ appendEvent
  /\ UNCHANGED <<fin, hub, current, conn, client>>

Finish ==
  /\ fin = 0
  /\ appendEvent /\ fin' = covered + 1
  /\ UNCHANGED <<hub, current, conn, client>>

\* workspace.released follows run.finished.
AppendReleased ==
  /\ fin # 0 /\ covered = fin
  /\ appendEvent
  /\ UNCHANGED <<fin, hub, current, conn, client>>

TrimEvents(keep) ==
  LET to == covered + 1 - keep
  IN /\ fin # 0 /\ first < to
     /\ first' = to
     /\ stored' = {s \in stored : s >= to}
     /\ UNCHANGED <<covered, fin, hub, current, conn, client>>

\* Store.Events: the boundary is checked in the transaction that reads the page.
Reset(after) == after < first - 1

After(after) == {s \in stored : s > after}

\* The first n stored events after a cursor.
Page(after, n) ==
  LET ahead == After(after)
      rank(s) == Cardinality({u \in ahead : u <= s})
      size == IF Cardinality(ahead) < n THEN Cardinality(ahead) ELSE n
  IN [i \in 1..size |-> CHOOSE s \in ahead : rank(s) = i]

-----------------------------------------------------------------------------
(* The client: watch and consumeEvents *)

\* The end of one request: progress pays for the failures before it.
Reconnect(c) ==
  LET failures == IF c.after > c.before THEN 0 ELSE c.failures + 1
  IN [c EXCEPT !.conn = None,
               !.failures = IF failures > MaxReconnects THEN @ ELSE failures,
               !.pc = IF failures > MaxReconnects THEN "exhausted" ELSE "ready"]

Listening(h) == conn[h].owner # None /\ client[conn[h].owner].conn = h

dispatch(c, seq) ==
  IF seq <= c.after THEN c
  ELSE IF seq # c.after + 1 THEN [c EXCEPT !.pc = "protocol", !.conn = None]
  ELSE IF seq = fin THEN [c EXCEPT !.after = seq, !.pc = "done", !.conn = None]
  ELSE [c EXCEPT !.after = seq]

Connect(k, h) ==
  /\ client[k].pc = "ready"
  /\ conn[h].pc = "free" /\ h = CHOOSE i \in Conns : conn[i].pc = "free"
  /\ client' = [client EXCEPT ![k].pc = "reading", ![k].conn = h,
                              ![k].before = client[k].after]
  /\ conn' = [conn EXCEPT ![h] = [FreeConn EXCEPT !.pc = "getrun", !.owner = k,
                                                  !.after = client[k].after]]
  /\ UNCHANGED <<db, hub, current>>

\* The connection breaks, or the idle timer of the client closes it.
Cut(k) ==
  /\ client[k].pc = "reading"
  /\ client' = [client EXCEPT ![k] = Reconnect(@)]
  /\ UNCHANGED <<db, hub, current, conn>>

\* Status 410: the client goes on from a snapshot.
GetSnapshot(k) ==
  /\ client[k].pc = "gone"
  /\ client' = [client EXCEPT ![k] =
       IF covered < @.after THEN [@ EXCEPT !.pc = "protocol"]
       ELSE IF fin # 0 THEN [@ EXCEPT !.after = covered, !.pc = "done"]
       ELSE Reconnect([@ EXCEPT !.after = covered])]
  /\ UNCHANGED <<db, hub, current, conn>>

SnapshotFails(k) ==
  /\ client[k].pc = "gone"
  /\ client' = [client EXCEPT ![k].pc = "failed"]
  /\ UNCHANGED <<db, hub, current, conn>>

\* The response of a request that does not become a stream.
Respond(h, code) ==
  client' = IF ~Listening(h) THEN client
            ELSE [client EXCEPT ![conn[h].owner] =
                   CASE code = "gone" -> [@ EXCEPT !.pc = "gone", !.conn = None]
                     [] code = "busy" -> Reconnect(@)
                     [] code = "error" -> [@ EXCEPT !.pc = "failed", !.conn = None]
                     [] code = "conflict" ->
                          [@ EXCEPT !.pc = "protocol", !.conn = None]]

Refuse(h, code) == Respond(h, code) /\ conn' = [conn EXCEPT ![h] = FreeConn]

-----------------------------------------------------------------------------
(* Manager.Subscribe *)

Subscribers(g) == {h \in Conns : conn[h].sub = g /\ conn[h].open}

\* The run is read before the locks are taken.
SubscribeRead(h) ==
  /\ conn[h].pc = "getrun"
  /\ \/ conn[h].after > covered /\ Refuse(h, "conflict")
     \/ conn[h].after <= covered /\ Reset(conn[h].after) /\ Refuse(h, "gone")
     \/ /\ conn[h].after <= covered /\ ~Reset(conn[h].after)
        /\ conn' = [conn EXCEPT ![h].pc = "join", ![h].covered = covered]
        /\ UNCHANGED client
  /\ UNCHANGED <<db, hub, current>>

\* A generation nobody holds; which one is immaterial.
Unused == {g \in Hubs : hub[g] = FreeHub /\ \A h \in Conns : conn[h].sub # g}

\* The manager's lock is held by a handler that has started a hub and waits for
\* the hub's lock.
Locked == \E h \in Conns : conn[h].pc = "enter"

\* No hub yet: a new one starts where the run was read, and polls from now on;
\* or the hubs of other runs have used up the manager.
SubscribeNew(h) ==
  /\ conn[h].pc = "join" /\ current = None /\ ~Locked
  /\ \/ /\ Refuse(h, "busy") /\ UNCHANGED <<hub, current>>
     \/ LET g == CHOOSE u \in Unused : TRUE
        IN
          /\ Unused # {} /\ current' = g
          /\ hub' = [hub EXCEPT ![g] = [FreeHub EXCEPT !.pc = "idle",
                                                       !.cursor = conn[h].covered]]
          /\ conn' = [conn EXCEPT ![h].pc = "enter"]
          /\ UNCHANGED client
  /\ UNCHANGED db

\* What the hub has read since the run was read is queued, or the subscriber
\* has to start again when the hub no longer remembers it or it does not fit.
\* A history ascends (Apply), so the events the loop skips come first.
Missed(h, g) ==
  LET history == hub[g].history
      skipped == {i \in DOMAIN history : history[i] <= conn[h].covered}
  IN SubSeq(history, Cardinality(skipped) + 1, Len(history))

\* Mutation of Forgotten: the hub is taken to remember whatever is needed.
NeverForgotten(h, g) == FALSE

Forgotten(h, g) ==
  /\ hub[g].cursor > conn[h].covered
  /\ hub[g].history # << >> => Head(hub[g].history) > conn[h].covered + 1

\* The same checks for the handler that has started the hub: by now the hub may
\* have read more than the channel holds.  The hub of a creator that is refused
\* stays in the map.
SubscribeJoin(h) ==
  LET g == current
      missed == Missed(h, g)
  IN /\ conn[h].pc = "enter" \/ (conn[h].pc = "join" /\ ~Locked)
     /\ g # None /\ hub[g].pc # "apply"
     /\ \/ Cardinality(Subscribers(g)) >= MaxSubscribers /\ Refuse(h, "busy")
        \/ /\ Cardinality(Subscribers(g)) < MaxSubscribers
           /\ Forgotten(h, g) \/ Len(missed) > QueueSize
           /\ Refuse(h, "gone")
        \/ /\ Cardinality(Subscribers(g)) < MaxSubscribers
           /\ ~Forgotten(h, g) /\ Len(missed) <= QueueSize
           /\ conn' = [conn EXCEPT ![h].pc = "replay", ![h].sub = g,
                         ![h].open = TRUE, ![h].queue = missed,
                         ![h].subAfter = IF missed = << >> THEN conn[h].covered
                                         ELSE missed[Len(missed)]]
           /\ UNCHANGED client
     /\ UNCHANGED <<db, hub, current>>

\* closeSub: the last subscriber takes the hub with it, also when the hub has
\* dropped the subscription before.  Cancelled, out of the map and without
\* subscribers, its goroutine touches nothing any more and is taken to end at
\* once.  The client sees the end of the stream.

\* Mutation of CloseSub: a subscription the hub has dropped is left alone.
CloseOpenSub(h) ==
  LET g == conn[h].sub
  IN /\ conn[h].pc = "closing" /\ ~Locked /\ hub[g].pc # "apply"
     /\ IF conn[h].open /\ Subscribers(g) \ {h} = {} /\ current = g
        THEN current' = None /\ hub' = [hub EXCEPT ![g] = FreeHub]
        ELSE UNCHANGED <<current, hub>>
     /\ conn' = [conn EXCEPT ![h] = FreeConn]
     /\ client' = IF Listening(h) THEN [client EXCEPT ![conn[h].owner] = Reconnect(@)]
                  ELSE client
     /\ UNCHANGED db

CloseSub(h) ==
  LET g == conn[h].sub
  IN /\ conn[h].pc = "closing" /\ ~Locked /\ hub[g].pc # "apply"
     /\ IF Subscribers(g) \ {h} = {} /\ current = g
        THEN current' = None /\ hub' = [hub EXCEPT ![g] = FreeHub]
        ELSE UNCHANGED <<current, hub>>
     /\ conn' = [conn EXCEPT ![h] = FreeConn]
     /\ client' = IF Listening(h) THEN [client EXCEPT ![conn[h].owner] = Reconnect(@)]
                  ELSE client
     /\ UNCHANGED db

-----------------------------------------------------------------------------
(* The handler: Server.events *)

\* One event written: the cursor moves, and run.finished ends the stream.
Write(h, seq, rest) ==
  /\ conn' = [conn EXCEPT ![h].after = seq, ![h].written = TRUE,
                          ![h].queue = rest,
                          ![h].pc = IF seq = fin THEN "closing" ELSE @]
  /\ client' = [client EXCEPT ![conn[h].owner] = dispatch(@, seq)]

\* Replay of the stored events up to the cursor of the subscription.  The page
\* is written event by event; a page of one is a page whose tail was not reached.
\* A page cannot be empty: a trim leaves the last event.
Replay(h) ==
  LET c == conn[h]
      page == Page(c.after, 1)
  IN /\ c.pc = "replay" /\ c.after < c.covered /\ Listening(h)
     /\ \/ /\ Reset(c.after)
           /\ IF c.written THEN UNCHANGED client ELSE Respond(h, "gone")
           /\ conn' = [conn EXCEPT ![h].pc = "closing"]
        \/ /\ ~Reset(c.after) /\ page # << >> /\ Head(page) <= c.covered
           /\ IF Head(page) = c.after + 1 THEN Write(h, Head(page), c.queue)
              ELSE /\ IF c.written THEN UNCHANGED client ELSE Respond(h, "gone")
                   /\ conn' = [conn EXCEPT ![h].pc = "closing"]
     /\ UNCHANGED <<db, hub, current>>

Connected(h) ==
  /\ conn[h].pc = "replay" /\ conn[h].after >= conn[h].covered
  /\ conn' = [conn EXCEPT ![h].pc = "live"]
  /\ UNCHANGED <<db, hub, current, client>>

\* An event from the subscription's channel; what was replayed is skipped.
Follow(h) ==
  LET c == conn[h]
  IN /\ c.pc = "live" /\ c.queue # << >> /\ Listening(h)
     /\ IF Head(c.queue) > c.after THEN Write(h, Head(c.queue), Tail(c.queue))
        ELSE conn' = [conn EXCEPT ![h].queue = Tail(@)] /\ UNCHANGED client
     /\ UNCHANGED <<db, hub, current>>

\* The hub has closed both channels: the error may be seen before the events.
Dropped(h) ==
  /\ conn[h].pc = "live" /\ ~conn[h].open
  /\ conn[h].err \/ conn[h].queue = << >>
  /\ conn' = [conn EXCEPT ![h].pc = "closing"]
  /\ UNCHANGED <<db, hub, current, client>>

\* The client is gone: its context is done and a write fails.
Abandoned(h) ==
  /\ conn[h].pc \in {"replay", "live"} /\ ~Listening(h)
  /\ conn' = [conn EXCEPT ![h].pc = "closing"]
  /\ UNCHANGED <<db, hub, current, client>>

\* A write or the heartbeat's authentication fails, or a query after a write.
HandlerFails(h) ==
  /\ conn[h].pc \in {"replay", "live"} /\ Listening(h)
  /\ conn' = [conn EXCEPT ![h].pc = "closing"]
  /\ UNCHANGED <<db, hub, current, client>>

\* A query that fails before anything was written is answered with an error,
\* and the watch ends.
QueryFails(h) ==
  /\ \/ conn[h].pc = "getrun" /\ Refuse(h, "error")
     \/ /\ conn[h].pc = "replay" /\ conn[h].after < conn[h].covered
        /\ ~conn[h].written /\ Respond(h, "error")
        /\ conn' = [conn EXCEPT ![h].pc = "closing"]
  /\ UNCHANGED <<db, hub, current>>

-----------------------------------------------------------------------------
(* The goroutine of a hub: hub.run *)

Poll(g) ==
  /\ hub[g].pc = "idle"
  /\ After(hub[g].cursor) # {} \/ Reset(hub[g].cursor)
  /\ hub' = [hub EXCEPT ![g] =
       IF Reset(hub[g].cursor) THEN [@ EXCEPT !.pc = "retire"]
       ELSE [@ EXCEPT !.batch = Page(hub[g].cursor, PageSize), !.pc = "read"]]
  /\ UNCHANGED <<db, current, conn, client>>

\* The run has gone or its stored state is of another version.
PollFails(g) ==
  /\ hub[g].pc = "idle"
  /\ hub' = [hub EXCEPT ![g].pc = "retire"]
  /\ UNCHANGED <<db, current, conn, client>>

\* The lock is taken for the whole batch.
LockHub(g) ==
  /\ hub[g].pc = "read"
  /\ hub' = [hub EXCEPT ![g].pc = "apply"]
  /\ UNCHANGED <<db, current, conn, client>>

Remembered(history, seq) ==
  LET all == Append(history, seq)
  IN IF Len(all) > HistorySize THEN Tail(all) ELSE all

\* The error is buffered before both channels close.
remove(c) == [c EXCEPT !.open = FALSE, !.err = TRUE]

\* An event for one subscriber: a full channel ends the subscription.
Offer(c, seq) ==
  IF seq <= c.subAfter THEN c
  ELSE IF Len(c.queue) < QueueSize
       THEN [c EXCEPT !.queue = Append(@, seq), !.subAfter = seq]
       ELSE remove(c)

Apply(g) ==
  LET seq == Head(hub[g].batch)
      rest == Tail(hub[g].batch)
  IN /\ hub[g].pc = "apply"
     /\ IF seq = hub[g].cursor + 1
        THEN /\ hub' = [hub EXCEPT ![g] =
                  [@ EXCEPT !.cursor = seq, !.batch = rest,
                            !.history = Remembered(hub[g].history, seq),
                            !.pc = IF rest = << >> THEN "idle" ELSE "apply"]]
             /\ conn' = [h \in Conns |-> IF h \in Subscribers(g)
                                         THEN Offer(conn[h], seq) ELSE conn[h]]
        ELSE /\ hub' = [hub EXCEPT ![g].pc = "retire"]
             /\ UNCHANGED conn
     /\ UNCHANGED <<db, current, client>>

\* Mutation of Retire: the subscribers go, the map keeps the hub.
RetireMapped(g) ==
  /\ hub[g].pc = "retire" /\ ~Locked
  /\ hub' = [hub EXCEPT ![g] = FreeHub]
  /\ conn' = [h \in Conns |-> IF h \in Subscribers(g)
                THEN remove(conn[h]) ELSE conn[h]]
  /\ UNCHANGED <<db, current, client>>

\* The hub leaves the map, is cancelled and drops its subscribers, under both
\* locks.
Retire(g) ==
  /\ hub[g].pc = "retire" /\ ~Locked
  /\ current' = IF current = g THEN None ELSE current
  /\ hub' = [hub EXCEPT ![g] = FreeHub]
  /\ conn' = [h \in Conns |-> IF h \in Subscribers(g)
                THEN remove(conn[h]) ELSE conn[h]]
  /\ UNCHANGED <<db, client>>

-----------------------------------------------------------------------------
Log ==
  \/ AppendEvent \/ Finish \/ AppendReleased
  \/ \E keep \in KeepTails : TrimEvents(keep)

HubStep(g) == Poll(g) \/ LockHub(g) \/ Apply(g) \/ Retire(g)

HandlerStep(h) ==
  \/ SubscribeRead(h) \/ SubscribeNew(h) \/ SubscribeJoin(h)
  \/ Replay(h) \/ Connected(h) \/ Follow(h) \/ Dropped(h) \/ Abandoned(h)
  \/ CloseSub(h)

ClientStep(k) == GetSnapshot(k) \/ \E h \in Conns : Connect(k, h)

StreamNext ==
  \/ Log
  \/ \E g \in Hubs : HubStep(g) \/ PollFails(g)
  \/ \E h \in Conns : HandlerStep(h) \/ HandlerFails(h) \/ QueryFails(h)
  \/ \E k \in Clients : ClientStep(k) \/ Cut(k) \/ SnapshotFails(k)

StreamSpec == StreamInit /\ [][StreamNext]_streamVars

\* Goroutines, handlers and clients keep running and a poll succeeds in the
\* end; nothing makes a run finish, a connection break or an operator trim.
StreamFair ==
  /\ StreamSpec
  /\ \A g \in Hubs : WF_streamVars(HubStep(g))
  /\ \A h \in Conns : WF_streamVars(HandlerStep(h))
  /\ \A k \in Clients : WF_streamVars(ClientStep(k))

-----------------------------------------------------------------------------
(* Properties *)

\* No client is ever told of a gap, of a cursor from the future or of a
\* snapshot behind what it has printed, whatever is trimmed, dropped or cut
\* between the replay of the stored events and the live feed (watch ends with
\* errStreamProtocol on the first and the last, and with the error of a 409).
NoProtocolError == \A k \in Clients : client[k].pc # "protocol"

\* "It must never find this dying hub in the manager's admission map": the hub
\* in the map still runs, and every handler that waits for the live feed is
\* fed by a hub that runs or has been told that it is not (Manager.Subscribe,
\* closeSub, hub.retire).  And no hub outlives the handlers it has served: it
\* leaves the map with the last of them, also when that one was dropped for
\* slowness.  A hub whose creator was refused serves nobody yet and stays.
MappedHubRuns ==
  /\ [](current # None => hub[current].pc # "free")
  /\ [](\A h \in Conns : conn[h].open =>
          /\ hub[conn[h].sub].pc # "free"
          /\ conn[h].subAfter >= hub[conn[h].sub].cursor)
  /\ [][current # None /\ current' = current /\ (\E h \in Conns : conn[h].sub = current)
         => \E h \in Conns : conn'[h].sub = current]_streamVars

\* A finished run ends every watch, with the end of the run, an error of the
\* server or the reconnect budget used up: no handler waits for ever on a hub
\* that has gone or on a lock.
WatchEnds == \A k \in Clients : [](fin # 0 =>
               <>(client[k].pc \in {"done", "exhausted", "failed", "protocol"}))
=============================================================================
