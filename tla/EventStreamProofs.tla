------------------------- MODULE EventStreamProofs -------------------------
(***************************************************************************)
(* Proofs about EventStream for every set of clients, handlers and hubs    *)
(* and every size of page, cache and channel.                              *)
(*                                                                         *)
(* That no client ever sees a gap rests on three facts that no variable    *)
(* states: what a hub remembers, what it has read and what a channel holds *)
(* are consecutive events; the channel of a handler that still replays     *)
(* begins where the replay ends, and that of a live one at or before the   *)
(* handler's cursor; and a subscriber the hub still feeds is not behind    *)
(* the hub.  StreamInv is their conjunction with what the clients know.    *)
(***************************************************************************)
EXTENDS EventStream, FiniteSetTheorems, SequenceTheorems, TLAPS

-----------------------------------------------------------------------------
(* The inductive invariant *)

Hub == [pc : {"free", "idle", "read", "apply", "retire"}, cursor : Nat,
        history : Seq(Nat), batch : Seq(Nat)]

Conn == [pc : {"free", "getrun", "join", "enter", "replay", "live",
              "closing"},
         owner : Clients \cup {None}, after : Nat, covered : Nat,
         written : BOOLEAN, sub : Hubs \cup {None}, open : BOOLEAN,
         subAfter : Nat, queue : Seq(Nat), err : BOOLEAN]

Client == [pc : {"ready", "reading", "gone", "done", "exhausted", "failed",
                 "protocol"},
           conn : Conns \cup {None}, after : Nat, before : Nat, failures : Nat]

\* s holds the events that follow event n, without a gap.
Follows(s, n) == s \in Seq(Nat) /\ \A i \in 1..Len(s) : s[i] = n + i

\* The log holds everything from the retention boundary to its end.
LogFits ==
  /\ covered \in Nat /\ first \in Nat \ {0} /\ first <= covered + 1
  /\ stored = first..covered /\ fin \in 0..covered

\* What a hub has read ends at its cursor, what it is about to feed begins
\* there; n is the end of the log.
HubFits(x, n) ==
  /\ x \in Hub /\ x.cursor <= n
  /\ Len(x.history) <= x.cursor /\ Follows(x.history, x.cursor - Len(x.history))
  /\ Follows(x.batch, x.cursor) /\ x.cursor + Len(x.batch) <= n
  /\ x.pc \in {"read", "apply"} => x.batch # << >>

\* Where the events of a handler's channel begin, and where it stands itself.
ConnFits(c, n) ==
  /\ c \in Conn /\ c.after <= n /\ c.covered <= n /\ c.subAfter <= n
  /\ Len(c.queue) <= c.subAfter /\ Follows(c.queue, c.subAfter - Len(c.queue))
  /\ IF c.pc \in {"free", "getrun", "join", "enter"}
     THEN c.sub = None /\ ~c.open /\ c.queue = << >>
     ELSE c.sub \in Hubs
  /\ c.pc \in {"join", "enter", "replay"} => c.after <= c.covered
  /\ c.pc = "replay" => c.subAfter - Len(c.queue) = c.covered
  /\ c.pc = "live" => c.subAfter - Len(c.queue) <= c.after

\* A client's cursor is in the log, and only a reading client has a connection.
ClientFits(c, n) ==
  /\ c \in Client /\ c.pc # "protocol" /\ c.after <= n
  /\ c.pc # "reading" => c.conn = None

\* The hub of a subscription that is open runs and is not ahead of it.
Fed(c) ==
  c.open => hub[c.sub].pc # "free" /\ hub[c.sub].cursor <= c.subAfter

\* The hub in the map runs.
Mapped == current # None => current \in Hubs /\ hub[current].pc # "free"

\* A handler and the client it serves stand at the same event.
Heard(h) == Listening(h) => client[conn[h].owner].after = conn[h].after

StreamInv ==
  /\ LogFits /\ Mapped
  /\ hub \in [Hubs -> Hub] /\ \A g \in Hubs : HubFits(hub[g], covered)
  /\ conn \in [Conns -> Conn] /\ client \in [Clients -> Client]
  /\ \A h \in Conns : ConnFits(conn[h], covered) /\ Fed(conn[h]) /\ Heard(h)
  /\ \A k \in Clients : ClientFits(client[k], covered)


-----------------------------------------------------------------------------
(* Consecutive events *)

\* The empty sequence follows every event.
LEMMA FollowsEmpty ==
  ASSUME NEW n PROVE Follows(<< >>, n) /\ Len(<< >>) = 0
BY EmptySeq DEF Follows

\* The ends of a sequence of consecutive events.
LEMMA FollowsEnds ==
  ASSUME NEW n \in Int, NEW s, Follows(s, n)
  PROVE  /\ Len(s) \in Nat /\ (s = << >> <=> Len(s) = 0)
         /\ s # << >> => Head(s) = n + 1 /\ s[Len(s)] = n + Len(s)
<1>1. s \in Seq(Nat) /\ Len(s) \in Nat /\ (s = << >> <=> Len(s) = 0)
  BY EmptySeq, LenProperties DEF Follows
<1>2. ASSUME s # << >> PROVE Head(s) = n + 1 /\ s[Len(s)] = n + Len(s)
  <2>1. Len(s) \in 1..Len(s) /\ 1 \in 1..Len(s) /\ Head(s) = s[1]
    BY <1>1, <1>2
  <2> QED BY <2>1, <1>1 DEF Follows
<1> QED BY <1>1, <1>2

\* Without its first event it follows that event.
LEMMA FollowsTail ==
  ASSUME NEW n \in Int, NEW s, Follows(s, n), s # << >>
  PROVE  Follows(Tail(s), n + 1) /\ Len(Tail(s)) = Len(s) - 1
<1>1. s \in Seq(Nat) /\ Len(s) \in Nat
  BY LenProperties DEF Follows
<1>2. /\ Tail(s) \in Seq(Nat) /\ Len(Tail(s)) = Len(s) - 1
      /\ \A i \in 1..Len(Tail(s)) : Tail(s)[i] = s[i + 1]
  BY <1>1, HeadTailProperties
<1>3. ASSUME NEW i \in 1..Len(Tail(s)) PROVE Tail(s)[i] = (n + 1) + i
  <2>1. i + 1 \in 1..Len(s)
    BY <1>1, <1>2
  <2>2. s[i + 1] = n + (i + 1)
    BY <2>1 DEF Follows
  <2> QED BY <2>2, <1>2
<1> QED BY <1>2, <1>3 DEF Follows

\* The next event may be appended.
LEMMA FollowsAppend ==
  ASSUME NEW n \in Int, NEW s, Follows(s, n), NEW e \in Nat, e = n + Len(s) + 1
  PROVE  Follows(Append(s, e), n) /\ Len(Append(s, e)) = Len(s) + 1
<1>1. s \in Seq(Nat) /\ Len(s) \in Nat
  BY LenProperties DEF Follows
<1>2. /\ Append(s, e) \in Seq(Nat) /\ Len(Append(s, e)) = Len(s) + 1
      /\ \A i \in 1..Len(s) : Append(s, e)[i] = s[i]
      /\ Append(s, e)[Len(s) + 1] = e
  BY <1>1, AppendProperties
<1>3. ASSUME NEW i \in 1..Len(Append(s, e)) PROVE Append(s, e)[i] = n + i
  <2>1. i \in 1..Len(s) \/ i = Len(s) + 1
    BY <1>1, <1>2
  <2>2. CASE i \in 1..Len(s)
    BY <2>2, <1>2 DEF Follows
  <2>3. CASE i = Len(s) + 1
    BY <2>3, <1>1, <1>2
  <2> QED BY <2>1, <2>2, <2>3
<1> QED BY <1>2, <1>3 DEF Follows

\* So does what is left when d events are dropped.
LEMMA FollowsSuffix ==
  ASSUME NEW n \in Int, NEW s, Follows(s, n), NEW d \in 0..Len(s)
  PROVE  /\ Follows(SubSeq(s, d + 1, Len(s)), n + d)
         /\ Len(SubSeq(s, d + 1, Len(s))) = Len(s) - d
<1>1. s \in Seq(Nat) /\ Len(s) \in Nat /\ d \in Nat /\ d <= Len(s)
  BY LenProperties DEF Follows
<1>2. PICK e, l, t : e = d + 1 /\ l = Len(s) /\ t = SubSeq(s, e, l)
  OBVIOUS
<1>3. e \in Int /\ l \in Int /\ \A i \in e..l : s[i] \in Nat
  <2>1. \A i \in e..l : i \in 1..Len(s)
    BY <1>1, <1>2
  <2> QED BY <1>1, <1>2, <2>1, ElementOfSeq
<1>4. /\ t \in Seq(Nat) /\ Len(t) = IF e <= l THEN l - e + 1 ELSE 0
      /\ \A i \in 1..(l - e + 1) : t[i] = s[e + i - 1]
  <2>1. t = SubSeq(s, e, l)
    BY <1>2
  <2>2. /\ SubSeq(s, e, l) \in Seq(Nat)
        /\ Len(SubSeq(s, e, l)) = IF e <= l THEN l - e + 1 ELSE 0
        /\ \A i \in 1..(l - e + 1) : SubSeq(s, e, l)[i] = s[e + i - 1]
    BY <1>3, SubSeqProperties
  <2> QED BY <2>1, <2>2
<1>5. Len(t) = l - d
  BY <1>1, <1>2, <1>4
<1>6. ASSUME NEW i \in 1..Len(t) PROVE t[i] = (n + d) + i
  <2>1. i \in 1..(l - e + 1) /\ e + i - 1 = d + i /\ d + i \in 1..Len(s)
    BY <1>1, <1>2, <1>5
  <2>2. t[i] = s[d + i] /\ s[d + i] = n + (d + i)
    BY <1>4, <2>1 DEF Follows
  <2> QED BY <2>1, <2>2, <1>1
<1> QED BY <1>2, <1>4, <1>5, <1>6 DEF Follows

\* A page of the log holds the events that follow its cursor.
LEMMA PageIs ==
  ASSUME LogFits, NEW a \in Nat, a <= covered, ~Reset(a), NEW m \in Nat \ {0}
  PROVE  /\ Follows(Page(a, m), a) /\ a + Len(Page(a, m)) <= covered
         /\ a < covered => Page(a, m) # << >>
         /\ After(a) # {} => a < covered
<1> DEFINE ahead == After(a)
           rank(s) == Cardinality({u \in ahead : u <= s})
           d == covered - a
           size == IF d < m THEN d ELSE m
<1>1. /\ covered \in Nat /\ first \in Nat /\ stored = first..covered
      /\ a >= first - 1 /\ d \in Nat
  BY DEF LogFits, Reset
<1>2. ahead = (a + 1)..covered
  BY <1>1 DEF After
<1>3. Cardinality(ahead) = d
  <2>1. Cardinality((a + 1)..covered) =
          IF a + 1 > covered THEN 0 ELSE covered - (a + 1) + 1
    BY <1>1, FS_Interval
  <2> QED BY <2>1, <1>1, <1>2
<1>4. ASSUME NEW s \in ahead PROVE rank(s) = s - a
  <2>1. s \in Nat /\ a + 1 <= s /\ s <= covered
    BY <1>1, <1>2
  <2>2. {u \in ahead : u <= s} = (a + 1)..s
    BY <1>1, <1>2, <2>1
  <2>3. Cardinality((a + 1)..s) = IF a + 1 > s THEN 0 ELSE s - (a + 1) + 1
    BY <2>1, FS_Interval
  <2>4. Cardinality((a + 1)..s) = s - a
    BY <2>1, <2>3
  <2> QED BY <2>2, <2>4
<1>5. Page(a, m) = [i \in 1..size |-> CHOOSE s \in ahead : rank(s) = i]
  BY <1>3 DEF Page
<1>6. size \in Nat /\ size <= d /\ size <= m /\ (d > 0 => size > 0)
  BY <1>1
<1>7. ASSUME NEW i \in 1..size
      PROVE  (CHOOSE s \in ahead : rank(s) = i) = a + i
  <2>1. a + i \in ahead /\ (a + i) - a = i
    BY <1>1, <1>2, <1>6
  <2>2. rank(a + i) = i
    BY <2>1, <1>4
  <2>3. \A s \in ahead : rank(s) = i => s = a + i
    BY <1>1, <1>2, <1>4
  <2> HIDE DEF ahead, rank
  <2> QED BY <2>1, <2>2, <2>3
<1>8. /\ Page(a, m) = [i \in 1..size |-> a + i]
  BY <1>5, <1>7
<1>9. Page(a, m) \in Seq(Nat) /\ Len(Page(a, m)) = size
  <2>1. \A i \in 1..size : a + i \in Nat
    BY <1>6
  <2> HIDE DEF size
  <2> QED BY <1>6, <1>8, <2>1
<1>10. Follows(Page(a, m), a)
  BY <1>8, <1>9 DEF Follows
<1>11. a < covered => Page(a, m) # << >>
  BY <1>1, <1>6, <1>9, EmptySeq
<1> QED BY <1>1, <1>2, <1>6, <1>9, <1>10, <1>11

\* What a late subscriber is given is what the hub has read since, if the hub
\* remembers all of it.
LEMMA MissedIs ==
  ASSUME NEW h, NEW g, NEW n, HubFits(hub[g], n), conn[h].covered \in Nat,
         ~Forgotten(h, g)
  PROVE  /\ Follows(Missed(h, g), conn[h].covered)
         /\ hub[g].cursor <= conn[h].covered => Missed(h, g) = << >>
         /\ hub[g].cursor > conn[h].covered =>
              conn[h].covered + Len(Missed(h, g)) = hub[g].cursor
<1> DEFINE s == hub[g].history
           b == conn[h].covered
           l == Len(s)
           k == hub[g].cursor
           skipped == {i \in DOMAIN s : s[i] <= b}
           d == IF b <= k THEN b - (k - l) ELSE l
<1>1. /\ s \in Seq(Nat) /\ l \in Nat /\ DOMAIN s = 1..l /\ k \in Nat /\ b \in Nat
      /\ l <= k /\ \A i \in 1..l : s[i] = (k - l) + i
  BY LenProperties DEF HubFits, Hub, Follows
<1>2. k > b => s # << >> /\ Head(s) <= b + 1
  BY <1>1, HeadTailProperties DEF Forgotten
<1>3. k > b => l > 0 /\ (k - l) + 1 <= b + 1
  <2> SUFFICES ASSUME k > b PROVE l > 0 /\ (k - l) + 1 <= b + 1
    OBVIOUS
  <2>1. l > 0 /\ Head(s) = s[1]
    BY <1>1, <1>2, EmptySeq
  <2>2. s[1] = (k - l) + 1
    BY <1>1, <2>1
  <2> QED BY <1>2, <2>1, <2>2
<1> HIDE DEF s, b, l, k
<1>4. d \in 0..l /\ (b >= k => d = l) /\ (b < k => d = b - (k - l))
  BY <1>1, <1>3
<1> HIDE DEF d
<1>5. skipped = 1..d
  <2>1. ASSUME NEW i \in 1..l PROVE s[i] <= b <=> i <= d
    <3>1. s[i] = (k - l) + i
      BY <1>1
    <3>2. CASE b >= k
      BY <3>1, <3>2, <1>1, <1>4
    <3>3. CASE b < k
      BY <3>1, <3>3, <1>1, <1>4
    <3> QED BY <1>1, <3>2, <3>3
  <2> QED BY <1>1, <1>4, <2>1
<1>6. Cardinality(skipped) = d
  <2>1. Cardinality(1..d) = IF 1 > d THEN 0 ELSE d - 1 + 1
    BY <1>4, FS_Interval
  <2>2. Cardinality(1..d) = d
    BY <2>1, <1>1, <1>4
  <2> HIDE DEF skipped
  <2> QED BY <2>2, <1>5
<1>7. Missed(h, g) = SubSeq(s, d + 1, l)
  BY <1>6 DEF Missed, s, b, l
<1>8. Follows(Missed(h, g), (k - l) + d) /\ Len(Missed(h, g)) = l - d
  <2>1. Follows(s, k - l) /\ k - l \in Int
    BY <1>1 DEF Follows, l
  <2>2. PICK q \in Int : q = k - l
    BY <2>1
  <2>3. Follows(s, q) /\ d \in 0..Len(s)
    BY <1>4, <2>1, <2>2 DEF l
  <2>4. /\ Follows(SubSeq(s, d + 1, Len(s)), q + d)
        /\ Len(SubSeq(s, d + 1, Len(s))) = Len(s) - d
    BY <2>3, FollowsSuffix
  <2>5. Missed(h, g) = SubSeq(s, d + 1, Len(s)) /\ l = Len(s)
    BY <1>7 DEF l
  <2> QED BY <2>2, <2>4, <2>5
<1>9. Follows(Missed(h, g), b)
  <2>1. CASE b >= k
    <3>1. Missed(h, g) = << >>
      BY <2>1, <1>1, <1>4, <1>7, <1>8, FollowsEnds
    <3> QED BY <3>1, FollowsEmpty
  <2>2. CASE b < k
    <3>1. (k - l) + d = b
      BY <2>2, <1>1, <1>4
    <3> QED BY <3>1, <1>7, <1>8
  <2> QED BY <1>1, <2>1, <2>2
<1>10. k <= b => Missed(h, g) = << >>
  <2>1. k <= b => Len(Missed(h, g)) = 0
    BY <1>1, <1>4, <1>7, <1>8
  <2> QED BY <2>1, <1>9, <1>1, FollowsEnds
<1>11. k > b => b + Len(Missed(h, g)) = k
  BY <1>1, <1>4, <1>7, <1>8
<1> QED BY <1>9, <1>10, <1>11 DEF b, k


-----------------------------------------------------------------------------
(* What a step has to show *)

\* What fits a log fits every longer one.
LEMMA LogGrows ==
  ASSUME NEW n \in Nat, NEW m \in Nat, n <= m
  PROVE  /\ \A x : HubFits(x, n) => HubFits(x, m)
         /\ \A c : ConnFits(c, n) => ConnFits(c, m)
         /\ \A c : ClientFits(c, n) => ClientFits(c, m)
<1>1. ASSUME NEW x, HubFits(x, n) PROVE HubFits(x, m)
  <2>1. x.cursor \in Nat /\ Len(x.batch) \in Nat
    BY <1>1, LenProperties DEF HubFits, Hub
  <2> QED BY <1>1, <2>1 DEF HubFits
<1>2. ASSUME NEW c, ConnFits(c, n) PROVE ConnFits(c, m)
  <2>1. c.after \in Nat /\ c.covered \in Nat /\ c.subAfter \in Nat
    BY <1>2 DEF ConnFits, Conn
  <2>2. c.after <= m /\ c.covered <= m /\ c.subAfter <= m
    BY <1>2, <2>1 DEF ConnFits
  <2> QED BY <1>2, <2>2 DEF ConnFits
<1>3. ASSUME NEW c, ClientFits(c, n) PROVE ClientFits(c, m)
  BY <1>3 DEF ClientFits, Client
<1> QED BY <1>1, <1>2, <1>3

\* A step of the log alone.
LEMMA LogStep ==
  ASSUME StreamInv, LogFits', covered <= covered',
         UNCHANGED <<hub, current, conn, client>>
  PROVE  StreamInv'
<1>1. covered \in Nat /\ covered' \in Nat
  BY DEF StreamInv, LogFits
<1>2. \A g \in Hubs : HubFits(hub[g], covered)'
  BY <1>1, LogGrows DEF StreamInv
<1>3. \A k \in Clients : ClientFits(client[k], covered)'
  BY <1>1, LogGrows DEF StreamInv
<1>4. \A h \in Conns : ConnFits(conn[h], covered)'
  BY <1>1, LogGrows DEF StreamInv
<1>5. \A h \in Conns : Fed(conn[h])' /\ Heard(h)'
  BY DEF StreamInv, Fed, Heard, Listening
<1>6. Mapped'
  BY DEF StreamInv, Mapped
<1> QED BY <1>2, <1>3, <1>4, <1>5, <1>6 DEF StreamInv

\* A step of one handler, with what it tells clients and does to hubs.
LEMMA ServeStep ==
  ASSUME StreamInv, UNCHANGED db, NEW h \in Conns, NEW c, ConnFits(c, covered),
         conn' = [conn EXCEPT ![h] = c],
         hub' \in [Hubs -> Hub], \A g \in Hubs : HubFits(hub'[g], covered),
         Mapped', \A i \in Conns : Fed(conn[i])',
         client' \in [Clients -> Client],
         \A k \in Clients : /\ ClientFits(client'[k], covered)
                            /\ client'[k] = client[k] \/ client'[k].conn \in {None, h},
         c.owner # None /\ client'[c.owner].conn = h =>
           client'[c.owner].after = c.after
  PROVE  StreamInv'
<1>1. LogFits' /\ covered' = covered
  BY DEF StreamInv, LogFits, db
<1>2. conn \in [Conns -> Conn] /\ c \in Conn /\ conn' \in [Conns -> Conn]
  BY DEF StreamInv, ConnFits
<1>3. conn'[h] = c /\ \A i \in Conns \ {h} : conn'[i] = conn[i]
  BY <1>2
<1>4. \A i \in Conns : ConnFits(conn'[i], covered)
  BY <1>3 DEF StreamInv
<1>5. ASSUME NEW i \in Conns PROVE Heard(i)'
  <2>1. CASE i = h
    BY <2>1, <1>3 DEF Heard, Listening
  <2>2. CASE i # h
    <3> SUFFICES ASSUME Listening(i)'
                 PROVE  client'[conn'[i].owner].after = conn'[i].after
      BY DEF Heard
    <3>1. PICK k : k = conn[i].owner
      OBVIOUS
    <3>2. conn'[i] = conn[i] /\ k # None /\ client'[k].conn = i
      BY <1>3, <2>2, <3>1 DEF Listening
    <3>3. k \in Clients
      BY <1>2, <3>1, <3>2 DEF Conn
    <3>4. client'[k] = client[k]
      BY <2>2, <3>2, <3>3, StreamAssumption
    <3>5. Listening(i)
      BY <3>1, <3>2, <3>4 DEF Listening
    <3>6. client[k].after = conn[i].after
      BY <3>1, <3>5 DEF StreamInv, Heard
    <3> QED BY <3>1, <3>2, <3>4, <3>6
  <2> QED BY <2>1, <2>2
<1>6. \A i \in Conns : ConnFits(conn[i], covered)'
  BY <1>1, <1>4
<1>7. \A g \in Hubs : HubFits(hub[g], covered)'
  BY <1>1
<1>8. \A k \in Clients : ClientFits(client[k], covered)'
  BY <1>1
<1> QED BY <1>1, <1>2, <1>5, <1>6, <1>7, <1>8 DEF StreamInv

\* The map and the open subscriptions, when hubs stay as they are.
LEMMA FeedKept ==
  ASSUME StreamInv, UNCHANGED <<hub, current>>, NEW h \in Conns, NEW c,
         conn' = [conn EXCEPT ![h] = c], Fed(c)
  PROVE  Mapped' /\ \A i \in Conns : Fed(conn[i])'
<1>1. conn'[h] = c /\ \A i \in Conns \ {h} : conn'[i] = conn[i]
  BY DEF StreamInv
<1>2. \A i \in Conns : Fed(conn[i])'
  BY <1>1 DEF StreamInv, Fed
<1> QED BY <1>2 DEF StreamInv, Mapped

\* A step of one handler that its client does not notice.
LEMMA QuietStep ==
  ASSUME StreamInv, UNCHANGED <<db, hub, current, client>>, NEW h \in Conns, NEW c,
         conn' = [conn EXCEPT ![h] = c], ConnFits(c, covered), Fed(c),
         c.owner = conn[h].owner, c.after = conn[h].after
  PROVE  StreamInv'
<1>1. Mapped' /\ \A i \in Conns : Fed(conn[i])'
  BY FeedKept
<1>2. c.owner # None /\ client'[c.owner].conn = h =>
        client'[c.owner].after = c.after
  BY DEF StreamInv, Heard, Listening
<1>3. /\ hub' \in [Hubs -> Hub] /\ client' \in [Clients -> Client]
      /\ \A g \in Hubs : HubFits(hub'[g], covered)
      /\ \A k \in Clients : ClientFits(client'[k], covered) /\ client'[k] = client[k]
  BY DEF StreamInv
<1>4. UNCHANGED db
  OBVIOUS
<1> QED BY <1>1, <1>2, <1>3, <1>4, ServeStep

\* A step of one handler that changes the client it serves.
LEMMA TellStep ==
  ASSUME StreamInv, UNCHANGED <<db, hub, current>>, NEW h \in Conns, NEW c, NEW x,
         conn' = [conn EXCEPT ![h] = c], ConnFits(c, covered), Fed(c),
         Listening(h), client' = [client EXCEPT ![conn[h].owner] = x],
         ClientFits(x, covered), x.conn \in {None, h},
         c.owner \in {None, conn[h].owner}, x.conn = h => x.after = c.after
  PROVE  StreamInv'
<1>1. Mapped' /\ \A i \in Conns : Fed(conn[i])'
  BY FeedKept
<1>2. PICK k : k = conn[h].owner
  OBVIOUS
<1>3. k \in Clients /\ k # None
  BY <1>2 DEF StreamInv, Conn, Listening
<1>4. client \in [Clients -> Client] /\ x \in Client
  BY DEF StreamInv, ClientFits
<1>5. /\ client' \in [Clients -> Client] /\ client'[k] = x
      /\ \A j \in Clients \ {k} : client'[j] = client[j]
  BY <1>2, <1>3, <1>4
<1>6. /\ \A g \in Hubs : HubFits(hub'[g], covered)
      /\ \A j \in Clients : ClientFits(client'[j], covered)
      /\ hub' \in [Hubs -> Hub]
  BY <1>5 DEF StreamInv
<1>7. \A j \in Clients : client'[j] = client[j] \/ client'[j].conn \in {None, h}
  BY <1>5
<1>8. c.owner # None /\ client'[c.owner].conn = h =>
        client'[c.owner].after = c.after
  BY <1>2, <1>5, StreamAssumption
<1>9. UNCHANGED db
  OBVIOUS
<1> QED BY <1>1, <1>5, <1>6, <1>7, <1>8, <1>9, ServeStep


-----------------------------------------------------------------------------
(* The log and the clients *)

\* A new event, the terminal one included, only makes the log longer.
LEMMA AppendInv ==
  ASSUME StreamInv, AppendEvent \/ Finish \/ AppendReleased
  PROVE  StreamInv'
<1>1. /\ covered \in Nat /\ first \in Nat \ {0} /\ first <= covered + 1
      /\ stored = first..covered /\ fin \in 0..covered
  BY DEF StreamInv, LogFits
<1>2. /\ covered' = covered + 1 /\ stored' = stored \cup {covered + 1}
      /\ first' = first /\ (fin' = fin \/ fin' = covered + 1)
      /\ UNCHANGED <<hub, current, conn, client>>
  BY DEF AppendEvent, Finish, AppendReleased, appendEvent
<1>3. stored \cup {covered + 1} = first..(covered + 1)
  BY <1>1
<1>4. LogFits'
  BY <1>1, <1>2, <1>3 DEF LogFits
<1> QED BY <1>1, <1>2, <1>4, LogStep

\* TrimEvents moves the boundary of the log; a cursor behind it is reset.
LEMMA TrimInv ==
  ASSUME StreamInv, NEW keep \in KeepTails, TrimEvents(keep)
  PROVE  StreamInv'
<1>1. /\ covered \in Nat /\ first \in Nat \ {0} /\ first <= covered + 1
      /\ stored = first..covered /\ fin \in 0..covered
  BY DEF StreamInv, LogFits
<1>2. keep \in Nat \ {0}
  BY StreamAssumption
<1>3. PICK to : to = covered + 1 - keep
  OBVIOUS
<1>4. /\ first < to /\ first' = to /\ stored' = {s \in stored : s >= to}
      /\ UNCHANGED <<covered, fin, hub, current, conn, client>>
  BY <1>3 DEF TrimEvents
<1>5. to \in Nat \ {0} /\ to <= covered + 1
  BY <1>1, <1>2, <1>3, <1>4
<1>6. {s \in stored : s >= to} = to..covered
  BY <1>1, <1>4, <1>5
<1>7. LogFits'
  BY <1>1, <1>4, <1>5, <1>6 DEF LogFits
<1> QED BY <1>1, <1>4, <1>7, LogStep

\* A step of one client that leaves it without a connection.
LEMMA ClientStepInv ==
  ASSUME StreamInv, UNCHANGED <<db, hub, current, conn>>, NEW k \in Clients, NEW x,
         client' = [client EXCEPT ![k] = x], ClientFits(x, covered), x.conn = None
  PROVE  StreamInv'
<1>1. LogFits' /\ Mapped' /\ \A h \in Conns : Fed(conn[h])'
  BY DEF StreamInv, LogFits, db, Mapped, Fed
<1>2. /\ client \in [Clients -> Client] /\ x \in Client
      /\ conn \in [Conns -> Conn] /\ hub \in [Hubs -> Hub]
  BY DEF StreamInv, ClientFits
<1>3. /\ client' \in [Clients -> Client] /\ client'[k] = x
      /\ \A j \in Clients \ {k} : client'[j] = client[j]
  BY <1>2
<1>4. covered' = covered
  BY DEF db
<1>5. \A j \in Clients : ClientFits(client[j], covered)'
  BY <1>3, <1>4 DEF StreamInv
<1>6. \A g \in Hubs : HubFits(hub[g], covered)'
  BY <1>4 DEF StreamInv
<1>7. \A h \in Conns : ConnFits(conn[h], covered)'
  BY <1>4 DEF StreamInv
<1>8. ASSUME NEW h \in Conns PROVE Heard(h)'
  <2> SUFFICES ASSUME Listening(h)'
               PROVE  client'[conn'[h].owner].after = conn'[h].after
    BY DEF Heard
  <2>1. PICK j : j = conn[h].owner
    OBVIOUS
  <2>2. j # None /\ client'[j].conn = h /\ j \in Clients
    BY <1>2, <2>1 DEF Listening, Conn
  <2>3. j # k /\ client'[j] = client[j]
    BY <1>3, <2>2, StreamAssumption
  <2>4. client[j].after = conn[h].after
    BY <2>1, <2>2, <2>3 DEF StreamInv, Heard, Listening
  <2> QED BY <2>1, <2>3, <2>4
<1> QED BY <1>1, <1>2, <1>3, <1>5, <1>6, <1>7, <1>8 DEF StreamInv

\* The end of a request leaves a client that may connect again.
LEMMA ReconnectFits ==
  ASSUME NEW c \in Client, NEW n \in Nat, c.after <= n
  PROVE  ClientFits(Reconnect(c), n) /\ Reconnect(c).conn = None
<1>1. MaxReconnects \in Nat
  BY StreamAssumption
<1>2. /\ c.failures \in Nat /\ c.failures + 1 \in Nat
      /\ Reconnect(c).pc \in {"ready", "exhausted"} /\ Reconnect(c).conn = None
      /\ Reconnect(c).after = c.after
  BY DEF Reconnect, Client
<1>3. Reconnect(c) \in Client
  BY <1>1, <1>2 DEF Reconnect, Client
<1> QED BY <1>2, <1>3 DEF ClientFits

\* A connection that breaks leaves the client at the last event it got.
LEMMA CutInv ==
  ASSUME StreamInv, NEW k \in Clients, Cut(k)
  PROVE  StreamInv'
<1>1. client[k] \in Client /\ client[k].after <= covered /\ covered \in Nat
  BY DEF StreamInv, ClientFits, LogFits
<1>2. ClientFits(Reconnect(client[k]), covered) /\ Reconnect(client[k]).conn = None
  BY <1>1, ReconnectFits
<1>3. /\ client' = [client EXCEPT ![k] = Reconnect(client[k])]
      /\ UNCHANGED <<db, hub, current, conn>>
  BY <1>1 DEF Cut, StreamInv
<1> QED BY <1>2, <1>3, ClientStepInv

\* The client asks for the snapshot before it resumes.
LEMMA GetSnapshotInv ==
  ASSUME StreamInv, NEW k \in Clients, GetSnapshot(k)
  PROVE  StreamInv'
<1> DEFINE c == client[k]
           y == [c EXCEPT !.after = covered]
           z == [c EXCEPT !.after = covered, !.pc = "done"]
           x == IF fin # 0 THEN z ELSE Reconnect(y)
<1>1. /\ c \in Client /\ c.after <= covered /\ c.after \in Nat /\ covered \in Nat
      /\ c.conn = None
  BY DEF StreamInv, ClientFits, LogFits, GetSnapshot, Client
<1>2. /\ client' = [client EXCEPT ![k] = x]
      /\ UNCHANGED <<db, hub, current, conn>>
  <2>1. ~(covered < c.after)
    BY <1>1
  <2> QED BY <2>1 DEF GetSnapshot, StreamInv
<1>3. y \in Client /\ y.after = covered /\ z \in Client /\ z.after = covered
      /\ z.conn = None /\ z.pc = "done"
  BY <1>1 DEF Client
<1>4. ClientFits(z, covered)
  BY <1>1, <1>3 DEF ClientFits
<1>5. ClientFits(Reconnect(y), covered) /\ Reconnect(y).conn = None
  <2> HIDE DEF y
  <2> QED BY <1>1, <1>3, ReconnectFits
<1>6. ClientFits(x, covered) /\ x.conn = None
  <2> HIDE DEF y, z
  <2> QED BY <1>3, <1>4, <1>5
<1> HIDE DEF x
<1> QED BY <1>2, <1>6, ClientStepInv

\* A failed snapshot ends the watch.
LEMMA SnapshotFailsInv ==
  ASSUME StreamInv, NEW k \in Clients, SnapshotFails(k)
  PROVE  StreamInv'
<1> DEFINE x == [client[k] EXCEPT !.pc = "failed"]
<1>1. /\ client[k] \in Client /\ client[k].after <= covered /\ client[k].conn = None
      /\ client' = [client EXCEPT ![k] = x] /\ UNCHANGED <<db, hub, current, conn>>
  BY DEF StreamInv, ClientFits, SnapshotFails
<1>2. x \in Client /\ x.pc = "failed" /\ x.conn = None /\ x.after = client[k].after
  BY <1>1 DEF Client
<1> HIDE DEF x
<1>3. ClientFits(x, covered)
  BY <1>1, <1>2 DEF ClientFits
<1> QED BY <1>1, <1>2, <1>3, ClientStepInv

\* A handler starts at the cursor its client sends.
LEMMA ConnectInv ==
  ASSUME StreamInv, NEW k \in Clients, NEW h \in Conns, Connect(k, h)
  PROVE  StreamInv'
<1> DEFINE a == client[k].after
           x == [client[k] EXCEPT !.pc = "reading", !.conn = h, !.before = a]
           c == [FreeConn EXCEPT !.pc = "getrun", !.owner = k, !.after = a]
<1>1. /\ client \in [Clients -> Client] /\ client[k] \in Client
      /\ a \in Nat /\ a <= covered /\ covered \in Nat
  BY DEF StreamInv, ClientFits, LogFits, Client
<1>2. /\ conn' = [conn EXCEPT ![h] = c] /\ client' = [client EXCEPT ![k] = x]
      /\ UNCHANGED <<db, hub, current>> /\ conn[h].sub = None
  BY DEF Connect, StreamInv, ConnFits
<1>3. x \in Client /\ x.pc = "reading" /\ x.conn = h /\ x.after = a
  BY <1>1 DEF Client
<1>4. ClientFits(x, covered)
  BY <1>1, <1>3 DEF ClientFits
<1>5. /\ c \in Conn /\ c.pc = "getrun" /\ c.owner = k /\ c.after = a
      /\ c.covered = 0 /\ c.subAfter = 0 /\ c.queue = << >> /\ c.sub = None
      /\ c.open = FALSE
  BY <1>1, EmptySeq DEF Conn, FreeConn
<1>6. ConnFits(c, covered) /\ Fed(c)
  BY <1>1, <1>5, FollowsEmpty DEF ConnFits, Fed
<1> HIDE DEF x, c, a
<1>7. Mapped' /\ \A i \in Conns : Fed(conn[i])'
  BY <1>2, <1>6, FeedKept
<1>8. /\ client' \in [Clients -> Client] /\ client'[k] = x
      /\ \A j \in Clients \ {k} : client'[j] = client[j]
  BY <1>1, <1>2, <1>3
<1>9. /\ \A j \in Clients : /\ ClientFits(client'[j], covered)
                            /\ client'[j] = client[j] \/ client'[j].conn \in {None, h}
      /\ hub' \in [Hubs -> Hub] /\ \A g \in Hubs : HubFits(hub'[g], covered)
  BY <1>2, <1>3, <1>4, <1>8 DEF StreamInv
<1>10. client'[c.owner].after = c.after
  BY <1>3, <1>5, <1>8
<1> QED BY <1>2, <1>6, <1>7, <1>8, <1>9, <1>10, ServeStep


-----------------------------------------------------------------------------
(* The handler *)

\* A handler that ends holds nothing.
LEMMA FreeFits ==
  ASSUME covered \in Nat
  PROVE  /\ ConnFits(FreeConn, covered) /\ Fed(FreeConn) /\ FreeConn.owner = None
         /\ FreeConn.sub = None
<1>1. /\ FreeConn \in Conn /\ FreeConn.pc = "free" /\ FreeConn.owner = None
      /\ FreeConn.after = 0 /\ FreeConn.covered = 0 /\ FreeConn.subAfter = 0
      /\ FreeConn.queue = << >> /\ FreeConn.sub = None /\ FreeConn.open = FALSE
  BY EmptySeq DEF Conn, FreeConn
<1> QED BY <1>1, FollowsEmpty DEF ConnFits, Fed

\* A response that is not a stream leaves the client without a connection, and
\* never with an error of the protocol.
LEMMA RespondIs ==
  ASSUME StreamInv, NEW h \in Conns, NEW code \in {"gone", "busy", "error"},
         Respond(h, code), Listening(h)
  PROVE  \E x : /\ client' = [client EXCEPT ![conn[h].owner] = x]
                /\ ClientFits(x, covered) /\ x.conn = None
<1>1. PICK k : k = conn[h].owner
  OBVIOUS
<1>2. k \in Clients
  BY <1>1 DEF StreamInv, Conn, Listening
<1>3. /\ client[k] \in Client /\ client[k].after <= covered /\ covered \in Nat
      /\ client[k].after \in Nat
  BY <1>2 DEF StreamInv, ClientFits, LogFits, Client
<1>4. CASE code \in {"gone", "error"}
  <2> DEFINE p == IF code = "gone" THEN "gone" ELSE "failed"
             x == [client[k] EXCEPT !.pc = p, !.conn = None]
  <2>1. client' = [client EXCEPT ![k] = x]
    BY <1>1, <1>2, <1>4 DEF Respond, StreamInv
  <2>2. x \in Client /\ x.pc \in {"gone", "failed"} /\ x.conn = None /\ x.after = client[k].after
    BY <1>3 DEF Client
  <2>3. ClientFits(x, covered)
    BY <1>3, <2>2 DEF ClientFits
  <2> HIDE DEF x
  <2> QED BY <1>1, <2>1, <2>2, <2>3
<1>5. CASE code = "busy"
  <2>1. client' = [client EXCEPT ![k] = Reconnect(client[k])]
    BY <1>1, <1>2, <1>5 DEF Respond, StreamInv
  <2>2. /\ ClientFits(Reconnect(client[k]), covered)
        /\ Reconnect(client[k]).conn = None
    BY <1>3, ReconnectFits
  <2> QED BY <1>1, <2>1, <2>2
<1> QED BY <1>4, <1>5

\* A handler that answers with a status sends no event.
LEMMA RefuseInv ==
  ASSUME StreamInv, UNCHANGED <<db, hub, current>>, NEW h \in Conns,
         NEW code \in {"gone", "busy", "error"},
         conn[h].pc \in {"getrun", "join", "enter"},
         Refuse(h, code)
  PROVE  StreamInv'
<1>1. /\ conn' = [conn EXCEPT ![h] = FreeConn] /\ Respond(h, code)
      /\ conn[h].sub = None /\ covered \in Nat
  BY DEF Refuse, StreamInv, ConnFits, LogFits
<1>2. /\ ConnFits(FreeConn, covered) /\ Fed(FreeConn) /\ FreeConn.owner = None
  BY <1>1, FreeFits
<1>3. CASE Listening(h)
  <2>1. PICK x : /\ client' = [client EXCEPT ![conn[h].owner] = x]
                 /\ ClientFits(x, covered) /\ x.conn = None
    BY <1>1, <1>3, RespondIs
  <2>2. x.conn # h
    BY <2>1, StreamAssumption
  <2> HIDE DEF FreeConn
  <2> QED BY <1>1, <1>2, <1>3, <2>1, <2>2, TellStep
<1>4. CASE ~Listening(h)
  <2>1. Mapped' /\ \A i \in Conns : Fed(conn[i])'
    BY <1>1, <1>2, FeedKept
  <2>2. client' = client
    BY <1>1, <1>4 DEF Respond
  <2>3. /\ hub' \in [Hubs -> Hub] /\ client' \in [Clients -> Client]
        /\ \A g \in Hubs : HubFits(hub'[g], covered)
        /\ \A k \in Clients : ClientFits(client'[k], covered) /\ client'[k] = client[k]
    BY <2>2 DEF StreamInv
  <2>4. UNCHANGED db
    OBVIOUS
  <2> QED BY <1>1, <1>2, <2>1, <2>3, <2>4, ServeStep
<1> QED BY <1>3, <1>4

\* Subscribe reads the run and finds out where its log ends.
LEMMA SubscribeReadInv ==
  ASSUME StreamInv, NEW h \in Conns, SubscribeRead(h)
  PROVE  StreamInv'
<1>1. /\ ConnFits(conn[h], covered) /\ conn[h] \in Conn /\ conn[h].pc = "getrun"
      /\ covered \in Nat /\ conn[h].after \in Nat /\ conn[h].after <= covered
      /\ UNCHANGED <<db, hub, current>>
  BY DEF StreamInv, ConnFits, Conn, LogFits, SubscribeRead
<1>2. CASE Refuse(h, "gone")
  BY <1>1, <1>2, RefuseInv
<1>3. CASE /\ conn' = [conn EXCEPT ![h].pc = "join", ![h].covered = covered]
           /\ UNCHANGED client
  <2> DEFINE c == [conn[h] EXCEPT !.pc = "join", !.covered = covered]
  <2>1. conn' = [conn EXCEPT ![h] = c]
    BY <1>3 DEF StreamInv
  <2>2. /\ c \in Conn /\ c.pc = "join" /\ c.covered = covered
        /\ c.owner = conn[h].owner /\ c.after = conn[h].after
        /\ c.sub = conn[h].sub /\ c.open = conn[h].open
        /\ c.subAfter = conn[h].subAfter /\ c.queue = conn[h].queue
    BY <1>1 DEF Conn
  <2>3. conn[h].sub = None /\ ~conn[h].open
    BY <1>1 DEF ConnFits
  <2> HIDE DEF c
  <2>4. ConnFits(c, covered) /\ Fed(c)
    BY <1>1, <2>2, <2>3 DEF ConnFits, Fed
  <2> QED BY <1>1, <1>3, <2>1, <2>2, <2>4, QuietStep
<1>4. ~(conn[h].after > covered)
  BY <1>1
<1> QED BY <1>2, <1>3, <1>4 DEF SubscribeRead

\* A subscriber of a hub that runs: what it missed is in its channel.
LEMMA SubscribeJoinInv ==
  ASSUME StreamInv, NEW h \in Conns, SubscribeJoin(h)
  PROVE  StreamInv'
<1>1. PICK g, s, l : g = current /\ s = Missed(h, g) /\ l = Len(s)
  OBVIOUS
<1>2. /\ ConnFits(conn[h], covered) /\ conn[h] \in Conn /\ conn[h].pc \in {"join", "enter"}
      /\ covered \in Nat /\ conn[h].covered \in Nat /\ conn[h].covered <= covered
      /\ conn[h].after <= conn[h].covered /\ conn[h].sub = None
      /\ UNCHANGED <<db, hub, current>>
  BY DEF StreamInv, ConnFits, Conn, LogFits, SubscribeJoin
<1>3. /\ g \in Hubs /\ HubFits(hub[g], covered) /\ hub[g].pc # "free"
      /\ hub[g].cursor \in Nat /\ hub[g].cursor <= covered
  BY <1>1 DEF StreamInv, Mapped, SubscribeJoin, HubFits, Hub
<1>4. CASE Refuse(h, "busy") \/ Refuse(h, "gone")
  BY <1>2, <1>4, RefuseInv
<1>5. CASE /\ ~Forgotten(h, g)
           /\ conn' = [conn EXCEPT ![h].pc = "replay", ![h].sub = g,
                         ![h].open = TRUE, ![h].queue = s,
                         ![h].subAfter = IF s = << >> THEN conn[h].covered ELSE s[l]]
           /\ UNCHANGED client
  <2> DEFINE b == IF s = << >> THEN conn[h].covered ELSE s[l]
             c == [conn[h] EXCEPT !.pc = "replay", !.sub = g, !.open = TRUE,
                                  !.queue = s, !.subAfter = b]
  <2>1. /\ Follows(s, conn[h].covered)
        /\ hub[g].cursor <= conn[h].covered => s = << >>
        /\ hub[g].cursor > conn[h].covered => conn[h].covered + l = hub[g].cursor
    BY <1>1, <1>2, <1>3, <1>5, MissedIs
  <2>2. l \in Nat /\ s \in Seq(Nat) /\ (s = << >> <=> l = 0)
        /\ (s # << >> => s[l] = conn[h].covered + l)
    BY <1>1, <1>2, <2>1, FollowsEnds DEF Follows
  <2>3. b = conn[h].covered + l /\ b \in Nat
    BY <1>2, <2>2
  <2>4. hub[g].cursor <= b /\ b <= covered
    BY <1>2, <1>3, <2>1, <2>2, <2>3
  <2>5. conn' = [conn EXCEPT ![h] = c]
    BY <1>5 DEF StreamInv
  <2> HIDE DEF b
  <2>6. /\ c \in Conn /\ c.pc = "replay" /\ c.covered = conn[h].covered
        /\ c.owner = conn[h].owner /\ c.after = conn[h].after
        /\ c.sub = g /\ c.open = TRUE /\ c.subAfter = b /\ c.queue = s
    BY <1>2, <1>3, <2>2, <2>3 DEF Conn
  <2> HIDE DEF c
  <2>7. b - l = conn[h].covered /\ l <= b /\ l = Len(c.queue)
    BY <1>1, <1>2, <2>2, <2>3, <2>6
  <2>8. c.after <= covered
    BY <1>2, <2>6 DEF Conn
  <2>9. ConnFits(c, covered) /\ Fed(c)
    BY <1>2, <1>3, <2>1, <2>4, <2>6, <2>7, <2>8 DEF ConnFits, Fed
  <2> QED BY <1>2, <1>5, <2>5, <2>6, <2>9, QuietStep
<1> QED BY <1>1, <1>4, <1>5 DEF SubscribeJoin


\* The first subscriber starts the hub at its own cursor, to join it later.
LEMMA SubscribeNewInv ==
  ASSUME StreamInv, NEW h \in Conns, SubscribeNew(h)
  PROVE  StreamInv'
<1>1. /\ ConnFits(conn[h], covered) /\ conn[h] \in Conn /\ conn[h].pc = "join"
      /\ covered \in Nat /\ conn[h].covered \in Nat /\ conn[h].covered <= covered
      /\ UNCHANGED db
  BY DEF StreamInv, ConnFits, Conn, LogFits, SubscribeNew
<1>2. CASE Refuse(h, "busy") /\ UNCHANGED <<hub, current>>
  BY <1>1, <1>2, RefuseInv
<1>3. CASE ~(Refuse(h, "busy") /\ UNCHANGED <<hub, current>>)
  <2> DEFINE n == conn[h].covered
             x == [FreeHub EXCEPT !.pc = "idle", !.cursor = n]
             c == [conn[h] EXCEPT !.pc = "enter"]
  <2>1. PICK g \in Unused :
          /\ current' = g /\ hub' = [hub EXCEPT ![g] = x]
          /\ conn' = [conn EXCEPT ![h].pc = "enter"]
          /\ UNCHANGED client
    BY <1>3 DEF SubscribeNew
  <2>2. g \in Hubs /\ \A i \in Conns : conn[i].sub # g
    BY DEF Unused
  <2>3. conn' = [conn EXCEPT ![h] = c]
    BY <2>1 DEF StreamInv
  <2>4. /\ c \in Conn /\ c.pc = "enter" /\ c.covered = n
        /\ c.owner = conn[h].owner /\ c.after = conn[h].after
        /\ c.sub = conn[h].sub /\ c.open = conn[h].open
        /\ c.subAfter = conn[h].subAfter /\ c.queue = conn[h].queue
    BY <1>1 DEF Conn
  <2>5. /\ x \in Hub /\ x.pc = "idle" /\ x.cursor = n /\ x.history = << >>
        /\ x.batch = << >>
    BY <1>1, EmptySeq DEF Hub, FreeHub
  <2> HIDE DEF c, x
  <2>6. ConnFits(c, covered)
    BY <1>1, <2>4 DEF ConnFits
  <2>7. HubFits(x, covered)
    BY <1>1, <2>5, FollowsEmpty DEF HubFits
  <2>8. /\ hub' \in [Hubs -> Hub] /\ hub'[g] = x
        /\ \A f \in Hubs \ {g} : hub'[f] = hub[f]
    BY <2>1, <2>2, <2>5 DEF StreamInv
  <2>9. \A f \in Hubs : HubFits(hub'[f], covered)
    BY <2>7, <2>8 DEF StreamInv
  <2>10. conn'[h] = c /\ \A i \in Conns \ {h} : conn'[i] = conn[i]
    BY <2>3 DEF StreamInv
  <2>11. Mapped'
    BY <2>1, <2>2, <2>5, <2>8 DEF Mapped
  <2>12. ASSUME NEW i \in Conns PROVE Fed(conn[i])'
    <3>1. conn[i].open => conn[i].sub \in Hubs \ {g}
      BY <2>2 DEF StreamInv, ConnFits
    <3>2. conn'[i].open = conn[i].open /\ conn'[i].sub = conn[i].sub
          /\ conn'[i].subAfter = conn[i].subAfter
      BY <2>4, <2>10
    <3> QED BY <3>1, <3>2, <2>8 DEF StreamInv, Fed
  <2>13. c.owner # None /\ client'[c.owner].conn = h =>
           client'[c.owner].after = c.after
    BY <2>1, <2>4 DEF StreamInv, Heard, Listening
  <2>14. /\ client' \in [Clients -> Client]
         /\ \A k \in Clients : ClientFits(client'[k], covered) /\ client'[k] = client[k]
    BY <2>1 DEF StreamInv
  <2> QED BY <1>1, <2>3, <2>6, <2>8, <2>9, <2>11, <2>12, <2>13, <2>14, ServeStep
<1> QED BY <1>2, <1>3

\* A handler on its way out.
LEMMA ClosingInv ==
  ASSUME StreamInv, UNCHANGED <<db, hub, current, client>>, NEW h \in Conns,
         conn[h].pc \in {"replay", "live"},
         conn' = [conn EXCEPT ![h].pc = "closing"]
  PROVE  StreamInv'
<1> DEFINE c == [conn[h] EXCEPT !.pc = "closing"]
<1>1. ConnFits(conn[h], covered) /\ conn[h] \in Conn /\ Fed(conn[h])
  BY DEF StreamInv, ConnFits
<1>2. conn' = [conn EXCEPT ![h] = c]
  BY DEF StreamInv
<1>3. /\ c \in Conn /\ c.pc = "closing" /\ c.covered = conn[h].covered
      /\ c.owner = conn[h].owner /\ c.after = conn[h].after
      /\ c.sub = conn[h].sub /\ c.open = conn[h].open
      /\ c.subAfter = conn[h].subAfter /\ c.queue = conn[h].queue
  BY <1>1 DEF Conn
<1> HIDE DEF c
<1>4. ConnFits(c, covered) /\ Fed(c)
  BY <1>1, <1>3 DEF ConnFits, Fed
<1> QED BY <1>2, <1>3, <1>4, QuietStep

\* It tells a client that has got nothing yet that its cursor is gone, or that
\* the query failed.
LEMMA GoneInv ==
  ASSUME StreamInv, UNCHANGED <<db, hub, current>>, NEW h \in Conns,
         NEW code \in {"gone", "error"},
         conn[h].pc \in {"replay", "live"},
         conn' = [conn EXCEPT ![h].pc = "closing"],
         UNCHANGED client \/ Respond(h, code)
  PROVE  StreamInv'
<1>1. CASE UNCHANGED client
  BY <1>1, ClosingInv
<1>2. CASE Listening(h) /\ Respond(h, code)
  <2> DEFINE c == [conn[h] EXCEPT !.pc = "closing"]
  <2>1. ConnFits(conn[h], covered) /\ conn[h] \in Conn /\ Fed(conn[h])
    BY DEF StreamInv, ConnFits
  <2>2. conn' = [conn EXCEPT ![h] = c]
    BY DEF StreamInv
  <2>3. /\ c \in Conn /\ c.pc = "closing" /\ c.covered = conn[h].covered
        /\ c.owner = conn[h].owner /\ c.after = conn[h].after
        /\ c.sub = conn[h].sub /\ c.open = conn[h].open
        /\ c.subAfter = conn[h].subAfter /\ c.queue = conn[h].queue
    BY <2>1 DEF Conn
  <2> HIDE DEF c
  <2>4. ConnFits(c, covered) /\ Fed(c)
    BY <2>1, <2>3 DEF ConnFits, Fed
  <2>5. PICK x : /\ client' = [client EXCEPT ![conn[h].owner] = x]
                 /\ ClientFits(x, covered) /\ x.conn = None
    BY <1>2, RespondIs
  <2>6. x.conn # h
    BY <2>5, StreamAssumption
  <2> QED BY <1>2, <2>2, <2>3, <2>4, <2>5, <2>6, TellStep
<1> QED BY <1>1, <1>2 DEF Respond

\* The next event written: the handler and its client move on together.
LEMMA WriteInv ==
  ASSUME StreamInv, UNCHANGED <<db, hub, current>>, NEW h \in Conns, NEW seq, NEW rest,
         Listening(h), Write(h, seq, rest), seq = conn[h].after + 1, seq <= covered,
         \/ conn[h].pc = "replay" /\ seq <= conn[h].covered /\ rest = conn[h].queue
         \/ /\ conn[h].pc = "live" /\ Len(rest) <= conn[h].subAfter
            /\ Follows(rest, conn[h].subAfter - Len(rest))
            /\ conn[h].subAfter - Len(rest) <= seq
  PROVE  StreamInv'
<1> DEFINE p == IF seq = fin THEN "closing" ELSE conn[h].pc
           c == [conn[h] EXCEPT !.after = seq, !.written = TRUE, !.queue = rest,
                                !.pc = p]
<1>1. /\ ConnFits(conn[h], covered) /\ conn[h] \in Conn /\ Fed(conn[h])
      /\ conn[h].after \in Nat /\ seq \in Nat /\ covered \in Nat
  BY DEF StreamInv, ConnFits, LogFits, Conn
<1>2. conn' = [conn EXCEPT ![h] = c]
  BY DEF Write, StreamInv
<1>3. rest \in Seq(Nat)
  BY <1>1 DEF Follows, Conn
<1>4. p \in {"closing", conn[h].pc} /\ p \in {"replay", "live", "closing"}
  OBVIOUS
<1> HIDE DEF p
<1>5. /\ c \in Conn /\ c.pc = p /\ c.covered = conn[h].covered
      /\ c.owner = conn[h].owner /\ c.after = seq
      /\ c.sub = conn[h].sub /\ c.open = conn[h].open
      /\ c.subAfter = conn[h].subAfter /\ c.queue = rest
  BY <1>1, <1>3, <1>4 DEF Conn
<1> HIDE DEF c
<1>6. Len(rest) <= c.subAfter /\ Follows(rest, c.subAfter - Len(rest))
  BY <1>1, <1>5 DEF ConnFits
<1>7. /\ p = "replay" => seq <= c.covered /\ c.subAfter - Len(rest) = c.covered
      /\ p = "live" => c.subAfter - Len(rest) <= seq
  BY <1>1, <1>4, <1>5 DEF ConnFits
<1>8. ConnFits(c, covered) /\ Fed(c)
  BY <1>1, <1>4, <1>5, <1>6, <1>7 DEF ConnFits, Fed
<1>9. PICK k : k = conn[h].owner
  OBVIOUS
<1>10. /\ k \in Clients /\ client[k].conn = h /\ client[k] \in Client
       /\ client[k].after = conn[h].after /\ client[k].pc = "reading"
  BY <1>9, StreamAssumption DEF StreamInv, Conn, Listening, Heard, ClientFits
<1> DEFINE x == IF seq = fin
                THEN [client[k] EXCEPT !.after = seq, !.pc = "done", !.conn = None]
                ELSE [client[k] EXCEPT !.after = seq]
<1>11. client' = [client EXCEPT ![k] = x]
  <2>1. dispatch(client[k], seq) = x
    BY <1>1, <1>10 DEF dispatch
  <2> QED BY <1>9, <1>10, <2>1 DEF Write, StreamInv
<1>12. /\ x \in Client /\ x.after = seq /\ x.conn \in {None, h}
       /\ x.pc \in {"done", "reading"} /\ (x.pc = "done" => x.conn = None)
  BY <1>1, <1>10 DEF Client
<1> HIDE DEF x
<1>13. ClientFits(x, covered)
  BY <1>12 DEF ClientFits
<1> QED BY <1>2, <1>5, <1>8, <1>9, <1>11, <1>12, <1>13, TellStep

\* The handler writes one event of the log after its cursor.
LEMMA ReplayInv ==
  ASSUME StreamInv, NEW h \in Conns, Replay(h)
  PROVE  StreamInv'
<1>1. PICK c, page : c = conn[h] /\ page = Page(c.after, 1)
  OBVIOUS
<1>2. /\ c.pc = "replay" /\ c.after \in Nat /\ c.covered \in Nat /\ c.after < c.covered
      /\ c.covered <= covered /\ covered \in Nat /\ Listening(h)
      /\ UNCHANGED <<db, hub, current>>
  BY <1>1 DEF Replay, StreamInv, ConnFits, Conn, LogFits
<1>3. CASE Reset(c.after)
  BY <1>1, <1>2, <1>3, GoneInv DEF Replay
<1>4. CASE ~Reset(c.after)
  <2>1. Follows(page, c.after) /\ page # << >>
    BY <1>1, <1>2, <1>4, PageIs DEF StreamInv
  <2>2. Head(page) = c.after + 1
    BY <1>2, <2>1, FollowsEnds
  <2>3. Write(h, Head(page), c.queue)
    BY <1>1, <1>4, <2>2 DEF Replay
  <2>4. c.after + 1 <= covered /\ c.after + 1 <= c.covered
    BY <1>2
  <2> QED BY <1>1, <1>2, <2>2, <2>3, <2>4, WriteInv
<1> QED BY <1>3, <1>4

\* The replay is done, and what is in the channel follows it.
LEMMA ConnectedInv ==
  ASSUME StreamInv, NEW h \in Conns, Connected(h)
  PROVE  StreamInv'
<1> DEFINE c == [conn[h] EXCEPT !.pc = "live"]
<1>1. ConnFits(conn[h], covered) /\ conn[h] \in Conn /\ Fed(conn[h])
  BY DEF StreamInv, ConnFits
<1>2. conn' = [conn EXCEPT ![h] = c] /\ UNCHANGED <<db, hub, current, client>>
      /\ conn[h].pc = "replay" /\ conn[h].after >= conn[h].covered
  BY DEF StreamInv, Connected
<1>3. /\ c \in Conn /\ c.pc = "live" /\ c.covered = conn[h].covered
      /\ c.owner = conn[h].owner /\ c.after = conn[h].after
      /\ c.sub = conn[h].sub /\ c.open = conn[h].open
      /\ c.subAfter = conn[h].subAfter /\ c.queue = conn[h].queue
  BY <1>1 DEF Conn
<1> HIDE DEF c
<1>4. c.subAfter - Len(c.queue) <= c.after
  BY <1>1, <1>2, <1>3 DEF ConnFits, Conn
<1>5. ConnFits(c, covered) /\ Fed(c)
  BY <1>1, <1>2, <1>3, <1>4 DEF ConnFits, Fed
<1> QED BY <1>2, <1>3, <1>5, QuietStep

\* The handler writes or skips the first event of its channel.
LEMMA FollowInv ==
  ASSUME StreamInv, NEW h \in Conns, Follow(h)
  PROVE  StreamInv'
<1>1. PICK q, n : q = conn[h].queue /\ n = conn[h].subAfter - Len(q)
  OBVIOUS
<1>2. /\ ConnFits(conn[h], covered) /\ conn[h] \in Conn /\ Fed(conn[h])
      /\ conn[h].pc = "live" /\ q # << >> /\ Listening(h)
      /\ UNCHANGED <<db, hub, current>>
  BY <1>1 DEF StreamInv, ConnFits, Follow
<1>3. /\ conn[h].after \in Nat /\ conn[h].subAfter \in Nat /\ q \in Seq(Nat)
      /\ Len(q) \in Nat /\ Len(q) <= conn[h].subAfter /\ Follows(q, n)
      /\ n <= conn[h].after /\ conn[h].subAfter <= covered /\ covered \in Nat
  BY <1>1, <1>2, LenProperties DEF ConnFits, Conn, StreamInv, LogFits
<1>4. n \in Nat
  BY <1>1, <1>3
<1>5. /\ Head(q) = n + 1 /\ Follows(Tail(q), n + 1) /\ Len(Tail(q)) = Len(q) - 1
      /\ Len(q) > 0
  BY <1>2, <1>3, <1>4, FollowsTail, FollowsEnds
<1>6. /\ conn[h].subAfter - Len(Tail(q)) = n + 1 /\ Len(Tail(q)) <= conn[h].subAfter
      /\ n + 1 <= covered
  BY <1>1, <1>3, <1>5
<1>7. CASE Head(q) > conn[h].after
  <2>1. Head(q) = conn[h].after + 1
    BY <1>3, <1>4, <1>5, <1>7
  <2>2. Write(h, Head(q), Tail(q))
    BY <1>1, <1>7 DEF Follow
  <2>3. /\ Len(Tail(q)) <= conn[h].subAfter
        /\ Follows(Tail(q), conn[h].subAfter - Len(Tail(q)))
        /\ conn[h].subAfter - Len(Tail(q)) <= Head(q) /\ Head(q) <= covered
    BY <1>4, <1>5, <1>6
  <2> QED BY <1>2, <2>1, <2>2, <2>3, WriteInv
<1>8. CASE ~(Head(q) > conn[h].after)
  <2> DEFINE t == Tail(q)
             c == [conn[h] EXCEPT !.queue = t]
  <2>1. conn' = [conn EXCEPT ![h] = c] /\ UNCHANGED client
    BY <1>1, <1>8 DEF Follow, StreamInv
  <2>2. t \in Seq(Nat)
    BY <1>5 DEF Follows
  <2> HIDE DEF t
  <2>3. /\ c \in Conn /\ c.pc = "live" /\ c.covered = conn[h].covered
        /\ c.owner = conn[h].owner /\ c.after = conn[h].after
        /\ c.sub = conn[h].sub /\ c.open = conn[h].open
        /\ c.subAfter = conn[h].subAfter /\ c.queue = t
    BY <1>2, <2>2 DEF Conn
  <2> HIDE DEF c
  <2>4. /\ Len(c.queue) <= c.subAfter
        /\ Follows(c.queue, c.subAfter - Len(c.queue))
        /\ c.subAfter - Len(c.queue) <= c.after
    BY <1>3, <1>4, <1>5, <1>6, <1>8, <2>3 DEF t
  <2>5. ConnFits(c, covered) /\ Fed(c)
    BY <1>2, <2>3, <2>4 DEF ConnFits, Fed
  <2> QED BY <1>2, <2>1, <2>3, <2>5, QuietStep
<1> QED BY <1>7, <1>8

\* A handler that is dropped, abandoned or fails writes nothing more.
LEMMA LeaveInv ==
  ASSUME StreamInv, NEW h \in Conns, Dropped(h) \/ Abandoned(h) \/ HandlerFails(h)
  PROVE  StreamInv'
BY ClosingInv DEF Dropped, Abandoned, HandlerFails

\* A failed query is answered with an error, or ends the stream.
LEMMA QueryFailsInv ==
  ASSUME StreamInv, NEW h \in Conns, QueryFails(h)
  PROVE  StreamInv'
<1>1. UNCHANGED <<db, hub, current>>
  BY DEF QueryFails
<1>2. CASE conn[h].pc = "getrun" /\ Refuse(h, "error")
  BY <1>1, <1>2, RefuseInv
<1>3. CASE /\ conn[h].pc = "replay" /\ Respond(h, "error")
           /\ conn' = [conn EXCEPT ![h].pc = "closing"]
  BY <1>1, <1>3, GoneInv
<1> QED BY <1>2, <1>3 DEF QueryFails


\* Close takes the subscriber off its hub, the last one the hub off the map.
LEMMA CloseSubInv ==
  ASSUME StreamInv, NEW h \in Conns, CloseSub(h)
  PROVE  StreamInv'
<1>1. PICK g : g = conn[h].sub
  OBVIOUS
<1>2. /\ conn' = [conn EXCEPT ![h] = FreeConn] /\ UNCHANGED db
      /\ conn[h].pc = "closing" /\ g \in Hubs /\ covered \in Nat
  BY <1>1 DEF CloseSub, StreamInv, ConnFits, LogFits
<1>3. /\ ConnFits(FreeConn, covered) /\ Fed(FreeConn) /\ FreeConn.owner = None
      /\ FreeConn.sub = None /\ FreeConn.open = FALSE
  BY <1>2, FreeFits DEF FreeConn
<1>4. conn'[h] = FreeConn /\ \A i \in Conns \ {h} : conn'[i] = conn[i]
  BY <1>2 DEF StreamInv
<1> HIDE DEF FreeConn
<1>5. /\ hub' \in [Hubs -> Hub] /\ \A f \in Hubs : HubFits(hub'[f], covered)
      /\ Mapped' /\ \A i \in Conns : Fed(conn[i])'
  <2>1. CASE Subscribers(g) \ {h} = {} /\ current = g
    <3>1. current' = None /\ hub' = [hub EXCEPT ![g] = FreeHub]
      BY <1>1, <2>1 DEF CloseSub
    <3>2. FreeHub \in Hub /\ HubFits(FreeHub, covered)
      <4>1. /\ FreeHub \in Hub /\ FreeHub.cursor = 0 /\ FreeHub.pc = "free"
            /\ FreeHub.history = << >> /\ FreeHub.batch = << >>
        BY EmptySeq DEF FreeHub, Hub
      <4> QED BY <1>2, <4>1, FollowsEmpty DEF HubFits
    <3>3. /\ hub' \in [Hubs -> Hub] /\ hub'[g] = FreeHub
          /\ \A f \in Hubs \ {g} : hub'[f] = hub[f]
      BY <1>2, <3>1, <3>2 DEF StreamInv
    <3>4. \A i \in Conns : conn'[i].open => conn'[i].sub \in Hubs \ {g}
      BY <1>3, <1>4, <2>1 DEF StreamInv, ConnFits, Subscribers
    <3>5. \A i \in Conns : Fed(conn[i])'
      BY <1>3, <1>4, <3>3, <3>4 DEF StreamInv, Fed
    <3> QED BY <3>1, <3>2, <3>3, <3>5 DEF StreamInv, Mapped
  <2>2. CASE ~(Subscribers(g) \ {h} = {} /\ current = g)
    <3>1. UNCHANGED <<current, hub>>
      BY <1>1, <2>2 DEF CloseSub
    <3>2. \A i \in Conns : Fed(conn[i])'
      BY <1>3, <1>4, <3>1 DEF StreamInv, Fed
    <3> QED BY <3>1, <3>2 DEF StreamInv, Mapped
  <2> QED BY <2>1, <2>2
<1>6. /\ client' \in [Clients -> Client]
      /\ \A k \in Clients : /\ ClientFits(client'[k], covered)
                            /\ client'[k] = client[k] \/ client'[k].conn = None
  <2>1. CASE Listening(h)
    <3>1. PICK k : k = conn[h].owner
      OBVIOUS
    <3>2. k \in Clients
      BY <2>1, <3>1 DEF StreamInv, Conn, Listening
    <3>3. client[k] \in Client /\ client[k].after <= covered
      BY <3>2 DEF StreamInv, ClientFits
    <3>4. /\ ClientFits(Reconnect(client[k]), covered)
          /\ Reconnect(client[k]).conn = None
      BY <1>2, <3>3, ReconnectFits
    <3>5. client' = [client EXCEPT ![k] = Reconnect(client[k])]
      BY <2>1, <3>1, <3>2 DEF CloseSub, StreamInv
    <3>6. Reconnect(client[k]) \in Client
      BY <3>4 DEF ClientFits
    <3> QED BY <3>2, <3>4, <3>5, <3>6 DEF StreamInv
  <2>2. CASE ~Listening(h)
    BY <2>2 DEF CloseSub, StreamInv
  <2> QED BY <2>1, <2>2
<1> QED BY <1>2, <1>3, <1>5, <1>6, ServeStep

-----------------------------------------------------------------------------
(* The hub *)

\* A step of a hub: what it does to channels, its handlers do not notice yet.
LEMMA FeedStep ==
  ASSUME StreamInv, UNCHANGED <<db, client>>,
         hub' \in [Hubs -> Hub], \A g \in Hubs : HubFits(hub'[g], covered),
         conn' \in [Conns -> Conn], Mapped',
         \A h \in Conns : /\ ConnFits(conn'[h], covered) /\ Fed(conn[h])'
                          /\ conn'[h].owner = conn[h].owner
                          /\ conn'[h].after = conn[h].after
  PROVE  StreamInv'
<1>1. LogFits' /\ covered' = covered /\ UNCHANGED client
  BY DEF StreamInv, LogFits, db
<1>2. \A h \in Conns : ConnFits(conn[h], covered)'
  BY <1>1
<1>3. \A g \in Hubs : HubFits(hub[g], covered)'
  BY <1>1
<1>4. \A k \in Clients : ClientFits(client[k], covered)'
  BY <1>1 DEF StreamInv
<1>5. \A h \in Conns : Heard(h)'
  BY <1>1 DEF StreamInv, Heard, Listening
<1> QED BY <1>1, <1>2, <1>3, <1>4, <1>5 DEF StreamInv

\* A step of a hub on its own, which does not end it.
LEMMA HubAlone ==
  ASSUME StreamInv, UNCHANGED <<db, current, conn, client>>, NEW g \in Hubs, NEW x,
         hub' = [hub EXCEPT ![g] = x], HubFits(x, covered),
         x.cursor = hub[g].cursor, x.pc # "free"
  PROVE  StreamInv'
<1>1. /\ hub' \in [Hubs -> Hub] /\ hub'[g] = x
      /\ \A f \in Hubs \ {g} : hub'[f] = hub[f]
  BY DEF StreamInv, HubFits
<1>2. \A f \in Hubs : HubFits(hub'[f], covered)
  BY <1>1 DEF StreamInv
<1>3. Mapped'
  BY <1>1 DEF StreamInv, Mapped
<1>4. ASSUME NEW h \in Conns PROVE Fed(conn[h])'
  <2>1. conn[h].open => conn[h].sub \in Hubs
    BY DEF StreamInv, ConnFits
  <2> QED BY <1>1, <2>1 DEF StreamInv, Fed
<1>5. /\ conn' \in [Conns -> Conn] /\ \A h \in Conns : ConnFits(conn'[h], covered)
      /\ UNCHANGED <<db, client>> /\ conn' = conn
  BY DEF StreamInv
<1> QED BY <1>1, <1>2, <1>3, <1>4, <1>5, FeedStep

\* The hub reads a page of the log after its cursor.
LEMMA PollInv ==
  ASSUME StreamInv, NEW g \in Hubs, Poll(g)
  PROVE  StreamInv'
<1>1. /\ HubFits(hub[g], covered) /\ hub[g] \in Hub /\ hub[g].cursor \in Nat
      /\ hub[g].cursor <= covered /\ LogFits /\ UNCHANGED <<db, current, conn, client>>
  BY DEF StreamInv, HubFits, Hub, Poll
<1>2. CASE Reset(hub[g].cursor)
  <2> DEFINE x == [hub[g] EXCEPT !.pc = "retire"]
  <2>1. hub' = [hub EXCEPT ![g] = x]
    BY <1>2 DEF Poll, StreamInv
  <2>2. /\ x \in Hub /\ x.pc = "retire" /\ x.cursor = hub[g].cursor
        /\ x.history = hub[g].history /\ x.batch = hub[g].batch
    BY <1>1 DEF Hub
  <2> HIDE DEF x
  <2>3. HubFits(x, covered)
    BY <1>1, <2>2 DEF HubFits
  <2> QED BY <1>1, <2>1, <2>2, <2>3, HubAlone
<1>3. CASE ~Reset(hub[g].cursor)
  <2>1. PICK page : page = Page(hub[g].cursor, PageSize)
    OBVIOUS
  <2>2. PageSize \in Nat \ {0} /\ After(hub[g].cursor) # {}
    BY <1>3, StreamAssumption DEF Poll
  <2>3. /\ Follows(page, hub[g].cursor) /\ page # << >>
        /\ hub[g].cursor + Len(page) <= covered
    BY <1>1, <1>3, <2>1, <2>2, PageIs
  <2> DEFINE x == [hub[g] EXCEPT !.batch = page, !.pc = "read"]
  <2>4. hub' = [hub EXCEPT ![g] = x]
    BY <1>3, <2>1 DEF Poll, StreamInv
  <2>5. /\ x \in Hub /\ x.pc = "read" /\ x.cursor = hub[g].cursor
        /\ x.history = hub[g].history /\ x.batch = page
    BY <1>1, <2>3 DEF Hub, Follows
  <2> HIDE DEF x
  <2>6. HubFits(x, covered)
    BY <1>1, <2>3, <2>5 DEF HubFits
  <2> QED BY <1>1, <2>4, <2>5, <2>6, HubAlone
<1> QED BY <1>2, <1>3

\* A hub whose run cannot be read any more is about to retire.
LEMMA PollFailsInv ==
  ASSUME StreamInv, NEW g \in Hubs, PollFails(g)
  PROVE  StreamInv'
<1> DEFINE x == [hub[g] EXCEPT !.pc = "retire"]
<1>1. /\ HubFits(hub[g], covered) /\ hub[g] \in Hub
      /\ hub' = [hub EXCEPT ![g] = x] /\ UNCHANGED <<db, current, conn, client>>
  BY DEF StreamInv, HubFits, PollFails
<1>2. /\ x \in Hub /\ x.pc = "retire" /\ x.cursor = hub[g].cursor
      /\ x.history = hub[g].history /\ x.batch = hub[g].batch
  BY <1>1 DEF Hub
<1> HIDE DEF x
<1>3. HubFits(x, covered)
  BY <1>1, <1>2 DEF HubFits
<1> QED BY <1>1, <1>2, <1>3, HubAlone

\* The hub has the lock under which it publishes what it read.
LEMMA LockHubInv ==
  ASSUME StreamInv, NEW g \in Hubs, LockHub(g)
  PROVE  StreamInv'
<1> DEFINE x == [hub[g] EXCEPT !.pc = "apply"]
<1>1. /\ HubFits(hub[g], covered) /\ hub[g] \in Hub /\ hub[g].pc = "read"
      /\ hub' = [hub EXCEPT ![g] = x] /\ UNCHANGED <<db, current, conn, client>>
  BY DEF StreamInv, HubFits, LockHub
<1>2. /\ x \in Hub /\ x.pc = "apply" /\ x.cursor = hub[g].cursor
      /\ x.history = hub[g].history /\ x.batch = hub[g].batch
  BY <1>1 DEF Hub
<1> HIDE DEF x
<1>3. HubFits(x, covered)
  BY <1>1, <1>2 DEF HubFits
<1> QED BY <1>1, <1>2, <1>3, HubAlone

\* The events a hub remembers stay consecutive, and end with the new one.
LEMMA RememberedIs ==
  ASSUME NEW s, NEW n \in Nat, Len(s) <= n, Follows(s, n - Len(s)), NEW e, e = n + 1
  PROVE  /\ Len(Remembered(s, e)) <= e
         /\ Follows(Remembered(s, e), e - Len(Remembered(s, e)))
<1>1. s \in Seq(Nat) /\ Len(s) \in Nat
  BY LenProperties DEF Follows
<1>2. PICK t, m : t = Append(s, e) /\ m = n - Len(s)
  OBVIOUS
<1>3. m \in Nat /\ e \in Nat /\ e = m + Len(s) + 1 /\ Follows(s, m)
  BY <1>1, <1>2
<1>4. Follows(t, m) /\ Len(t) = Len(s) + 1 /\ t # << >>
  BY <1>1, <1>2, <1>3, FollowsAppend, FollowsEnds
<1>5. CASE Len(t) > HistorySize
  <2>1. Remembered(s, e) = Tail(t)
    BY <1>2, <1>5 DEF Remembered
  <2>2. Follows(Tail(t), m + 1) /\ Len(Tail(t)) = Len(t) - 1
    BY <1>3, <1>4, FollowsTail
  <2>3. Len(Tail(t)) = Len(s)
    BY <1>1, <1>4, <2>2
  <2>4. e - Len(s) = m + 1 /\ Len(s) <= e
    BY <1>1, <1>3
  <2> QED BY <2>1, <2>2, <2>3, <2>4
<1>6. CASE ~(Len(t) > HistorySize)
  <2>1. Remembered(s, e) = t
    BY <1>2, <1>6 DEF Remembered
  <2>2. e - Len(t) = m /\ Len(t) <= e
    BY <1>1, <1>2, <1>3, <1>4
  <2> QED BY <1>4, <2>1, <2>2
<1> QED BY <1>5, <1>6

\* What a subscriber is offered continues its channel, or ends it.
LEMMA OfferFits ==
  ASSUME NEW c, NEW n \in Nat, ConnFits(c, n), c.open, NEW e \in Nat, e <= n,
         e <= c.subAfter + 1
  PROVE  /\ ConnFits(Offer(c, e), n) /\ Offer(c, e) \in Conn
         /\ Offer(c, e).open => c.open /\ e <= Offer(c, e).subAfter
         /\ Offer(c, e).owner = c.owner /\ Offer(c, e).after = c.after
         /\ Offer(c, e).sub = c.sub
<1>0. c \in Conn /\ c.subAfter \in Nat /\ c.queue \in Seq(Nat) /\ Len(c.queue) \in Nat
  BY LenProperties DEF ConnFits, Conn
<1>1. CASE e <= c.subAfter
  BY <1>0, <1>1 DEF Offer
<1>2. CASE ~(e <= c.subAfter) /\ Len(c.queue) < QueueSize
  <2>1. PICK q : q = Append(c.queue, e)
    OBVIOUS
  <2> DEFINE d == [c EXCEPT !.queue = q, !.subAfter = e]
  <2>2. Offer(c, e) = d
    BY <1>2, <2>1 DEF Offer
  <2>3. e = (c.subAfter - Len(c.queue)) + Len(c.queue) + 1 /\ e = c.subAfter + 1
        /\ c.subAfter - Len(c.queue) \in Int
    BY <1>0, <1>2
  <2>4. Follows(q, c.subAfter - Len(c.queue)) /\ Len(q) = Len(c.queue) + 1
    BY <1>0, <2>1, <2>3, FollowsAppend DEF ConnFits
  <2>5. e - Len(q) = c.subAfter - Len(c.queue) /\ Len(q) <= e
    BY <1>0, <2>3, <2>4, SMTT(30) DEF ConnFits
  <2>6. q \in Seq(Nat)
    BY <2>4 DEF Follows
  <2>7. /\ d \in Conn /\ d.pc = c.pc /\ d.owner = c.owner /\ d.after = c.after
        /\ d.covered = c.covered /\ d.sub = c.sub /\ d.open = c.open
        /\ d.subAfter = e /\ d.queue = q
    BY <1>0, <2>6 DEF Conn
  <2> HIDE DEF d
  <2> QED BY <2>2, <2>4, <2>5, <2>7 DEF ConnFits
<1>3. CASE ~(e <= c.subAfter) /\ ~(Len(c.queue) < QueueSize)
  <2> DEFINE d == [c EXCEPT !.open = FALSE, !.err = TRUE]
  <2>1. Offer(c, e) = d
    BY <1>3 DEF Offer, remove
  <2>2. /\ d \in Conn /\ d.pc = c.pc /\ d.owner = c.owner /\ d.after = c.after
        /\ d.covered = c.covered /\ d.sub = c.sub /\ d.open = FALSE
        /\ d.subAfter = c.subAfter /\ d.queue = c.queue
    BY <1>0 DEF Conn
  <2> HIDE DEF d
  <2> QED BY <2>1, <2>2 DEF ConnFits
<1> QED BY <1>1, <1>2, <1>3


\* publish: one event goes to the history and to every channel with room.
LEMMA ApplyInv ==
  ASSUME StreamInv, NEW g \in Hubs, Apply(g)
  PROVE  StreamInv'
<1>1. PICK n, e, b, rest, past :
        /\ n = hub[g].cursor /\ e = n + 1 /\ b = hub[g].batch /\ rest = Tail(b)
        /\ past = Remembered(hub[g].history, e)
  OBVIOUS
<1>2. /\ HubFits(hub[g], covered) /\ hub[g] \in Hub /\ n \in Nat /\ e \in Nat
      /\ hub[g].pc = "apply" /\ covered \in Nat /\ UNCHANGED <<db, current, client>>
  BY <1>1 DEF StreamInv, HubFits, Hub, LogFits, Apply
<1>3. /\ b # << >> /\ Follows(b, n) /\ n + Len(b) <= covered
      /\ Len(hub[g].history) <= n /\ Follows(hub[g].history, n - Len(hub[g].history))
  BY <1>1, <1>2 DEF HubFits
<1>4. /\ Head(b) = e /\ Follows(rest, e) /\ Len(rest) = Len(b) - 1 /\ Len(b) \in Nat
      /\ Len(b) # 0
  <2>1. n \in Int /\ rest = Tail(b) /\ e = n + 1
    BY <1>1, <1>2
  <2>2. Head(b) = n + 1 /\ Len(b) \in Nat /\ Len(b) # 0
    BY <1>3, <2>1, FollowsEnds
  <2>3. Follows(Tail(b), n + 1) /\ Len(Tail(b)) = Len(b) - 1
    BY <1>3, <2>1, FollowsTail
  <2> QED BY <2>1, <2>2, <2>3
<1>5. e <= covered /\ e + Len(rest) <= covered
  BY <1>1, <1>2, <1>3, <1>4, SMTT(30)
<1>6. Len(past) <= e /\ Follows(past, e - Len(past))
  BY <1>1, <1>2, <1>3, RememberedIs
<1>7. rest \in Seq(Nat) /\ past \in Seq(Nat)
  BY <1>4, <1>6 DEF Follows
<1> DEFINE p == IF rest = << >> THEN "idle" ELSE "apply"
           x == [hub[g] EXCEPT !.cursor = e, !.batch = rest, !.history = past, !.pc = p]
<1>8. /\ hub' = [hub EXCEPT ![g] = x]
      /\ conn' = [h \in Conns |-> IF h \in Subscribers(g)
                                  THEN Offer(conn[h], e) ELSE conn[h]]
  BY <1>1, <1>4 DEF Apply, StreamInv
<1>9. p \in {"idle", "apply"} /\ (p = "apply" => rest # << >>)
  OBVIOUS
<1> HIDE DEF p
<1>10. /\ x \in Hub /\ x.cursor = e /\ x.batch = rest /\ x.history = past /\ x.pc = p
  BY <1>2, <1>7, <1>9 DEF Hub
<1> HIDE DEF x
<1>11. HubFits(x, covered)
  BY <1>4, <1>5, <1>6, <1>9, <1>10 DEF HubFits
<1>12. /\ hub' \in [Hubs -> Hub] /\ hub'[g] = x
       /\ \A f \in Hubs \ {g} : hub'[f] = hub[f]
  BY <1>8, <1>10 DEF StreamInv
<1>13. \A f \in Hubs : HubFits(hub'[f], covered)
  BY <1>11, <1>12 DEF StreamInv
<1>14. ASSUME NEW h \in Conns
       PROVE  /\ conn'[h] \in Conn /\ ConnFits(conn'[h], covered) /\ Fed(conn[h])'
              /\ conn'[h].owner = conn[h].owner /\ conn'[h].after = conn[h].after
              /\ conn'[h].sub = conn[h].sub
  <2>1. ConnFits(conn[h], covered) /\ Fed(conn[h]) /\ conn[h] \in Conn
    BY DEF StreamInv
  <2>2. CASE h \in Subscribers(g)
    <3>1. conn[h].open /\ conn[h].sub = g /\ conn'[h] = Offer(conn[h], e)
      BY <1>8, <2>2 DEF Subscribers
    <3>2. n <= conn[h].subAfter /\ conn[h].subAfter \in Nat
      BY <1>1, <2>1, <3>1 DEF Fed, Conn
    <3>3. e <= conn[h].subAfter + 1
      BY <1>1, <1>2, <3>2
    <3>4. /\ ConnFits(conn'[h], covered) /\ conn'[h] \in Conn
          /\ conn'[h].open => e <= conn'[h].subAfter
          /\ conn'[h].owner = conn[h].owner /\ conn'[h].after = conn[h].after
          /\ conn'[h].sub = g
      BY <1>2, <1>5, <2>1, <3>1, <3>3, OfferFits
    <3>5. Fed(conn[h])'
      BY <1>9, <1>10, <1>12, <3>4 DEF Fed
    <3> QED BY <3>1, <3>4, <3>5
  <2>3. CASE h \notin Subscribers(g)
    <3>1. conn'[h] = conn[h] /\ (conn[h].open => conn[h].sub \in Hubs \ {g})
      BY <1>8, <2>1, <2>3 DEF Subscribers, ConnFits
    <3>2. Fed(conn[h])'
      BY <1>12, <2>1, <3>1 DEF Fed
    <3> QED BY <2>1, <3>1, <3>2
  <2> QED BY <2>2, <2>3
<1>15. Mapped'
  BY <1>2, <1>9, <1>10, <1>12, <1>14 DEF StreamInv, Mapped
<1>16. conn' \in [Conns -> Conn]
  <2>1. \A h \in Conns : conn'[h] \in Conn
    BY <1>14
  <2> QED BY <1>8, <2>1
<1>17. UNCHANGED <<db, client>>
  BY <1>2
<1> QED BY <1>12, <1>13, <1>14, <1>15, <1>16, <1>17, FeedStep

\* A hub without subscribers leaves the map and stops.
LEMMA RetireInv ==
  ASSUME StreamInv, NEW g \in Hubs, Retire(g)
  PROVE  StreamInv'
<1>1. /\ hub' = [hub EXCEPT ![g] = FreeHub] /\ UNCHANGED <<db, client>>
      /\ current' = IF current = g THEN None ELSE current
      /\ conn' = [h \in Conns |-> IF h \in Subscribers(g)
                                  THEN remove(conn[h]) ELSE conn[h]]
      /\ covered \in Nat
  BY DEF Retire, StreamInv, LogFits
<1>2. FreeHub \in Hub /\ HubFits(FreeHub, covered)
  <2>1. /\ FreeHub \in Hub /\ FreeHub.cursor = 0 /\ FreeHub.pc = "free"
        /\ FreeHub.history = << >> /\ FreeHub.batch = << >>
    BY EmptySeq DEF FreeHub, Hub
  <2> QED BY <1>1, <2>1, FollowsEmpty DEF HubFits
<1>3. /\ hub' \in [Hubs -> Hub] /\ hub'[g] = FreeHub
      /\ \A f \in Hubs \ {g} : hub'[f] = hub[f]
  BY <1>1, <1>2 DEF StreamInv
<1>4. \A f \in Hubs : HubFits(hub'[f], covered)
  BY <1>2, <1>3 DEF StreamInv
<1>5. ASSUME NEW h \in Conns
      PROVE  /\ conn'[h] \in Conn /\ ConnFits(conn'[h], covered) /\ Fed(conn[h])'
             /\ conn'[h].owner = conn[h].owner /\ conn'[h].after = conn[h].after
             /\ conn'[h].sub = conn[h].sub
  <2>1. ConnFits(conn[h], covered) /\ Fed(conn[h]) /\ conn[h] \in Conn
    BY DEF StreamInv
  <2>2. CASE h \in Subscribers(g)
    <3> DEFINE d == [conn[h] EXCEPT !.open = FALSE, !.err = TRUE]
    <3>1. conn'[h] = d
      BY <1>1, <2>2 DEF remove
    <3>2. /\ d \in Conn /\ d.pc = conn[h].pc /\ d.owner = conn[h].owner
          /\ d.after = conn[h].after /\ d.covered = conn[h].covered
          /\ d.sub = conn[h].sub /\ d.open = FALSE
          /\ d.subAfter = conn[h].subAfter /\ d.queue = conn[h].queue
      BY <2>1 DEF Conn
    <3> HIDE DEF d
    <3>3. ConnFits(d, covered)
      BY <2>1, <3>2 DEF ConnFits
    <3>4. Fed(conn[h])'
      BY <3>1, <3>2 DEF Fed
    <3> QED BY <3>1, <3>2, <3>3, <3>4
  <2>3. CASE h \notin Subscribers(g)
    <3>1. conn'[h] = conn[h] /\ (conn[h].open => conn[h].sub \in Hubs \ {g})
      BY <1>1, <2>1, <2>3 DEF Subscribers, ConnFits
    <3>2. Fed(conn[h])'
      BY <1>3, <2>1, <3>1 DEF Fed
    <3> QED BY <2>1, <3>1, <3>2
  <2> QED BY <2>2, <2>3
<1>6. Mapped'
  BY <1>1, <1>3, <1>5 DEF StreamInv, Mapped
<1>7. conn' \in [Conns -> Conn]
  <2>1. \A h \in Conns : conn'[h] \in Conn
    BY <1>5
  <2> QED BY <1>1, <2>1
<1> QED BY <1>1, <1>3, <1>4, <1>5, <1>6, <1>7, FeedStep

-----------------------------------------------------------------------------
(* The theorems *)

\* Nothing is stored, no hub runs and no client is connected.
LEMMA StreamInitInv == StreamInit => StreamInv
<1> SUFFICES ASSUME StreamInit PROVE StreamInv
  OBVIOUS
<1>1. LogFits /\ covered \in Nat /\ covered = 0
  BY DEF StreamInit, LogFits
<1>2. FreeHub \in Hub /\ HubFits(FreeHub, covered)
  <2>1. /\ FreeHub \in Hub /\ FreeHub.cursor = 0 /\ FreeHub.pc = "free"
        /\ FreeHub.history = << >> /\ FreeHub.batch = << >>
    BY EmptySeq DEF FreeHub, Hub
  <2> QED BY <1>1, <2>1, FollowsEmpty DEF HubFits
<1>3. /\ ConnFits(FreeConn, covered) /\ Fed(FreeConn) /\ FreeConn.owner = None
      /\ FreeConn \in Conn
  BY <1>1, FreeFits DEF ConnFits
<1>4. NewClient \in Client /\ ClientFits(NewClient, covered)
  <2>1. /\ NewClient \in Client /\ NewClient.pc = "ready" /\ NewClient.after = 0
        /\ NewClient.conn = None
    BY DEF NewClient, Client
  <2> QED BY <1>1, <2>1 DEF ClientFits
<1>5. /\ hub = [g \in Hubs |-> FreeHub] /\ conn = [h \in Conns |-> FreeConn]
      /\ client = [k \in Clients |-> NewClient] /\ current = None
  BY DEF StreamInit
<1> HIDE DEF FreeHub, FreeConn, NewClient
<1>6. \A h \in Conns : conn[h] = FreeConn /\ ~Listening(h)
  BY <1>3, <1>5 DEF Listening
<1> QED BY <1>1, <1>2, <1>3, <1>4, <1>5, <1>6 DEF StreamInv, Mapped, Heard

\* Every step of the log, a hub, a handler or a client keeps StreamInv.
LEMMA StreamNextInv == StreamInv /\ [StreamNext]_streamVars => StreamInv'
<1> SUFFICES ASSUME StreamInv, [StreamNext]_streamVars PROVE StreamInv'
  OBVIOUS
<1>1. CASE Log
  BY <1>1, AppendInv, TrimInv DEF Log
<1>2. ASSUME NEW g \in Hubs, HubStep(g) \/ PollFails(g) PROVE StreamInv'
  BY <1>2, PollInv, PollFailsInv, LockHubInv, ApplyInv, RetireInv DEF HubStep
<1>3. ASSUME NEW h \in Conns, HandlerStep(h) \/ HandlerFails(h) \/ QueryFails(h)
      PROVE  StreamInv'
  BY <1>3, SubscribeReadInv, SubscribeNewInv, SubscribeJoinInv, ReplayInv,
     ConnectedInv, FollowInv, LeaveInv, QueryFailsInv, CloseSubInv DEF HandlerStep
<1>4. ASSUME NEW k \in Clients, ClientStep(k) \/ Cut(k) \/ SnapshotFails(k)
      PROVE  StreamInv'
  BY <1>4, GetSnapshotInv, SnapshotFailsInv, ConnectInv, CutInv DEF ClientStep
<1>5. CASE UNCHANGED streamVars
  <2>1. LogFits' /\ covered' = covered /\ UNCHANGED <<hub, current, conn, client>>
    BY <1>5 DEF StreamInv, LogFits, streamVars
  <2>2. covered \in Nat /\ covered <= covered'
    BY <2>1 DEF StreamInv, LogFits
  <2> QED BY <2>1, <2>2, LogStep
<1> QED BY <1>1, <1>2, <1>3, <1>4, <1>5 DEF StreamNext

\* StreamInv always holds.
LEMMA StreamAlways == StreamSpec => []StreamInv
BY StreamInitInv, StreamNextInv, PTL DEF StreamSpec

\* For any number of clients, handlers and hubs and any sizes: whatever is
\* trimmed, dropped or cut, no client of watch.go is told of a gap between two
\* events, of a cursor from the future or of a snapshot behind what it has.
THEOREM ClientsSeeNoGap == StreamSpec => []NoProtocolError
<1>1. StreamInv => NoProtocolError
  BY DEF StreamInv, ClientFits, NoProtocolError
<1> QED BY <1>1, StreamAlways, PTL

\* A handler that stays subscribed while another one moves.
LEMMA OneHandlerMoves ==
  ASSUME StreamInv, NEW h \in Conns, NEW c, conn' = [conn EXCEPT ![h] = c],
         conn[h].sub = None \/ c.sub = conn[h].sub
  PROVE  \A i \in Conns : conn[i].sub # None => conn'[i].sub = conn[i].sub
<1>1. conn'[h] = c /\ \A i \in Conns \ {h} : conn'[i] = conn[i]
  BY DEF StreamInv
<1> QED BY <1>1

\* Only its own Close ends what a handler has to do with its hub.
LEMMA HandlersStay ==
  ASSUME StreamInv, StreamNext, \A h \in Conns : ~CloseSub(h)
  PROVE  \A i \in Conns : conn[i].sub # None => conn'[i].sub = conn[i].sub
<1> DEFINE Stay == \A i \in Conns : conn[i].sub # None => conn'[i].sub = conn[i].sub
<1>0. conn \in [Conns -> Conn]
  BY DEF StreamInv
<1>1. ASSUME NEW h \in Conns, HandlerStep(h) \/ HandlerFails(h) \/ QueryFails(h)
      PROVE  Stay
  <2>1. conn[h] \in Conn /\ ConnFits(conn[h], covered)
    BY DEF StreamInv
  <2>2. ASSUME NEW code, Refuse(h, code),
               conn[h].pc \in {"getrun", "join", "enter"}
        PROVE  Stay
    <3>1. conn' = [conn EXCEPT ![h] = FreeConn] /\ conn[h].sub = None
      BY <2>1, <2>2 DEF Refuse, ConnFits
    <3> QED BY <3>1, OneHandlerMoves
  <2>3. CASE SubscribeRead(h)
    <3>1. CASE conn' = [conn EXCEPT ![h].pc = "join", ![h].covered = covered]
      <4>1. PICK c : c = [conn[h] EXCEPT !.pc = "join", !.covered = covered]
        OBVIOUS
      <4>2. conn' = [conn EXCEPT ![h] = c] /\ c.sub = conn[h].sub
        BY <1>0, <2>1, <3>1, <4>1 DEF Conn
      <4> QED BY <4>2, OneHandlerMoves
    <3> QED BY <2>2, <2>3, <3>1 DEF SubscribeRead
  <2>4. CASE SubscribeNew(h)
    <3>1. CASE conn' = [conn EXCEPT ![h].pc = "enter"]
      <4>1. PICK c : c = [conn[h] EXCEPT !.pc = "enter"]
        OBVIOUS
      <4>2. conn' = [conn EXCEPT ![h] = c] /\ c.sub = conn[h].sub
        BY <1>0, <2>1, <3>1, <4>1 DEF Conn
      <4> QED BY <4>2, OneHandlerMoves
    <3> QED BY <2>2, <2>4, <3>1 DEF SubscribeNew
  <2>5. CASE SubscribeJoin(h)
    <3>1. conn[h].sub = None
      BY <2>1, <2>5 DEF SubscribeJoin, ConnFits
    <3>2. CASE Refuse(h, "busy") \/ Refuse(h, "gone")
      BY <2>2, <2>5, <3>2 DEF SubscribeJoin
    <3>3. CASE ~(Refuse(h, "busy") \/ Refuse(h, "gone"))
      <4>1. \A i \in Conns \ {h} : conn'[i] = conn[i]
        BY <1>0, <2>5, <3>3 DEF SubscribeJoin
      <4> QED BY <3>1, <4>1
    <3> QED BY <3>2, <3>3
  <2>6. ASSUME conn' = [conn EXCEPT ![h].pc = "closing"] \/ conn' = [conn EXCEPT ![h].pc = "live"]
        PROVE  Stay
    <3>1. conn'[h].sub = conn[h].sub /\ \A i \in Conns \ {h} : conn'[i] = conn[i]
      BY <1>0, <2>1, <2>6 DEF Conn
    <3> QED BY <3>1
  <2>7. ASSUME NEW seq, NEW rest, Write(h, seq, rest) PROVE Stay
    <3>1. conn'[h].sub = conn[h].sub /\ \A i \in Conns \ {h} : conn'[i] = conn[i]
      BY <1>0, <2>1, <2>7 DEF Write, Conn
    <3> QED BY <3>1
  <2>8. CASE Replay(h)
    BY <2>6, <2>7, <2>8 DEF Replay
  <2>9. CASE Follow(h)
    <3>1. CASE conn' = [conn EXCEPT ![h].queue = Tail(@)]
      <4>1. conn'[h].sub = conn[h].sub /\ \A i \in Conns \ {h} : conn'[i] = conn[i]
        BY <1>0, <2>1, <3>1 DEF Conn
      <4> QED BY <4>1
    <3> QED BY <2>7, <2>9, <3>1 DEF Follow
  <2>10. CASE QueryFails(h)
    BY <2>2, <2>6, <2>10 DEF QueryFails
  <2>11. CASE Connected(h) \/ Dropped(h) \/ Abandoned(h) \/ HandlerFails(h)
    BY <2>6, <2>11 DEF Connected, Dropped, Abandoned, HandlerFails
  <2> HIDE DEF Stay
  <2> QED BY <1>1, <2>3, <2>4, <2>5, <2>8, <2>9, <2>10, <2>11 DEF HandlerStep
<1>2. ASSUME NEW g \in Hubs, Apply(g) \/ Retire(g) PROVE Stay
  <2> SUFFICES ASSUME NEW i \in Conns PROVE conn'[i].sub = conn[i].sub
    OBVIOUS
  <2>1. PICK c : c = conn[i]
    OBVIOUS
  <2>2. c \in Conn
    BY <1>0, <2>1
  <2>3. remove(c).sub = c.sub /\ \A seq : Offer(c, seq).sub = c.sub
    BY <2>2 DEF Offer, remove, Conn
  <2>4. \/ conn'[i] = c \/ conn'[i] = remove(c)
        \/ \E seq : conn'[i] = Offer(c, seq)
    BY <1>2, <2>1 DEF Apply, Retire
  <2> QED BY <2>1, <2>3, <2>4
<1>3. ASSUME NEW k \in Clients, NEW h \in Conns, Connect(k, h) PROVE Stay
  <2>1. conn[h].sub = None
    BY <1>3 DEF Connect, StreamInv, ConnFits
  <2>2. \A i \in Conns \ {h} : conn'[i] = conn[i]
    BY <1>0, <1>3 DEF Connect
  <2> QED BY <2>1, <2>2
<1>4. ASSUME UNCHANGED conn PROVE Stay
  BY <1>4
<1>5. \/ UNCHANGED conn
      \/ \E g \in Hubs : Apply(g) \/ Retire(g)
      \/ \E h \in Conns : HandlerStep(h) \/ HandlerFails(h) \/ QueryFails(h)
      \/ \E k \in Clients, h \in Conns : Connect(k, h)
  BY DEF StreamNext, Log, AppendEvent, Finish, AppendReleased, TrimEvents, HubStep, Poll,
         PollFails, LockHub, ClientStep, GetSnapshot, SnapshotFails, Cut
<1> HIDE DEF Stay
<1>6. Stay
  BY <1>1, <1>2, <1>3, <1>4, <1>5
<1> QED BY <1>6 DEF Stay

\* The hub in the map is not left behind by the last handler it served.
LEMMA ServedHubLeaves ==
  ASSUME StreamInv, [StreamNext]_streamVars, current # None, current' = current,
         NEW h \in Conns, conn[h].sub = current
  PROVE  \E i \in Conns : conn'[i].sub = current
<1>1. CASE UNCHANGED streamVars
  BY <1>1 DEF streamVars
<1>2. CASE StreamNext /\ \A i \in Conns : ~CloseSub(i)
  BY <1>2, HandlersStay
<1>3. ASSUME NEW i \in Conns, CloseSub(i) PROVE \E j \in Conns : conn'[j].sub = current
  <2>1. \A j \in Conns \ {i} : conn'[j] = conn[j]
    BY <1>3 DEF CloseSub, StreamInv
  <2>2. CASE conn[i].sub = current
    <3>1. Subscribers(current) \ {i} # {}
      BY <1>3, <2>2 DEF CloseSub
    <3>2. PICK j \in Conns \ {i} : conn[j].sub = current
      BY <3>1 DEF Subscribers
    <3> QED BY <2>1, <3>2
  <2>3. CASE conn[i].sub # current
    BY <2>1, <2>3
  <2> QED BY <2>2, <2>3
<1> QED BY <1>1, <1>2, <1>3

\* For any number of clients, handlers and hubs: the hub in the manager's map
\* runs, an open subscription is fed by a hub that runs and is not ahead of it,
\* and a hub that has served a handler leaves the map with the last one.
THEOREM HubsInMapRun == StreamSpec => MappedHubRuns
<1>1. StreamInv => (current # None => hub[current].pc # "free")
  BY DEF StreamInv, Mapped
<1>2. StreamInv => \A h \in Conns : conn[h].open =>
                     /\ hub[conn[h].sub].pc # "free"
                     /\ conn[h].subAfter >= hub[conn[h].sub].cursor
  <2> SUFFICES ASSUME StreamInv, NEW h \in Conns, conn[h].open
               PROVE  /\ hub[conn[h].sub].pc # "free"
                      /\ conn[h].subAfter >= hub[conn[h].sub].cursor
    OBVIOUS
  <2>1. conn[h].sub \in Hubs /\ conn[h].subAfter \in Nat
    BY DEF StreamInv, ConnFits, Conn
  <2>2. hub[conn[h].sub].cursor \in Nat
    BY <2>1 DEF StreamInv, Hub
  <2> QED BY <2>1, <2>2 DEF StreamInv, Fed
<1>3. StreamInv /\ [StreamNext]_streamVars =>
        [current # None /\ current' = current /\ (\E h \in Conns : conn[h].sub = current)
         => \E h \in Conns : conn'[h].sub = current]_streamVars
  BY ServedHubLeaves
<1> QED BY <1>1, <1>2, <1>3, StreamAlways, PTL DEF StreamSpec, MappedHubRuns

-----------------------------------------------------------------------------
(* What a client is told, step by step *)

\* A step of a client from c to d: it stays where it is, it gets the next event
\* of the log, or it goes on from a snapshot at the end of the log.  It is done
\* when the event or the snapshot says that the run has finished, and then, or
\* when it has given up, it stays as it is.
WatchStep(c, d) ==
  /\ c.pc \in {"done", "exhausted", "failed"} => d = c
  /\ \/ d.after = c.after /\ (d.pc = "done" => c.pc = "done")
     \/ /\ c.pc = "reading" /\ d.after = c.after + 1 /\ d.after <= covered
        /\ d.pc = "done" <=> d.after = fin
     \/ /\ c.pc = "gone" /\ d.after = covered /\ c.after <= covered
        /\ d.pc = "done" <=> fin # 0

\* A client that is done has been told of the end of the run.
DoneAtEnd == \A k \in Clients : client[k].pc = "done" => fin # 0 /\ fin <= client[k].after

\* A step of one client is the step of each.
LEMMA OneMoves ==
  ASSUME StreamInv, NEW k \in Clients, NEW x, client' = [client EXCEPT ![k] = x],
         WatchStep(client[k], x)
  PROVE  \A j \in Clients : WatchStep(client[j], client'[j])
<1> SUFFICES ASSUME NEW j \in Clients PROVE WatchStep(client[j], client'[j])
  OBVIOUS
<1>1. client \in [Clients -> Client]
  BY DEF StreamInv
<1>2. CASE j = k
  <2>1. client'[j] = x
    BY <1>1, <1>2
  <2> QED BY <1>2, <2>1
<1>3. CASE j # k
  <2>1. client'[j] = client[j]
    BY <1>1, <1>3
  <2> QED BY <2>1 DEF WatchStep
<1> QED BY <1>2, <1>3

\* No client moves.
LEMMA NoneMoves ==
  ASSUME UNCHANGED client
  PROVE  \A j \in Clients : WatchStep(client[j], client'[j])
BY DEF WatchStep

\* The client of a connection is reading.
LEMMA ListenerReads ==
  ASSUME StreamInv, NEW h \in Conns, Listening(h)
  PROVE  /\ conn[h].owner \in Clients /\ client[conn[h].owner].pc = "reading"
         /\ client[conn[h].owner] \in Client
         /\ client[conn[h].owner].after = conn[h].after
<1>1. PICK k : k = conn[h].owner
  OBVIOUS
<1>2. k \in Clients /\ client[k].conn = h
  BY <1>1 DEF StreamInv, Conn, Listening
<1>3. client[k].pc = "reading" /\ client[k] \in Client
  BY <1>2, StreamAssumption DEF StreamInv, ClientFits
<1> QED BY <1>1, <1>2, <1>3 DEF StreamInv, Heard

\* The end of a request.
LEMMA ReconnectMoves ==
  ASSUME NEW c \in Client, c.pc = "reading"
  PROVE  WatchStep(c, Reconnect(c))
<1>1. PICK d : d = Reconnect(c)
  OBVIOUS
<1>2. d.after = c.after /\ d.pc \in {"ready", "exhausted"}
  BY <1>1 DEF Reconnect, Client
<1> QED BY <1>1, <1>2 DEF WatchStep

\* A status instead of a stream.
LEMMA RespondMoves ==
  ASSUME StreamInv, NEW h \in Conns, NEW code \in {"gone", "busy", "error", "conflict"},
         Respond(h, code)
  PROVE  \A j \in Clients : WatchStep(client[j], client'[j])
<1>1. CASE ~Listening(h)
  BY <1>1, NoneMoves DEF Respond
<1>2. CASE Listening(h)
  <2>1. PICK k : k = conn[h].owner
    OBVIOUS
  <2>2. k \in Clients /\ client[k].pc = "reading" /\ client[k] \in Client
    BY <1>2, <2>1, ListenerReads
  <2>3. ASSUME NEW pc \in {"gone", "failed", "protocol"},
               client' = [client EXCEPT ![k] = [client[k] EXCEPT !.pc = pc, !.conn = None]]
        PROVE  \A j \in Clients : WatchStep(client[j], client'[j])
    <3>1. PICK x : x = [client[k] EXCEPT !.pc = pc, !.conn = None]
      OBVIOUS
    <3>2. x.pc = pc /\ x.after = client[k].after
      BY <2>2, <3>1 DEF Client
    <3>3. WatchStep(client[k], x)
      BY <2>2, <2>3, <3>2 DEF WatchStep
    <3> QED BY <2>2, <2>3, <3>1, <3>3, OneMoves
  <2>4. CASE code = "gone"
    <3>1. client' = [client EXCEPT ![k] = [client[k] EXCEPT !.pc = "gone", !.conn = None]]
      BY <1>2, <2>1, <2>2, <2>4 DEF Respond, StreamInv
    <3> QED BY <2>3, <3>1
  <2>5. CASE code = "conflict"
    <3>1. client' = [client EXCEPT ![k] =
                       [client[k] EXCEPT !.pc = "protocol", !.conn = None]]
      BY <1>2, <2>1, <2>2, <2>5 DEF Respond, StreamInv
    <3> QED BY <2>3, <3>1
  <2>6. CASE code = "busy"
    <3>1. client' = [client EXCEPT ![k] = Reconnect(client[k])]
      BY <1>2, <2>1, <2>2, <2>6 DEF Respond, StreamInv
    <3>2. WatchStep(client[k], Reconnect(client[k]))
      BY <2>2, ReconnectMoves
    <3> QED BY <2>2, <3>1, <3>2, OneMoves
  <2>7. CASE code = "error"
    <3>1. client' = [client EXCEPT ![k] =
                       [client[k] EXCEPT !.pc = "failed", !.conn = None]]
      BY <1>2, <2>1, <2>2, <2>7 DEF Respond, StreamInv
    <3> QED BY <2>3, <3>1
  <2> QED BY <2>4, <2>5, <2>6, <2>7
<1> QED BY <1>1, <1>2

\* An event is written.
LEMMA WriteMoves ==
  ASSUME StreamInv, NEW h \in Conns, NEW seq, NEW rest, Listening(h),
         Write(h, seq, rest), seq = conn[h].after + 1, seq <= covered
  PROVE  \A j \in Clients : WatchStep(client[j], client'[j])
<1>1. PICK k : k = conn[h].owner
  OBVIOUS
<1>2. /\ k \in Clients /\ client[k].pc = "reading" /\ client[k] \in Client
      /\ client[k].after = conn[h].after /\ client[k].after \in Nat
  BY <1>1, ListenerReads DEF Client
<1>3. PICK x : x = dispatch(client[k], seq)
  OBVIOUS
<1>4. client' = [client EXCEPT ![k] = x]
  BY <1>1, <1>2, <1>3 DEF Write, StreamInv
<1>5. x = IF seq = fin THEN [client[k] EXCEPT !.after = seq, !.pc = "done", !.conn = None]
          ELSE [client[k] EXCEPT !.after = seq]
  BY <1>2, <1>3 DEF dispatch
<1>6. x.after = seq /\ x.pc = IF seq = fin THEN "done" ELSE "reading"
  BY <1>2, <1>5 DEF Client
<1>7. WatchStep(client[k], x)
  BY <1>2, <1>6 DEF WatchStep
<1> QED BY <1>2, <1>4, <1>7, OneMoves

\* The replay writes the event after the cursor.
LEMMA ReplayMoves ==
  ASSUME StreamInv, NEW h \in Conns, Replay(h)
  PROVE  \A j \in Clients : WatchStep(client[j], client'[j])
<1>1. PICK c, page : c = conn[h] /\ page = Page(c.after, 1)
  OBVIOUS
<1>2. /\ c.after \in Nat /\ c.covered \in Nat /\ c.after < c.covered
      /\ c.covered <= covered /\ covered \in Nat /\ Listening(h)
  BY <1>1 DEF Replay, StreamInv, ConnFits, Conn, LogFits
<1>3. CASE Reset(c.after)
  BY <1>1, <1>3, RespondMoves, NoneMoves DEF Replay
<1>4. CASE ~Reset(c.after)
  <2>1. Follows(page, c.after) /\ page # << >>
    BY <1>1, <1>2, <1>4, PageIs DEF StreamInv
  <2>2. Head(page) = c.after + 1
    BY <1>2, <2>1, FollowsEnds
  <2>3. Write(h, Head(page), c.queue)
    BY <1>1, <1>4, <2>2 DEF Replay
  <2>4. c.after + 1 <= covered
    BY <1>2
  <2> QED BY <1>1, <1>2, <2>2, <2>3, <2>4, WriteMoves
<1> QED BY <1>3, <1>4

\* The live feed writes the event after the cursor, or skips one.
LEMMA FollowMoves ==
  ASSUME StreamInv, NEW h \in Conns, Follow(h)
  PROVE  \A j \in Clients : WatchStep(client[j], client'[j])
<1>1. PICK q, n : q = conn[h].queue /\ n = conn[h].subAfter - Len(q)
  OBVIOUS
<1>2. /\ ConnFits(conn[h], covered) /\ conn[h].pc = "live" /\ q # << >> /\ Listening(h)
  BY <1>1 DEF StreamInv, Follow
<1>3. /\ conn[h].after \in Nat /\ conn[h].subAfter \in Nat
      /\ Len(q) \in Nat /\ Len(q) <= conn[h].subAfter /\ Follows(q, n)
      /\ n <= conn[h].after /\ conn[h].subAfter <= covered /\ covered \in Nat
  BY <1>1, <1>2, LenProperties DEF ConnFits, Conn, StreamInv, LogFits
<1>4. n \in Nat
  BY <1>1, <1>3
<1>5. Head(q) = n + 1 /\ Len(q) > 0
  BY <1>2, <1>3, <1>4, FollowsEnds
<1>6. n + 1 <= covered
  BY <1>1, <1>3, <1>5
<1>7. CASE Head(q) > conn[h].after
  <2>1. Head(q) = conn[h].after + 1 /\ Head(q) <= covered
    BY <1>3, <1>4, <1>5, <1>6, <1>7
  <2>2. Write(h, Head(q), Tail(q))
    BY <1>1, <1>7 DEF Follow
  <2> QED BY <1>2, <2>1, <2>2, WriteMoves
<1>8. CASE ~(Head(q) > conn[h].after)
  BY <1>1, <1>8, NoneMoves DEF Follow
<1> QED BY <1>7, <1>8

\* A snapshot is never behind the client.
LEMMA GetSnapshotMoves ==
  ASSUME StreamInv, NEW k \in Clients, GetSnapshot(k)
  PROVE  \A j \in Clients : WatchStep(client[j], client'[j])
<1>1. PICK c, y, z : /\ c = client[k] /\ y = [c EXCEPT !.after = covered]
                     /\ z = [c EXCEPT !.after = covered, !.pc = "done"]
  OBVIOUS
<1>2. c \in Client /\ c.after <= covered /\ c.after \in Nat /\ covered \in Nat /\ c.pc = "gone"
  BY <1>1 DEF StreamInv, ClientFits, LogFits, GetSnapshot, Client
<1>3. PICK x : x = IF fin # 0 THEN z ELSE Reconnect(y)
  OBVIOUS
<1>4. client' = [client EXCEPT ![k] = x]
  <2>1. ~(covered < c.after)
    BY <1>2
  <2> QED BY <1>1, <1>3, <2>1 DEF GetSnapshot, StreamInv
<1>5. z.after = covered /\ z.pc = "done"
  BY <1>1, <1>2 DEF Client
<1>6. Reconnect(y).after = covered /\ Reconnect(y).pc \in {"ready", "exhausted"}
  <2>1. y \in Client /\ y.after = covered
    BY <1>1, <1>2 DEF Client
  <2> QED BY <2>1 DEF Reconnect, Client
<1>7. x.after = covered /\ (x.pc = "done" <=> fin # 0)
  BY <1>3, <1>5, <1>6
<1>8. WatchStep(c, x)
  BY <1>2, <1>7 DEF WatchStep
<1> QED BY <1>1, <1>4, <1>8, OneMoves

\* A failed snapshot.
LEMMA SnapshotFailsMoves ==
  ASSUME StreamInv, NEW k \in Clients, SnapshotFails(k)
  PROVE  \A j \in Clients : WatchStep(client[j], client'[j])
<1>1. PICK x : x = [client[k] EXCEPT !.pc = "failed"]
  OBVIOUS
<1>2. client[k] \in Client /\ client[k].pc = "gone" /\ client' = [client EXCEPT ![k] = x]
  BY <1>1 DEF StreamInv, SnapshotFails
<1>3. x.pc = "failed" /\ x.after = client[k].after
  BY <1>1, <1>2 DEF Client
<1>4. WatchStep(client[k], x)
  BY <1>2, <1>3 DEF WatchStep
<1> QED BY <1>2, <1>4, OneMoves

\* A client connects, or its connection breaks.
LEMMA ConnectMoves ==
  ASSUME StreamInv, NEW k \in Clients, Cut(k) \/ \E h \in Conns : Connect(k, h)
  PROVE  \A j \in Clients : WatchStep(client[j], client'[j])
<1>1. client[k] \in Client
  BY DEF StreamInv
<1>2. CASE Cut(k)
  <2>1. client' = [client EXCEPT ![k] = Reconnect(client[k])] /\ client[k].pc = "reading"
    BY <1>2 DEF Cut, StreamInv
  <2> QED BY <1>1, <2>1, ReconnectMoves, OneMoves
<1>3. ASSUME NEW h \in Conns, Connect(k, h)
      PROVE  \A j \in Clients : WatchStep(client[j], client'[j])
  <2>1. PICK x : x = [client[k] EXCEPT !.pc = "reading", !.conn = h,
                                       !.before = client[k].after]
    OBVIOUS
  <2>2. client' = [client EXCEPT ![k] = x] /\ client[k].pc = "ready"
    BY <1>3, <2>1 DEF Connect, StreamInv
  <2>3. x.pc = "reading" /\ x.after = client[k].after
    BY <1>1, <2>1 DEF Client
  <2>4. WatchStep(client[k], x)
    BY <2>2, <2>3 DEF WatchStep
  <2> QED BY <2>2, <2>4, OneMoves
<1> QED BY <1>2, <1>3

\* A handler subscribes, or is refused.
LEMMA SubscribeMoves ==
  ASSUME StreamInv, NEW h \in Conns, SubscribeRead(h) \/ SubscribeNew(h) \/ SubscribeJoin(h)
                                         \/ QueryFails(h)
  PROVE  \A j \in Clients : WatchStep(client[j], client'[j])
<1>1. UNCHANGED client \/ \E code \in {"gone", "busy", "error", "conflict"} :
                              Respond(h, code)
  BY DEF SubscribeRead, SubscribeNew, SubscribeJoin, QueryFails, Refuse
<1> QED BY <1>1, RespondMoves, NoneMoves

\* The end of a stream.
LEMMA CloseMoves ==
  ASSUME StreamInv, NEW h \in Conns, CloseSub(h)
  PROVE  \A j \in Clients : WatchStep(client[j], client'[j])
<1>1. CASE Listening(h)
  <2>1. PICK k : k = conn[h].owner
    OBVIOUS
  <2>2. k \in Clients /\ client[k].pc = "reading" /\ client[k] \in Client
    BY <1>1, <2>1, ListenerReads
  <2>3. client' = [client EXCEPT ![k] = Reconnect(client[k])]
    BY <1>1, <2>1, <2>2 DEF CloseSub, StreamInv
  <2> QED BY <2>2, <2>3, ReconnectMoves, OneMoves
<1>2. CASE ~Listening(h)
  BY <1>2, NoneMoves DEF CloseSub
<1> QED BY <1>1, <1>2

\* Every step moves every client as WatchStep says.
LEMMA ClientsMove ==
  StreamInv /\ [StreamNext]_streamVars => \A k \in Clients : WatchStep(client[k], client'[k])
<1> SUFFICES ASSUME StreamInv, [StreamNext]_streamVars
             PROVE  \A k \in Clients : WatchStep(client[k], client'[k])
  OBVIOUS
<1>1. CASE Log \/ UNCHANGED streamVars
  BY <1>1, NoneMoves
     DEF Log, AppendEvent, Finish, AppendReleased, TrimEvents, streamVars
<1>2. ASSUME NEW g \in Hubs, HubStep(g) \/ PollFails(g)
      PROVE  \A k \in Clients : WatchStep(client[k], client'[k])
  BY <1>2, NoneMoves DEF HubStep, Poll, PollFails, LockHub, Apply, Retire
<1>3. ASSUME NEW h \in Conns, HandlerStep(h) \/ HandlerFails(h) \/ QueryFails(h)
      PROVE  \A k \in Clients : WatchStep(client[k], client'[k])
  <2>1. CASE Connected(h) \/ Dropped(h) \/ Abandoned(h) \/ HandlerFails(h)
    BY <2>1, NoneMoves DEF Connected, Dropped, Abandoned, HandlerFails
  <2> QED BY <1>3, <2>1, SubscribeMoves, ReplayMoves, FollowMoves, CloseMoves DEF HandlerStep
<1>4. ASSUME NEW k \in Clients, ClientStep(k) \/ Cut(k) \/ SnapshotFails(k)
      PROVE  \A j \in Clients : WatchStep(client[j], client'[j])
  BY <1>4, GetSnapshotMoves, SnapshotFailsMoves, ConnectMoves DEF ClientStep
<1> QED BY <1>1, <1>2, <1>3, <1>4 DEF StreamNext

\* A client is told the events of the log in their order, each once, and leaves
\* out only what a snapshot at the end of the log stands for; it ends with the
\* terminal event or such a snapshot (consumeEvents, watch), whatever hub,
\* handler or connection is lost on the way.
THEOREM EventsToldInOrder ==
  StreamSpec => [][\A k \in Clients : WatchStep(client[k], client'[k])]_streamVars
<1>1. StreamInv /\ [StreamNext]_streamVars =>
        [\A k \in Clients : WatchStep(client[k], client'[k])]_streamVars
  BY ClientsMove
<1> QED BY <1>1, StreamAlways, PTL DEF StreamSpec

\* A watch that ends as done has printed the end of the run, or a snapshot taken
\* after it: no client takes the end of a connection for the end of the run.
THEOREM WatchesEndAtTheEnd == StreamSpec => []DoneAtEnd
<1>1. StreamInit => DoneAtEnd
  BY DEF StreamInit, DoneAtEnd, NewClient
<1>2. StreamInv /\ DoneAtEnd /\ [StreamNext]_streamVars => DoneAtEnd'
  <2> SUFFICES ASSUME StreamInv, DoneAtEnd, [StreamNext]_streamVars,
                      NEW k \in Clients, client'[k].pc = "done"
               PROVE  fin' # 0 /\ fin' <= client'[k].after
    BY DEF DoneAtEnd
  <2>1. WatchStep(client[k], client'[k])
    BY ClientsMove
  <2>2. /\ fin \in Nat /\ covered \in Nat /\ fin <= covered /\ client[k] \in Client
        /\ client[k].after \in Nat
    BY DEF StreamInv, LogFits, Client
  <2>3. fin # 0 => fin' = fin
    BY DEF StreamNext, Log, AppendEvent, Finish, AppendReleased, TrimEvents, HubStep, Poll,
           PollFails, LockHub, Apply, Retire, HandlerStep, SubscribeRead, SubscribeNew, SubscribeJoin,
           Replay, Connected, Follow, Dropped, Abandoned, HandlerFails, QueryFails, CloseSub,
           ClientStep, GetSnapshot, SnapshotFails, Connect, Cut, streamVars, db
  <2>4. fin # 0 /\ fin <= client'[k].after
    BY <2>1, <2>2 DEF WatchStep, DoneAtEnd
  <2> QED BY <2>3, <2>4
<1> QED BY <1>1, <1>2, StreamAlways, PTL DEF StreamSpec
=============================================================================
