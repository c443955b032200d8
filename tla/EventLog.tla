------------------------------ MODULE EventLog ------------------------------
(***************************************************************************)
(* The events of one thread on their way to one viewer: event_log.py       *)
(* stamps and buffers them in Redis, the channel layer fans them out,      *)
(* consumers.py replays the buffered tail to a viewer that reconnects, and *)
(* WebSocketProvider.tsx keeps a cursor that drops duplicates and          *)
(* recognises a restarted counter.                                         *)
(*                                                                         *)
(* A producer is a process that broadcasts to the thread: the worker of a  *)
(* run, that of another Compare branch, or the web process (stop).         *)
(***************************************************************************)
EXTENDS Integers, Sequences, Functions

CONSTANTS
    Producers,
    Buffer,      \* MAX_EVENTS: the tail kept for replay
    ChanCap,     \* messages the channel layer queues for one consumer
    TTL,         \* TTL_SECONDS, in ticks: the life of the keys after a push
    IdleAfter,   \* idleRestartMs, in ticks: the TTL less a safety margin
    MaxEvents    \* bound: events of the thread

ASSUME SizesAssumption ==
    /\ {Buffer, ChanCap, TTL, IdleAfter} \subseteq Nat \ {0}
    /\ MaxEvents \in Nat
    /\ IdleAfter < TTL

VARIABLES
    \* Redis: thread:<id>:wsseq, thread:<id>:wslog, and ticks since their expiry
    \* was last renewed
    seq, log, age,
    \* the event each producer is broadcasting, and how many there have been
    hand, emitted,
    \* the consumer: its connection, the ?since= it was opened with, the channel
    \* layer's queue for it, and the frames on the socket
    conn, since, chan, wire,
    \* the browser: lastSeq (cursor.seq, 0 for none, and the ticks since
    \* cursor.at), and the events dispatched to the page
    cursor, idle, got,
    \* history: the events this subscription is owed, the events that met a
    \* known obstacle, a cursor older than the counter, the highest seq trimmed
    \* from the log and the highest one broadcast, and a replay that could not
    \* reach back to its since
    owed, blame, stale, floor, sent, gap

redis   == <<seq, log, age>>
feed    == <<hand, emitted>>
server  == <<conn, since, chan, wire>>
browser == <<cursor, idle, got>>
history == <<owed, blame, stale, floor, sent, gap>>
vars    == <<redis, feed, server, browser, history>>

\* A producer's events are numbered in the order it sends them.
Event == Producers \X (1 .. MaxEvents)

\* A payload on its way; seq 0 is a payload without one.
Frame == [id : Event, seq : Nat]

NoEvent == [stage |-> "idle", n |-> 0, seq |-> 0]

\* Why an event may not reach the page: it has no seq, it met a full queue, a
\* later seq overtook it, or it was taken for a duplicate of the old counter's.
Obstacles == {"unstamped", "crowded", "overtaken", "misread"}

Init ==
    /\ seq = 0 /\ log = <<>> /\ age = 0
    /\ hand = [p \in Producers |-> NoEvent]
    /\ emitted = 0
    /\ conn = "closed" /\ since = 0 /\ chan = <<>> /\ wire = <<>>
    /\ cursor = 0 /\ idle = 0 /\ got = <<>>
    /\ owed = {} /\ blame = [why \in Obstacles |-> {}] /\ stale = FALSE
    /\ floor = 0 /\ sent = 0 /\ gap = FALSE

Blame(why, ids) == blame' = [blame EXCEPT ![why] = @ \cup ids]

-----------------------------------------------------------------------------
(* record: INCR, then a pipeline with the push; then the broadcast.        *)

Current(p) == <<p, hand[p].n>>

Hold(p, stage, n, s) == hand' = [hand EXCEPT ![p] = [stage |-> stage, n |-> n, seq |-> s]]

\* Bound: an event goes onto a socket before Buffer later ones are stamped.
\* MAX_EVENTS is 256, and at most a handful of producers share a thread.
Prompt ==
    \A n \in {hand[p].seq : p \in Producers} \cup {f.seq : f \in Range(chan)} :
        n # 0 => seq + 1 - n < Buffer

Begin(p) ==
    /\ hand[p].stage = "idle" /\ emitted < MaxEvents
    /\ Prompt
    /\ emitted' = emitted + 1

Stamp(p) ==
    /\ Begin(p)
    /\ seq' = seq + 1
    /\ Hold(p, "stamped", emitted', seq + 1)
    /\ UNCHANGED <<log, age, server, browser, history>>

\* Redis is unavailable: the payload goes out without a seq.
StampFails(p) ==
    /\ Begin(p)
    /\ Hold(p, "ready", emitted', 0)
    /\ Blame("unstamped", {<<p, emitted'>>})
    /\ UNCHANGED <<redis, server, browser, owed, stale, floor, sent, gap>>

\* Mutant: the list is not trimmed.
TailUntrimmed(entries) == entries

\* ltrim -MAX_EVENTS -1.
LastEvents(entries) ==
    IF Len(entries) <= Buffer THEN entries
    ELSE SubSeq(entries, Len(entries) - Buffer + 1, Len(entries))

\* The pipeline: renew both expiries, append, trim.
Pipeline(p) ==
    /\ log' = LastEvents(Append(log, [id |-> Current(p), seq |-> hand[p].seq]))
    /\ floor' = IF Len(log) = Buffer /\ log[1].seq > floor THEN log[1].seq ELSE floor
    /\ age' = 0

Push(p) ==
    /\ hand[p].stage = "stamped"
    /\ Pipeline(p)
    /\ Hold(p, "ready", hand[p].n, hand[p].seq)
    /\ Blame("overtaken", {Current(p) : f \in {f \in Range(log) : f.seq > hand[p].seq}})
    /\ UNCHANGED <<seq, emitted, server, browser, owed, stale, sent, gap>>

\* The pipeline fails, before or after Redis executed it: the payload goes out
\* without the seq it was given.
PushFails(p) ==
    /\ hand[p].stage = "stamped"
    /\ Pipeline(p) \/ UNCHANGED <<log, age, floor>>
    /\ Hold(p, "ready", hand[p].n, 0)
    /\ Blame("unstamped", {Current(p)})
    /\ UNCHANGED <<seq, emitted, server, browser, owed, stale, sent, gap>>

\* Mutant: the consumer joins the group after it has replayed.
InGroupLate == conn = "open"

InGroup == conn # "closed"

\* A later event has been broadcast already.
Overtaken(p) == hand[p].seq # 0 /\ hand[p].seq < sent

Full == Len(chan) >= ChanCap

\* group_send: queued for a consumer in the group unless its queue is full.
Send(p) ==
    /\ hand[p].stage = "ready"
    /\ hand' = [hand EXCEPT ![p] = NoEvent]
    /\ chan' = IF InGroup /\ ~Full THEN Append(chan, [id |-> Current(p), seq |-> hand[p].seq])
               ELSE chan
    /\ blame' = [blame EXCEPT
                   !["crowded"] = IF InGroup /\ Full THEN @ \cup {Current(p)} ELSE @,
                   !["overtaken"] = IF Overtaken(p) THEN @ \cup {Current(p)} ELSE @]
    /\ owed' = IF conn # "closed" \/ cursor # 0 THEN owed \cup {Current(p)} ELSE owed
    /\ sent' = IF hand[p].seq > sent THEN hand[p].seq ELSE sent
    /\ UNCHANGED <<redis, emitted, conn, since, wire, browser, stale, floor, gap>>

\* Time passes, with nothing on its way.  After TTL without a push both keys
\* expire and the next seq is 1 again.
Tick ==
    /\ seq > 0 \/ (cursor # 0 /\ idle < IdleAfter)
    /\ conn # "joined" /\ chan = <<>> /\ wire = <<>>
    /\ \A p \in Producers : hand[p] = NoEvent
    /\ age' = IF age < TTL THEN age + 1 ELSE age
    /\ idle' = IF cursor # 0 /\ idle < IdleAfter THEN idle + 1 ELSE idle
    /\ IF age < TTL /\ age' = TTL
       THEN seq' = 0 /\ log' = <<>> /\ floor' = 0 /\ sent' = 0 /\ stale' = (cursor # 0)
       ELSE UNCHANGED <<seq, log, floor, sent, stale>>
    /\ UNCHANGED <<feed, server, cursor, got, owed, blame, gap>>

-----------------------------------------------------------------------------
(* The consumer and the socket.                                            *)

\* The browser opens the socket with its cursor, if it has one, as ?since=; the
\* consumer joins the group and accepts.  Without a cursor the subscription
\* starts afresh, even if an earlier connection dropped before its first seq.
Connect ==
    /\ conn = "closed"
    /\ conn' = "joined"
    /\ since' = cursor
    /\ owed' = IF cursor = 0 THEN {} ELSE owed
    /\ UNCHANGED <<redis, feed, chan, wire, browser, blame, stale, floor, sent, gap>>

\* replay_since: the entries above s, in the order of the log.
ReplaySince(s) ==
    LET out[i \in 0 .. Len(log)] ==
            IF i = 0 THEN <<>>
            ELSE IF log[i].seq > s THEN Append(out[i - 1], log[i]) ELSE out[i - 1]
    IN  out[Len(log)]

\* since is from before the counter restarted, or the buffer no longer reaches
\* back to it.
OutOfReach(s) == s # 0 /\ (stale \/ floor > s)

\* The replay of a reconnect; a first connect has none.
Replay ==
    /\ conn = "joined"
    /\ conn' = "open"
    /\ wire' = IF since = 0 THEN <<>> ELSE ReplaySince(since)
    /\ gap' = (gap \/ OutOfReach(since))
    /\ UNCHANGED <<redis, feed, since, chan, browser, owed, blame, stale, floor, sent>>

\* thread_event: the next queued message goes onto the socket, after the replay.
ThreadEvent ==
    /\ conn = "open" /\ chan # <<>>
    /\ wire' = Append(wire, Head(chan))
    /\ chan' = Tail(chan)
    /\ UNCHANGED <<redis, feed, conn, since, browser, history>>

\* The connection drops: what was queued or on the socket is gone.
Drop ==
    /\ conn # "closed"
    /\ conn' = "closed"
    /\ chan' = <<>> /\ wire' = <<>>
    /\ UNCHANGED <<redis, feed, since, browser, history>>

-----------------------------------------------------------------------------
(* The browser.                                                            *)

\* Mutant: any event from behind the cursor counts as a restart.
RestartedAlways(s) == TRUE

\* seqIndicatesRestart.
Restarted(s) == cursor - s >= Buffer \/ idle >= IdleAfter

\* Mutant: no duplicate filter.
FreshAlways(s) == TRUE

Fresh(s) == cursor = 0 \/ s > cursor

Dispatch(f) == got' = Append(got, f.id)

Advance(s) == cursor' = s /\ idle' = 0 /\ stale' = FALSE

\* The message handler: a frame without seq is dispatched, one with a seq from
\* behind the cursor is dropped unless it looks like a restarted counter.
Receive ==
    /\ wire # <<>>
    /\ wire' = Tail(wire)
    /\ LET f == Head(wire) IN
         \/ /\ f.seq = 0
            /\ Dispatch(f)
            /\ UNCHANGED <<cursor, idle, stale, blame>>
         \/ /\ f.seq # 0 /\ (Fresh(f.seq) \/ Restarted(f.seq))
            /\ Dispatch(f) /\ Advance(f.seq)
            /\ UNCHANGED blame
         \/ /\ f.seq # 0 /\ ~Fresh(f.seq) /\ ~Restarted(f.seq)
            /\ Blame("misread", IF stale THEN {f.id} ELSE {})
            /\ UNCHANGED <<browser, stale>>
    /\ UNCHANGED <<redis, feed, conn, since, chan, owed, floor, sent, gap>>

\* closeIfUnused: a deliberate teardown forgets the cursor.
Leave ==
    /\ conn # "closed" \/ cursor # 0
    /\ conn' = "closed" /\ since' = 0 /\ chan' = <<>> /\ wire' = <<>>
    /\ cursor' = 0 /\ idle' = 0 /\ got' = <<>>
    /\ owed' = {} /\ stale' = FALSE /\ gap' = FALSE
    /\ UNCHANGED <<redis, feed, blame, floor, sent>>

-----------------------------------------------------------------------------
Produce(p) == Stamp(p) \/ StampFails(p) \/ Push(p) \/ PushFails(p) \/ Send(p)

View == Connect \/ Replay \/ ThreadEvent \/ Drop \/ Receive \/ Leave

Next == (\E p \in Producers : Produce(p)) \/ View \/ Tick

Spec == Init /\ [][Next]_vars

-----------------------------------------------------------------------------
(* Properties.                                                             *)

\* The variables stay in their ranges; the replay buffer and the consumer's
\* queue stay within their sizes.
TypeOK ==
    /\ seq \in Nat /\ age \in 0 .. TTL
    /\ log \in Seq(Frame) /\ Len(log) <= Buffer
    /\ hand \in [Producers -> [stage : {"idle", "stamped", "ready"}, n : 0 .. MaxEvents, seq : Nat]]
    /\ emitted \in 0 .. MaxEvents
    /\ conn \in {"closed", "joined", "open"}
    /\ since \in Nat
    /\ chan \in Seq(Frame) /\ Len(chan) <= ChanCap
    /\ wire \in Seq(Frame)
    /\ cursor \in Nat /\ idle \in 0 .. IdleAfter /\ got \in Seq(Event)
    /\ owed \subseteq Event /\ blame \in [Obstacles -> SUBSET Event]
    /\ stale \in BOOLEAN /\ {floor, sent} \subseteq Nat /\ gap \in BOOLEAN

\* An event reaches the page at most once, although the replayed tail overlaps
\* the live feed: text deltas are appended, so a second dispatch would double
\* them.  The exception is an event that lost its seq to a Redis failure.
DispatchedOnce ==
    \A i, j \in DOMAIN got : got[i] = got[j] /\ got[i] \notin blame["unstamped"] => i = j

\* The events of one producer reach the page in the order it sent them, across
\* drops, replays and counter restarts: the deltas of a message are never
\* shuffled.
RunOrder ==
    \A i, j \in DOMAIN got :
        i < j /\ got[i][1] = got[j][1] /\ {got[i], got[j]} \cap blame["unstamped"] = {}
            => got[i][2] < got[j][2]

\* Connected, and nothing on its way.
Quiet ==
    /\ conn = "open" /\ chan = <<>> /\ wire = <<>>
    /\ \A p \in Producers : hand[p] = NoEvent

\* What the page misses, beyond the events that met one of the obstacles.
Missing(obstacles) == (owed \ Range(got)) \ UNION {blame[why] : why \in obstacles}

\* A viewer that is connected and caught up has seen every event since its
\* subscription began, whatever drops and restarts it went through, unless the
\* event met one of the four known obstacles or lies beyond the reach of the
\* replay buffer.
CaughtUp == Quiet /\ ~gap => Missing(Obstacles) = {}

\* What the consumer's comment says: joining before replaying means that a live
\* event "is at worst a duplicate (same seq), never a gap".
NeverAGap == Quiet /\ ~gap => Missing(Obstacles \ {"overtaken"}) = {}
=============================================================================
