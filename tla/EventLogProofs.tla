--------------------------- MODULE EventLogProofs ---------------------------
(***************************************************************************)
(* EventLog: what the viewer's page shows, for any number of producers and *)
(* events and any sizes of the buffer, the queue and the two lifetimes.    *)
(***************************************************************************)
EXTENDS EventLog, NatLemmas, FiniteSetTheorems, SequenceTheorems, TLAPS

\* The frames that are still to come, the head of the socket first.
Pending == wire \o chan

\* The payload a producer holds, once it has its seq.
Held(p)    == hand[p].stage # "idle" /\ hand[p].seq # 0
\* The frame of that payload.
Carried(p) == [id |-> Current(p), seq |-> hand[p].seq]

\* The numbered frames of the present counter, wherever they are.
Numbered ==
    {f \in Range(log) \cup Range(Pending) : f.seq # 0} \cup {Carried(p) : p \in {q \in Producers : Held(q)}}

\* An event that met an obstacle.
Blamed(e)  == \E why \in Obstacles : e \in blame[why]
\* An event that the page has or that met an obstacle.
Settled(e) == e \in Range(got) \/ Blamed(e)

\* Some event with this seq or a later one has been pushed.
Reached(s) == s <= floor \/ \E f \in Range(log) : s <= f.seq

-----------------------------------------------------------------------------
\* What the stages of the connection and of a producer say of the rest.
Connection ==
    /\ conn = "closed" => chan = <<>>
    /\ conn # "open" => wire = <<>>
    /\ conn = "joined" => since = cursor
    /\ cursor = 0 => ~stale
    /\ \A p \in Producers :
        /\ hand[p].stage = "idle" => hand[p] = NoEvent
        /\ hand[p].stage = "stamped" => hand[p].seq # 0
        /\ hand[p].stage # "idle" => hand[p].n # 0

\* seq and the number of an event grow together.
Numbering ==
    /\ \A f \in Numbered : f.seq <= seq /\ f.id[2] <= emitted
    /\ \A f, g \in Numbered : f.seq = g.seq => f.id = g.id
    /\ \A f, g \in Numbered : f.seq < g.seq => f.id[2] < g.id[2]
    /\ \A p, q \in Producers : Held(p) /\ Held(q) /\ hand[p].seq = hand[q].seq => p = q
    /\ \A i \in 1 .. Len(got) : got[i] \notin blame["unstamped"] => got[i][2] <= emitted
    /\ sent <= seq /\ floor <= seq
    /\ ~stale => cursor <= seq

\* What has no seq is known to have none.
Unstamped ==
    /\ \A p \in Producers : hand[p].stage = "ready" /\ hand[p].seq = 0 => Current(p) \in blame["unstamped"]
    /\ \A f \in Range(Pending) : f.seq = 0 => f.id \in blame["unstamped"]

\* The page has the events in the order of their numbers, and every frame the
\* cursor lets through comes after them.
Ordered ==
    /\ \A i, j \in 1 .. Len(got) :
        i < j /\ got[i] \notin blame["unstamped"] /\ got[j] \notin blame["unstamped"] => got[i][2] < got[j][2]
    /\ \A f \in Numbered, i \in 1 .. Len(got) :
        (stale \/ cursor < f.seq) /\ got[i] \notin blame["unstamped"] => got[i][2] < f.id[2]

\* A frame is never so far behind the cursor that it looks like a restart.
Near ==
    /\ \A p \in Producers : Held(p) => seq - hand[p].seq < Buffer
    /\ \A i \in 1 .. Len(chan) : chan[i].seq # 0 => seq - chan[i].seq < Buffer
    /\ \A i, j \in 1 .. Len(log) : i < j => log[i].seq - log[j].seq < Buffer
    /\ \A i, j \in 1 .. Len(wire) : i < j /\ wire[j].seq # 0 => wire[i].seq - wire[j].seq < Buffer
    /\ ~stale => \A i \in 1 .. Len(wire) : wire[i].seq # 0 => cursor - wire[i].seq < Buffer
    /\ ~stale /\ idle > 0 =>
        /\ \A p \in Producers : Held(p) => cursor < hand[p].seq
        /\ \A f \in Range(Pending) : f.seq # 0 => cursor < f.seq

\* No seq is pushed twice.
LoggedOnce ==
    \A i, j \in 1 .. Len(log) : log[i].seq # 0 /\ (log[i].seq = log[j].seq => i = j)

\* What is broadcast has been pushed.
LoggedFirst ==
    /\ \A f \in Range(Pending) : f.seq # 0 => f \in Range(log) \/ f.seq <= floor
    /\ \A p \in Producers : Held(p) /\ hand[p].stage = "ready" => Carried(p) \in Range(log) \/ hand[p].seq <= floor

\* What has only its seq has not, even if the log has no room left for it.
NotYetLogged ==
    \A p \in Producers : hand[p].stage = "stamped" =>
        /\ floor # hand[p].seq /\ \A f \in Range(log) : f.seq # hand[p].seq
        /\ floor > hand[p].seq => \E f \in Range(log) : f.seq > hand[p].seq

\* An event pushed behind a later one is known to be.
LateIsBlamed ==
    \A i, j \in 1 .. Len(log) : i < j /\ log[i].seq > log[j].seq => Blamed(log[j].id)

\* The log is what has been pushed, less what was trimmed.
Logged ==
    /\ LoggedOnce /\ LoggedFirst /\ NotYetLogged /\ LateIsBlamed
    /\ Reached(sent) /\ (~stale => Reached(cursor))

\* A frame with a later one in front of it is settled, or is there in front of
\* that one as well.
PendingInOrder ==
    \A i, j \in 1 .. Len(Pending) : i < j /\ Pending[j].seq # 0 /\ Pending[i].seq > Pending[j].seq =>
        Settled(Pending[j].id) \/ \E k \in 1 .. i - 1 : Pending[k] = Pending[j]

\* So is a frame that the cursor has passed.
CursorBehind ==
    ~stale => \A f \in Range(Pending) : f.seq # 0 /\ f.seq <= cursor => Settled(f.id)

\* And an event that is about to be broadcast, unless a later one has been.
ReadyInOrder ==
    \A p \in Producers : Held(p) /\ hand[p].stage = "ready" /\ ~(sent > hand[p].seq) /\ ~Settled(Current(p)) =>
        /\ stale \/ cursor < hand[p].seq
        /\ \A i \in 1 .. Len(Pending) : Pending[i].seq > hand[p].seq =>
              \E k \in 1 .. i - 1 : Pending[k] = Carried(p)

\* The three together: nothing owed falls behind the cursor unseen.
Overtaking == PendingInOrder /\ CursorBehind /\ ReadyInOrder

\* A reconnect can still replay the event, or will notice that it cannot.
Replayable(e) ==
    \/ stale \/ floor > cursor
    \/ \E f \in Range(log) : f.id = e /\ f.seq > cursor

\* Where an event is that is owed and not settled.
Underway ==
    \A e \in owed : ~Settled(e) /\ (conn # "closed" \/ cursor # 0) =>
        \/ conn # "closed" /\ \E f \in Range(Pending) : f.id = e
        \/ conn # "open" /\ cursor # 0 /\ Replayable(e)

\* The inductive invariant; a gap the page has been told of ends the last part.
EventInv ==
    /\ TypeOK /\ Connection /\ Numbering /\ Unstamped /\ Ordered /\ Near /\ Logged
    /\ ~gap => Overtaking /\ Underway

-----------------------------------------------------------------------------
(* Sequences.                                                              *)

\* What a sequence holds after an element is added to it or its head is taken.
LEMMA RangeOfAppend ==
  ASSUME NEW S, NEW q \in Seq(S), NEW e
  PROVE  Range(Append(q, e)) = Range(q) \cup {e}
<1>1. /\ DOMAIN Append(q, e) = 1 .. Len(q) + 1 /\ DOMAIN q = 1 .. Len(q) /\ Len(q) \in Nat
      /\ Append(q, e)[Len(q) + 1] = e
      /\ \A i \in 1 .. Len(q) : Append(q, e)[i] = q[i]
  OBVIOUS
<1>2. Range(q) \cup {e} \subseteq Range(Append(q, e))
  BY <1>1 DEF Range
<1>3. ASSUME NEW i \in 1 .. Len(q) + 1 PROVE Append(q, e)[i] \in Range(q) \cup {e}
  <2>1. CASE i = Len(q) + 1
    BY <1>1, <2>1
  <2>2. CASE i \in 1 .. Len(q)
    BY <1>1, <2>2 DEF Range
  <2> QED
    BY <1>1, <2>1, <2>2
<1> QED
  BY <1>1, <1>2, <1>3 DEF Range

\* What a sequence holds once its head is taken.
LEMMA RangeOfTail ==
  ASSUME NEW S, NEW q \in Seq(S), q # <<>>
  PROVE  /\ Range(q) = Range(Tail(q)) \cup {Head(q)}
         /\ Tail(q) \in Seq(S) /\ Len(Tail(q)) = Len(q) - 1 /\ Head(q) = q[1] /\ Len(q) \in Nat \ {0}
         /\ \A i \in 1 .. Len(q) - 1 : Tail(q)[i] = q[i + 1]
<1>1. /\ Tail(q) \in Seq(S) /\ Len(Tail(q)) = Len(q) - 1 /\ Head(q) = q[1] /\ Len(q) \in Nat \ {0}
      /\ \A i \in 1 .. Len(q) - 1 : Tail(q)[i] = q[i + 1]
  OBVIOUS
<1>2. DOMAIN q = 1 .. Len(q) /\ DOMAIN Tail(q) = 1 .. Len(q) - 1
  BY <1>1
<1>3. Range(Tail(q)) \cup {Head(q)} \subseteq Range(q)
  BY <1>1, <1>2 DEF Range
<1>4. ASSUME NEW i \in 1 .. Len(q) PROVE q[i] \in Range(Tail(q)) \cup {Head(q)}
  <2>1. CASE i = 1
    BY <1>1, <2>1
  <2>2. CASE i # 1
    <3>1. i - 1 \in DOMAIN Tail(q) /\ Tail(q)[i - 1] = q[i]
      BY <1>1, <1>2, <2>2
    <3> QED
      BY <3>1 DEF Range
  <2> QED
    BY <2>1, <2>2
<1> QED
  BY <1>1, <1>2, <1>3, <1>4 DEF Range

\* The elements of a sequence of frames.
LEMMA FramesOf ==
  ASSUME NEW q \in Seq(Frame)
  PROVE  /\ Len(q) \in Nat /\ DOMAIN q = 1 .. Len(q)
         /\ \A i \in 1 .. Len(q) : q[i] \in Range(q) /\ q[i] \in Frame /\ q[i].seq \in Nat /\ q[i].id \in Event
         /\ \A f \in Range(q) : f \in Frame /\ f.seq \in Nat /\ f.id \in Event /\ \E i \in 1 .. Len(q) : q[i] = f
<1>1. \A f \in Frame : f.seq \in Nat /\ f.id \in Event
  BY DEF Frame
<1>2. /\ Len(q) \in Nat /\ DOMAIN q = 1 .. Len(q)
      /\ \A i \in 1 .. Len(q) : q[i] \in Frame
  OBVIOUS
<1> QED
  BY <1>1, <1>2 DEF Range

\* replay_since: the entries of the log above s, each once and in their order.
ReplayedFrom(s) ==
    LET w == ReplaySince(s)
    IN  /\ w \in Seq(Frame)
        /\ \E at \in [1 .. Len(w) -> 1 .. Len(log)] :
             /\ \A j \in 1 .. Len(w) : w[j] = log[at[j]] /\ w[j].seq > s
             /\ \A i, j \in 1 .. Len(w) : i < j => at[i] < at[j]
             /\ \A b \in 1 .. Len(log) : log[b].seq > s => \E j \in 1 .. Len(w) : at[j] = b

\* The loop of replay_since returns the frames of the log with a later seq, in its order.
LEMMA ReplayIsTheTail ==
  ASSUME NEW s \in Nat, log \in Seq(Frame)
  PROVE  ReplayedFrom(s)
<1> DEFINE N == Len(log)
<1> DEFINE Loop(n, g) == g = [i \in 0 .. n |->
             IF i = 0 THEN <<>> ELSE IF log[i].seq > s THEN Append(g[i - 1], log[i]) ELSE g[i - 1]]
<1> DEFINE Endless == {n \in 0 .. N : ~\E g : Loop(n, g)}
<1>a. N \in Nat
  OBVIOUS
<1>b. \A i \in 1 .. N : log[i] \in Frame
  OBVIOUS
<1> HIDE DEF N
<1>1. \A n \in 0 .. N : \E g : Loop(n, g)
  <2> SUFFICES ASSUME Endless # {} PROVE FALSE
    OBVIOUS
  <2>a. Endless \in SUBSET Nat
    BY <1>a
  <2> HIDE DEF Endless
  <2>1. PICK n \in Endless : \A m \in Endless : n <= m
    BY <2>a, SmallestNat
  <2>b. n \in 0 .. N /\ (\A m \in 0 .. N : m < n => m \notin Endless) /\ ~\E g : Loop(n, g)
    <3>1. Endless \subseteq 0 .. N /\ \A m \in Endless : ~\E g : Loop(m, g)
      BY DEF Endless
    <3> HIDE DEF Loop
    <3> QED
      BY <1>a, <2>1, <3>1
  <2>2. n # 0
    <3>1. Loop(0, [i \in 0 .. 0 |-> <<>>])
      OBVIOUS
    <3> QED
      BY <2>b, <3>1
  <2>3. n - 1 \in 0 .. N /\ n - 1 \notin Endless /\ n \in Nat
    BY <1>a, <2>b, <2>2
  <2>4. PICK g : Loop(n - 1, g)
    BY <2>3 DEF Endless
  <2> DEFINE h == [i \in 0 .. n |->
                     IF i = n THEN (IF log[n].seq > s THEN Append(g[n - 1], log[n]) ELSE g[n - 1]) ELSE g[i]]
  <2>5. \A i \in 0 .. n : h[i] = IF i = 0 THEN <<>>
                                ELSE IF log[i].seq > s THEN Append(h[i - 1], log[i]) ELSE h[i - 1]
    <3>1. ASSUME NEW i \in 0 .. n, i # n
          PROVE h[i] = IF i = 0 THEN <<>> ELSE IF log[i].seq > s THEN Append(h[i - 1], log[i]) ELSE h[i - 1]
      <4>1. i \in 0 .. n - 1 /\ h[i] = g[i]
        BY <2>3, <3>1
      <4>2. i # 0 => h[i - 1] = g[i - 1]
        BY <2>3, <3>1
      <4> HIDE DEF h
      <4> QED
        BY <2>4, <4>1, <4>2
    <3>2. h[n] = IF log[n].seq > s THEN Append(h[n - 1], log[n]) ELSE h[n - 1]
      BY <2>2, <2>3
    <3> QED
      BY <2>2, <3>1, <3>2
  <2>6. Loop(n, h)
    BY <2>5
  <2> QED
    BY <2>b, <2>6
<1> DEFINE out == CHOOSE g : Loop(N, g)
<1>2. Loop(N, out)
  <2> HIDE DEF Loop
  <2>1. \E g : Loop(N, g)
    BY <1>a, <1>1
  <2> QED
    BY <2>1
<1>3. ReplaySince(s) = out[N]
  BY DEF ReplaySince, N
<1> HIDE DEF out
<1>4. /\ out[0] = <<>>
      /\ \A i \in 1 .. N : out[i] = IF log[i].seq > s THEN Append(out[i - 1], log[i]) ELSE out[i - 1]
  <2>1. \A i \in 0 .. N : out[i] = IF i = 0 THEN <<>>
                  ELSE IF log[i].seq > s THEN Append(out[i - 1], log[i]) ELSE out[i - 1]
    BY <1>2
  <2> HIDE DEF Loop
  <2>2. ASSUME NEW i \in 1 .. N
        PROVE  out[i] = IF log[i].seq > s THEN Append(out[i - 1], log[i]) ELSE out[i - 1]
    <3>1. i # 0 /\ i \in 0 .. N
      BY <1>a
    <3> QED
      BY <2>1, <3>1
  <2> QED
    BY <1>a, <2>1, <2>2
<1> HIDE DEF Loop, Endless
<1> DEFINE Picks(n, at) ==
             /\ out[n] \in Seq(Frame)
             /\ at \in [1 .. Len(out[n]) -> 1 .. n]
             /\ \A j \in 1 .. Len(out[n]) : out[n][j] = log[at[j]] /\ out[n][j].seq > s
             /\ \A i, j \in 1 .. Len(out[n]) : i < j => at[i] < at[j]
             /\ \A b \in 1 .. n : log[b].seq > s => \E j \in 1 .. Len(out[n]) : at[j] = b
<1> DEFINE Wrong == {n \in 0 .. N : ~\E at : Picks(n, at)}
<1>5. \A n \in 0 .. N : \E at : Picks(n, at)
  <2> HIDE DEF Picks
  <2> SUFFICES ASSUME Wrong # {} PROVE FALSE
    OBVIOUS
  <2> USE DEF Picks
  <2>a. Wrong \in SUBSET Nat
    BY <1>a
  <2> HIDE DEF Wrong
  <2>1. PICK n \in Wrong : \A m \in Wrong : n <= m
    BY <2>a, SmallestNat
  <2>b. n \in 0 .. N /\ (\A m \in 0 .. N : m < n => m \notin Wrong) /\ ~\E at : Picks(n, at)
    <3>1. Wrong \subseteq 0 .. N /\ \A m \in Wrong : ~\E at : Picks(m, at)
      BY DEF Wrong
    <3> HIDE DEF Picks
    <3> QED
      BY <1>a, <2>1, <3>1
  <2>2. n # 0
    <3>1. Picks(0, [j \in 1 .. 0 |-> 0])
      BY <1>4
    <3> HIDE DEF Picks
    <3> QED
      BY <2>b, <3>1
  <2>3. n - 1 \in 0 .. N /\ n - 1 \notin Wrong /\ n \in 1 .. N /\ n \in Nat
    BY <1>a, <2>b, <2>2
  <2>4. PICK at : Picks(n - 1, at)
    <3> HIDE DEF Picks
    <3> QED
      BY <2>3 DEF Wrong
  <2>5. CASE ~(log[n].seq > s)
    <3>1. out[n] = out[n - 1]
      BY <1>4, <2>3, <2>5
    <3>2. Picks(n, at)
      <4>1. at \in [1 .. Len(out[n]) -> 1 .. n]
        BY <2>3, <2>4, <3>1
      <4>2. \A b \in 1 .. n : log[b].seq > s => b \in 1 .. n - 1
        BY <2>3, <2>5
      <4> QED
        BY <2>4, <3>1, <4>1, <4>2
    <3> HIDE DEF Picks
    <3> QED
      BY <2>b, <3>2
  <2>6. CASE log[n].seq > s
    <3> DEFINE q == out[n - 1]
    <3> DEFINE nat == [j \in 1 .. Len(q) + 1 |-> IF j = Len(q) + 1 THEN n ELSE at[j]]
    <3>1. out[n] = Append(q, log[n]) /\ log[n] \in Frame /\ q \in Seq(Frame) /\ Len(q) \in Nat
      <4>1. n \in 1 .. N
        BY <2>3
      <4>2. q \in Seq(Frame)
        BY <2>4
      <4>3. out[n] = Append(q, log[n])
        BY <1>4, <2>6, <4>1
      <4>4. log[n] \in Frame
        BY <1>b, <4>1
      <4> HIDE DEF q
      <4> QED
        BY <4>2, <4>3, <4>4
    <3>2. /\ out[n] \in Seq(Frame) /\ Len(out[n]) = Len(q) + 1 /\ out[n][Len(q) + 1] = log[n]
          /\ \A j \in 1 .. Len(q) : out[n][j] = q[j]
      BY <3>1
    <3>3. /\ \A j \in 1 .. Len(q) : nat[j] = at[j] /\ at[j] \in 1 .. n - 1
          /\ nat[Len(q) + 1] = n /\ DOMAIN nat = 1 .. Len(q) + 1
      <4>1. at \in [1 .. Len(q) -> 1 .. n - 1] /\ Len(q) \in Nat
        BY <2>4, <3>1
      <4> HIDE DEF q, Picks
      <4> QED
        BY <4>1
    <3>4. nat \in [1 .. Len(q) + 1 -> 1 .. n]
      BY <2>3, <2>4, <3>1
    <3> HIDE DEF nat
    <3>5. ASSUME NEW j \in 1 .. Len(out[n]) PROVE out[n][j] = log[nat[j]] /\ out[n][j].seq > s
      BY <2>4, <2>6, <3>1, <3>2, <3>3
    <3>6. ASSUME NEW i \in 1 .. Len(out[n]), NEW j \in 1 .. Len(out[n]), i < j PROVE nat[i] < nat[j]
      <4>1. i \in 1 .. Len(q)
        BY <3>1, <3>2, <3>6
      <4>2. CASE j = Len(q) + 1
        <5>1. nat[i] \in 1 .. n - 1 /\ nat[j] = n
          BY <3>3, <4>1, <4>2
        <5> QED
          BY <2>3, <5>1
      <4>3. CASE j \in 1 .. Len(q)
        BY <2>4, <3>3, <3>6, <4>1, <4>3
      <4> QED
        BY <3>1, <3>2, <4>2, <4>3
    <3>7. ASSUME NEW b \in 1 .. n, log[b].seq > s PROVE \E j \in 1 .. Len(out[n]) : nat[j] = b
      <4>1. CASE b = n
        <5>1. Len(q) + 1 \in 1 .. Len(out[n]) /\ nat[Len(q) + 1] = b
          BY <3>1, <3>2, <3>3, <4>1
        <5> QED
          BY <5>1
      <4>2. CASE b # n
        <5>1. b \in 1 .. n - 1
          BY <2>3, <4>2
        <5>2. PICK j \in 1 .. Len(q) : at[j] = b
          BY <2>4, <3>7, <5>1
        <5> QED
          BY <3>1, <3>2, <3>3, <5>2
      <4> QED
        BY <4>1, <4>2
    <3>8. Picks(n, nat)
      BY <3>2, <3>4, <3>5, <3>6, <3>7
    <3> HIDE DEF Picks
    <3> QED
      BY <2>b, <3>8
  <2> QED
    BY <2>5, <2>6
<1>6. PICK at : Picks(N, at)
  <2> HIDE DEF Picks
  <2> QED
    BY <1>a, <1>5
<1> QED
  BY <1>3, <1>6 DEF N, ReplayedFrom

-----------------------------------------------------------------------------
(* What the steps do.                                                      *)

\* What a producer holds.
HandType == [stage : {"idle", "stamped", "ready"}, n : 0 .. MaxEvents, seq : Nat]

\* A producer takes up, stamps or puts down an event; the others keep theirs.
LEMMA HoldIs ==
  ASSUME TypeOK, NEW p \in Producers, NEW stage \in {"idle", "stamped", "ready"},
         NEW n \in 0 .. MaxEvents, NEW s \in Nat, Hold(p, stage, n, s)
  PROVE  /\ hand' \in [Producers -> HandType]
         /\ hand'[p].stage = stage /\ hand'[p].n = n /\ hand'[p].seq = s
         /\ \A q \in Producers : q # p => hand'[q] = hand[q]
<1>1. hand \in [Producers -> HandType]
  BY DEF TypeOK, HandType
<1> DEFINE new == [stage |-> stage, n |-> n, seq |-> s]
<1>2. new \in HandType /\ new.stage = stage /\ new.n = n /\ new.seq = s
  BY DEF HandType
<1>3. hand' = [hand EXCEPT ![p] = new]
  BY DEF Hold
<1> HIDE DEF new, HandType
<1> QED
  BY <1>1, <1>2, <1>3

\* An event meets an obstacle, and no event is cleared of one.
LEMMA BlameIs ==
  ASSUME TypeOK, NEW why \in Obstacles, NEW ids \in SUBSET Event, Blame(why, ids)
  PROVE  /\ blame' \in [Obstacles -> SUBSET Event]
         /\ blame'[why] = blame[why] \cup ids
         /\ \A w \in Obstacles : w # why => blame'[w] = blame[w]
BY DEF TypeOK, Blame

\* What a producer holds is a frame.
LEMMA CarriedIsFrame ==
  ASSUME TypeOK, Connection, NEW p \in Producers, hand[p].stage # "idle"
  PROVE  /\ Carried(p) \in Frame /\ Carried(p).seq = hand[p].seq /\ Carried(p).id = Current(p)
         /\ Current(p) \in Event /\ Current(p)[2] = hand[p].n /\ Current(p)[1] = p
         /\ hand[p].n \in 1 .. MaxEvents /\ hand[p].seq \in Nat
<1>1. hand[p] \in HandType
  BY DEF TypeOK, HandType
<1>2. hand[p].n \in 1 .. MaxEvents /\ hand[p].seq \in Nat
  BY <1>1, SizesAssumption DEF HandType, Connection
<1> QED
  BY <1>2 DEF Carried, Current, Frame, Event

\* The pipeline adds the entry at the end; a full log loses its first entry.
LEMMA PipelineIs ==
  ASSUME TypeOK, Connection, NEW p \in Producers, hand[p].stage # "idle", Pipeline(p)
  PROVE  /\ log' \in Seq(Frame) /\ Len(log') <= Buffer /\ age' = 0 /\ floor' \in Nat
         /\ Len(log) \in Nat /\ Len(log') \in Nat \ {0} /\ log'[Len(log')] = Carried(p)
         /\ \E d \in {0, 1} :
              /\ Len(log') = Len(log) + 1 - d
              /\ \A i \in 1 .. Len(log) - d : log'[i] = log[i + d]
              /\ d = 0 => floor' = floor
              /\ d = 1 => Len(log) = Buffer /\ floor' = IF log[1].seq > floor THEN log[1].seq ELSE floor
<1> DEFINE more == Append(log, Carried(p))
<1>a. log \in Seq(Frame) /\ Len(log) \in Nat /\ Len(log) <= Buffer /\ floor \in Nat /\ Buffer \in Nat \ {0}
  BY SizesAssumption DEF TypeOK
<1>b. /\ more \in Seq(Frame) /\ Len(more) = Len(log) + 1 /\ more[Len(log) + 1] = Carried(p)
      /\ \A i \in 1 .. Len(log) : more[i] = log[i]
  <2>1. Carried(p) \in Frame
    BY CarriedIsFrame
  <2> HIDE DEF Frame
  <2> QED
    BY <1>a, <2>1
<1>c. log' = LastEvents(more) /\ age' = 0 /\ floor' = IF Len(log) = Buffer /\ log[1].seq > floor THEN log[1].seq ELSE floor
  BY DEF Pipeline, Carried
<1>d. \A i \in 1 .. Len(log) : log[i].seq \in Nat
  BY <1>a, FramesOf
<1> HIDE DEF more
<1>1. CASE Len(log) < Buffer
  <2>1. log' = more /\ floor' = floor
    BY <1>a, <1>b, <1>c, <1>1 DEF LastEvents
  <2> QED
    BY <1>a, <1>b, <1>c, <1>1, <2>1
<1>2. CASE Len(log) = Buffer
  <2>1. log' = SubSeq(more, 2, Buffer + 1)
    BY <1>a, <1>b, <1>c, <1>2 DEF LastEvents
  <2>2. /\ Len(log') = Buffer /\ log' \in Seq(Frame)
        /\ \A i \in 1 .. Buffer : log'[i] = more[i + 1]
    <3> HIDE DEF Frame
    <3> QED
      BY <1>a, <1>b, <1>2, <2>1
  <2>3. \A i \in 1 .. Len(log) - 1 : log'[i] = log[i + 1]
    BY <1>a, <1>b, <1>2, <2>2
  <2>4. log'[Len(log')] = Carried(p) /\ floor' \in Nat
    BY <1>a, <1>b, <1>c, <1>d, <1>2, <2>2
  <2> QED
    BY <1>a, <1>c, <1>2, <2>2, <2>3, <2>4
<1> QED
  BY <1>a, <1>1, <1>2

\* An entry of the log is kept or trimmed, and nothing but the new entry is added.
LEMMA PipelineKeeps ==
  ASSUME TypeOK, Connection, NEW p \in Producers, hand[p].stage # "idle", Pipeline(p)
  PROVE  /\ Range(log') \subseteq Range(log) \cup {Carried(p)} /\ Carried(p) \in Range(log')
         /\ \A f \in Range(log) : f \in Range(log') \/ f.seq <= floor'
         /\ floor <= floor'
         /\ floor' # floor => \E f \in Range(log) : f.seq = floor'
<1>a. /\ log \in Seq(Frame) /\ floor \in Nat /\ Buffer \in Nat \ {0} /\ log' \in Seq(Frame) /\ floor' \in Nat
      /\ Len(log) \in Nat /\ Len(log') \in Nat \ {0} /\ log'[Len(log')] = Carried(p)
      /\ DOMAIN log = 1 .. Len(log) /\ DOMAIN log' = 1 .. Len(log')
  <2>1. log \in Seq(Frame) /\ floor \in Nat /\ Buffer \in Nat \ {0}
    BY SizesAssumption DEF TypeOK
  <2>2. /\ log' \in Seq(Frame) /\ floor' \in Nat /\ Len(log') \in Nat \ {0}
        /\ log'[Len(log')] = Carried(p)
    BY PipelineIs
  <2> QED
    BY <2>1, <2>2, FramesOf
<1>b. /\ \A i \in 1 .. Len(log) : log[i].seq \in Nat /\ log[i] \in Range(log)
      /\ \A i \in 1 .. Len(log') : log'[i] \in Range(log')
  BY <1>a, FramesOf
<1>1. PICK d \in {0, 1} :
         /\ Len(log') = Len(log) + 1 - d
         /\ \A i \in 1 .. Len(log) - d : log'[i] = log[i + d]
         /\ d = 0 => floor' = floor
         /\ d = 1 => Len(log) = Buffer /\ floor' = IF log[1].seq > floor THEN log[1].seq ELSE floor
  BY PipelineIs
<1>2. ASSUME NEW i \in 1 .. Len(log') PROVE log'[i] \in Range(log) \cup {Carried(p)}
  <2>1. CASE i = Len(log')
    BY <1>a, <2>1
  <2>2. CASE i # Len(log')
    <3>1. i \in 1 .. Len(log) - d /\ i + d \in 1 .. Len(log)
      <4>1. Len(log) \in Nat /\ Len(log') = Len(log) + 1 - d /\ d \in {0, 1}
        BY <1>a, <1>1
      <4> QED
        BY <2>2, <4>1
    <3> QED
      BY <1>b, <1>1, <3>1
  <2> QED
    BY <2>1, <2>2
<1>3. ASSUME NEW i \in 1 .. Len(log) PROVE log[i] \in Range(log') \/ log[i].seq <= floor'
  <2>1. CASE i - d \in 1 .. Len(log) - d
    <3>1. i - d \in 1 .. Len(log') /\ (i - d) + d = i
      <4>1. Len(log) \in Nat /\ Len(log') = Len(log) + 1 - d /\ d \in {0, 1}
        BY <1>a, <1>1
      <4> QED
        BY <2>1, <4>1
    <3>2. log'[i - d] = log[i]
      BY <1>1, <2>1, <3>1
    <3> QED
      BY <1>b, <3>1, <3>2
  <2>2. CASE i - d \notin 1 .. Len(log) - d
    <3>1. d = 1 /\ i = 1
      BY <1>a, <2>2
    <3> QED
      BY <1>a, <1>b, <1>1, <3>1
  <2> QED
    BY <2>1, <2>2
<1>4. floor <= floor' /\ (floor' # floor => \E f \in Range(log) : f.seq = floor')
  <2>1. CASE d = 0
    BY <1>a, <1>1, <2>1
  <2>2. CASE d = 1
    <3>1. 1 \in 1 .. Len(log)
      BY <1>a, <1>1, <2>2
    <3>2. log[1] \in Range(log) /\ log[1].seq \in Nat
      BY <1>b, <3>1
    <3> QED
      BY <1>a, <1>1, <2>2, <3>2
  <2> QED
    BY <2>1, <2>2
<1>5. Carried(p) \in Range(log')
  BY <1>a, <1>b
<1>6. Range(log') \subseteq Range(log) \cup {Carried(p)}
  BY <1>a, <1>2 DEF Range
<1>7. \A f \in Range(log) : f \in Range(log') \/ f.seq <= floor'
  <2> SUFFICES ASSUME NEW f \in Range(log) PROVE f \in Range(log') \/ f.seq <= floor'
    OBVIOUS
  <2>1. PICK i \in 1 .. Len(log) : f = log[i]
    BY <1>a DEF Range
  <2> QED
    BY <1>3, <2>1
<1> QED
  BY <1>4, <1>5, <1>6, <1>7

\* Frames on the socket, then frames in the queue.
LEMMA FramesJoined ==
  ASSUME NEW w \in Seq(Frame), NEW c \in Seq(Frame), NEW q, q = w \o c
  PROVE  /\ q \in Seq(Frame) /\ Len(q) = Len(w) + Len(c)
         /\ Len(w) \in Nat /\ Len(c) \in Nat
         /\ \A i \in 1 .. Len(w) : q[i] = w[i]
         /\ \A i \in 1 .. Len(c) : q[Len(w) + i] = c[i]
         /\ \A i \in 1 .. Len(q) :
              i \in 1 .. Len(w) \/ (i - Len(w) \in 1 .. Len(c) /\ q[i] = c[i - Len(w)])
         /\ Range(q) = Range(w) \cup Range(c)
<1>1. /\ q \in Seq(Frame) /\ Len(q) = Len(w) + Len(c)
      /\ Len(w) \in Nat /\ Len(c) \in Nat
      /\ \A i \in 1 .. Len(w) : q[i] = w[i]
      /\ \A i \in 1 .. Len(c) : q[Len(w) + i] = c[i]
  <2> HIDE DEF Frame
  <2> QED
    OBVIOUS
<1>2. ASSUME NEW i \in 1 .. Len(q)
      PROVE  i \in 1 .. Len(w) \/ (i - Len(w) \in 1 .. Len(c) /\ q[i] = c[i - Len(w)])
  <2>1. CASE i \in 1 .. Len(w)
    BY <2>1
  <2>2. CASE i \notin 1 .. Len(w)
    <3>1. i - Len(w) \in 1 .. Len(c) /\ Len(w) + (i - Len(w)) = i
      BY <1>1, <2>2
    <3> QED
      BY <1>1, <3>1
  <2> QED
    BY <2>1, <2>2
<1>3. /\ \A j \in 1 .. Len(w) : w[j] \in Range(w)
      /\ \A j \in 1 .. Len(c) : c[j] \in Range(c)
      /\ \A j \in 1 .. Len(q) : q[j] \in Range(q)
      /\ \A f \in Range(w) : \E j \in 1 .. Len(w) : w[j] = f
      /\ \A f \in Range(c) : \E j \in 1 .. Len(c) : c[j] = f
      /\ \A f \in Range(q) : \E j \in 1 .. Len(q) : q[j] = f
  BY <1>1, FramesOf
<1>4. Range(q) \subseteq Range(w) \cup Range(c)
  <2>1. \A i \in 1 .. Len(q) : q[i] \in Range(w) \cup Range(c)
    BY <1>1, <1>2, <1>3
  <2> QED
    BY <1>3, <2>1
<1>5. Range(w) \subseteq Range(q)
  <2>1. \A j \in 1 .. Len(w) : j \in 1 .. Len(q)
    BY <1>1
  <2>2. \A j \in 1 .. Len(w) : w[j] \in Range(q)
    BY <1>1, <1>3, <2>1
  <2> QED
    BY <1>3, <2>2
<1>6. Range(c) \subseteq Range(q)
  <2>1. \A j \in 1 .. Len(c) : Len(w) + j \in 1 .. Len(q)
    BY <1>1
  <2>2. \A j \in 1 .. Len(c) : c[j] \in Range(q)
    BY <1>1, <1>3, <2>1
  <2> QED
    BY <1>3, <2>2
<1> QED
  BY <1>1, <1>2, <1>4, <1>5, <1>6

\* What is pending is what is on the socket and then what is in the queue.
LEMMA PendingIs ==
  ASSUME TypeOK
  PROVE  /\ Pending \in Seq(Frame) /\ Len(Pending) = Len(wire) + Len(chan)
         /\ Len(wire) \in Nat /\ Len(chan) \in Nat
         /\ \A i \in 1 .. Len(wire) : Pending[i] = wire[i]
         /\ \A i \in 1 .. Len(chan) : Pending[Len(wire) + i] = chan[i]
         /\ \A i \in 1 .. Len(Pending) :
              i \in 1 .. Len(wire) \/ (i - Len(wire) \in 1 .. Len(chan) /\ Pending[i] = chan[i - Len(wire)])
         /\ Range(Pending) = Range(wire) \cup Range(chan)
<1>1. wire \in Seq(Frame) /\ chan \in Seq(Frame)
  BY DEF TypeOK
<1> QED
  BY <1>1, FramesJoined DEF Pending

\* The queue gives its head to the socket: nothing changes for who waits.
LEMMA ThreadEventIs ==
  ASSUME TypeOK, ThreadEvent
  PROVE  /\ wire' \in Seq(Frame) /\ chan' \in Seq(Frame) /\ Len(chan') <= ChanCap
         /\ Pending' = Pending /\ conn = "open"
         /\ UNCHANGED <<redis, feed, conn, since, browser, history>>
<1>a. wire \in Seq(Frame) /\ chan \in Seq(Frame) /\ chan # <<>> /\ Len(chan) <= ChanCap /\ ChanCap \in Nat
  BY SizesAssumption DEF TypeOK, ThreadEvent
<1>b. wire' = Append(wire, Head(chan)) /\ chan' = Tail(chan)
  BY DEF ThreadEvent
<1> HIDE DEF Frame
<1>1. wire' \in Seq(Frame) /\ chan' \in Seq(Frame) /\ Len(chan') <= ChanCap
  BY <1>a, <1>b
<1>2. wire' \o chan' = wire \o chan
  <2>1. Len(wire' \o chan') = Len(wire \o chan)
    BY <1>a, <1>b
  <2>2. \A i \in 1 .. Len(wire \o chan) : (wire' \o chan')[i] = (wire \o chan)[i]
    BY <1>a, <1>b
  <2>3. wire \o chan \in Seq(Frame) /\ wire' \o chan' \in Seq(Frame)
    BY <1>a, <1>1
  <2> QED
    BY <2>1, <2>2, <2>3, SeqEqual
<1> QED
  BY <1>1, <1>2 DEF Pending, ThreadEvent

\* A broadcast puts the producer's event at the end of what is pending, or it is
\* lost to a full queue, or nobody listens.
LEMMA SendIs ==
  ASSUME TypeOK, Connection, NEW p \in Producers, Send(p),
         NEW f, f = Carried(p), NEW e, e = Current(p)
  PROVE  /\ hand[p].stage = "ready" /\ f \in Frame /\ f.id = e /\ f.seq = hand[p].seq /\ e \in Event
         /\ hand' \in [Producers -> HandType] /\ hand'[p] = NoEvent
         /\ \A q \in Producers : q # p => hand'[q] = hand[q]
         /\ chan' \in Seq(Frame) /\ Len(chan') <= ChanCap
         /\ \/ chan' = Append(chan, f) /\ Pending' = Append(Pending, f) /\ conn # "closed"
            \/ chan' = chan /\ Pending' = Pending /\ (conn # "closed" => e \in blame'["crowded"])
         /\ blame' \in [Obstacles -> SUBSET Event] /\ \A w \in Obstacles : blame[w] \subseteq blame'[w]
         /\ blame'["unstamped"] = blame["unstamped"]
         /\ f.seq # 0 /\ f.seq < sent => e \in blame'["overtaken"]
         /\ owed' = IF conn # "closed" \/ cursor # 0 THEN owed \cup {e} ELSE owed
         /\ sent' \in Nat /\ sent <= sent' /\ f.seq <= sent' /\ sent' \in {sent, f.seq}
         /\ UNCHANGED <<redis, emitted, conn, since, wire, browser, stale, floor, gap>>
<1>1. /\ hand[p].stage = "ready" /\ UNCHANGED <<redis, emitted, conn, since, wire, browser, stale, floor, gap>>
      /\ hand' = [hand EXCEPT ![p] = NoEvent]
      /\ chan' = IF InGroup /\ ~Full THEN Append(chan, f) ELSE chan
      /\ blame' = [blame EXCEPT
                   !["crowded"] = IF InGroup /\ Full THEN @ \cup {e} ELSE @,
                   !["overtaken"] = IF Overtaken(p) THEN @ \cup {e} ELSE @]
      /\ owed' = IF conn # "closed" \/ cursor # 0 THEN owed \cup {e} ELSE owed
      /\ sent' = IF hand[p].seq > sent THEN hand[p].seq ELSE sent
  <2>1. f = [id |-> e, seq |-> hand[p].seq]
    BY DEF Carried
  <2>2. e = Current(p)
    OBVIOUS
  <2> HIDE DEF Carried
  <2> QED
    BY <2>1, <2>2 DEF Send
<1>b. sent' = (IF f.seq > sent THEN f.seq ELSE sent) /\ sent \in Nat
  BY <1>1 DEF Carried, TypeOK
<1>c. /\ chan' = IF InGroup /\ ~Full THEN Append(chan, f) ELSE chan
      /\ wire' = wire
  BY <1>1
<1>d. /\ blame' = [blame EXCEPT
                   !["crowded"] = IF InGroup /\ Full THEN @ \cup {e} ELSE @,
                   !["overtaken"] = IF Overtaken(p) THEN @ \cup {e} ELSE @]
  BY <1>1
<1>2. f \in Frame /\ f.seq = hand[p].seq /\ f.id = e /\ e \in Event /\ hand[p].seq \in Nat
  BY <1>1, CarriedIsFrame
<1>3. hand' \in [Producers -> HandType] /\ hand'[p] = NoEvent
      /\ \A q \in Producers : q # p => hand'[q] = hand[q]
  <2>1. hand \in [Producers -> HandType] /\ NoEvent \in HandType
    BY SizesAssumption DEF TypeOK, HandType, NoEvent
  <2> HIDE DEF HandType, NoEvent
  <2> QED
    BY <1>1, <2>1
<1>4. /\ chan' \in Seq(Frame) /\ Len(chan') <= ChanCap
      /\ \/ chan' = Append(chan, f) /\ Pending' = Append(Pending, f) /\ conn # "closed"
         \/ chan' = chan /\ Pending' = Pending /\ (conn # "closed" => Full)
  <2>a. chan \in Seq(Frame) /\ wire \in Seq(Frame) /\ Len(chan) <= ChanCap /\ ChanCap \in Nat
    BY SizesAssumption DEF TypeOK
  <2>b. wire' = wire
    BY <1>c
  <2> HIDE DEF Frame
  <2>1. CASE InGroup /\ ~Full
    <3>1. chan' = Append(chan, f) /\ Len(chan) < ChanCap /\ conn # "closed"
      BY <1>c, <2>a, <2>1 DEF InGroup, Full
    <3>2. chan' \in Seq(Frame) /\ Len(chan') <= ChanCap
      BY <1>2, <2>a, <3>1
    <3>3. wire \o Append(chan, f) = Append(wire \o chan, f)
      <4>1. wire \o Append(chan, f) \in Seq(Frame) /\ Append(wire \o chan, f) \in Seq(Frame)
        BY <1>2, <2>a
      <4>2. Len(wire \o Append(chan, f)) = Len(Append(wire \o chan, f))
        BY <1>2, <2>a
      <4>3. \A i \in 1 .. Len(wire \o Append(chan, f)) : (wire \o Append(chan, f))[i] = Append(wire \o chan, f)[i]
        BY <1>2, <2>a
      <4> QED
        BY <4>1, <4>2, <4>3, SeqEqual
    <3> QED
      BY <2>b, <3>1, <3>2, <3>3 DEF Pending
  <2>2. CASE ~(InGroup /\ ~Full)
    <3>1. chan' = chan
      BY <1>c, <2>2
    <3> QED
      BY <2>a, <2>b, <2>2, <3>1 DEF InGroup, Pending
  <2> QED
    BY <2>1, <2>2
<1>5. /\ blame' \in [Obstacles -> SUBSET Event] /\ \A w \in Obstacles : blame[w] \subseteq blame'[w]
      /\ blame'["unstamped"] = blame["unstamped"]
      /\ InGroup /\ Full => e \in blame'["crowded"]
      /\ Overtaken(p) => e \in blame'["overtaken"]
  <2>1. blame \in [Obstacles -> SUBSET Event]
    BY DEF TypeOK
  <2> HIDE DEF Event
  <2> QED
    BY <1>d, <1>2, <2>1 DEF Obstacles
<1>6. sent' \in Nat /\ sent <= sent' /\ f.seq <= sent' /\ sent' \in {sent, f.seq}
  BY <1>b, <1>2
<1>7. f.seq # 0 /\ f.seq < sent => e \in blame'["overtaken"]
  BY <1>2, <1>5 DEF Overtaken
<1>8. \/ chan' = Append(chan, f) /\ Pending' = Append(Pending, f) /\ conn # "closed"
      \/ chan' = chan /\ Pending' = Pending /\ (conn # "closed" => e \in blame'["crowded"])
  BY <1>4, <1>5 DEF InGroup
<1>9. /\ hand[p].stage = "ready" /\ UNCHANGED <<redis, emitted, conn, since, wire, browser, stale, floor, gap>>
      /\ owed' = IF conn # "closed" \/ cursor # 0 THEN owed \cup {e} ELSE owed
  BY <1>1
<1> QED
  BY <1>2, <1>3, <1>4, <1>5, <1>6, <1>7, <1>8, <1>9

\* The page takes the head of what is pending.
LEMMA ReceiveIs ==
  ASSUME TypeOK, Receive, NEW f, f = Head(wire)
  PROVE  /\ wire \in Seq(Frame) /\ wire # <<>> /\ Len(wire) \in Nat \ {0} /\ f = wire[1] /\ f \in Range(wire)
         /\ wire' \in Seq(Frame) /\ Len(wire') = Len(wire) - 1
         /\ \A i \in 1 .. Len(wire) - 1 : wire'[i] = wire[i + 1]
         /\ Pending \in Seq(Frame) /\ Len(Pending) \in Nat \ {0} /\ Pending[1] = f /\ f \in Range(Pending)
         /\ Pending' \in Seq(Frame) /\ Len(Pending') = Len(Pending) - 1 /\ Range(Pending) = Range(Pending') \cup {f}
         /\ \A i \in 1 .. Len(Pending) - 1 : Pending'[i] = Pending[i + 1]
         /\ f \in Frame /\ f.seq \in Nat /\ f.id \in Event
         /\ UNCHANGED <<redis, feed, conn, since, chan, owed, floor, sent, gap>>
<1>a. wire \in Seq(Frame) /\ chan \in Seq(Frame) /\ wire # <<>> /\ wire' = Tail(wire)
      /\ UNCHANGED <<redis, feed, conn, since, chan, owed, floor, sent, gap>> /\ chan' = chan
  BY DEF TypeOK, Receive, server
<1>1. /\ Range(wire) = Range(Tail(wire)) \cup {f}
      /\ Tail(wire) \in Seq(Frame) /\ Len(Tail(wire)) = Len(wire) - 1 /\ f = wire[1] /\ Len(wire) \in Nat \ {0}
      /\ \A i \in 1 .. Len(wire) - 1 : Tail(wire)[i] = wire[i + 1]
  BY <1>a, RangeOfTail
<1>2. f \in Frame /\ f.seq \in Nat /\ f.id \in Event
  BY <1>a, <1>1, FramesOf
<1>3. Pending \in Seq(Frame) /\ Pending # <<>> /\ Head(Pending) = f /\ Tail(Pending) = Pending'
  <2> HIDE DEF Frame
  <2>1. wire \o chan \in Seq(Frame) /\ wire \o chan # <<>> /\ Head(wire \o chan) = f
    BY <1>a, <1>1
  <2>2. Tail(wire \o chan) = Tail(wire) \o chan
    <3>1. Tail(wire \o chan) \in Seq(Frame) /\ Tail(wire) \o chan \in Seq(Frame)
      BY <1>a, <1>1, <2>1
    <3>2. Len(Tail(wire \o chan)) = Len(Tail(wire) \o chan)
      BY <1>a, <1>1, <2>1
    <3>3. \A i \in 1 .. Len(Tail(wire \o chan)) : Tail(wire \o chan)[i] = (Tail(wire) \o chan)[i]
      BY <1>a, <1>1, <2>1
    <3> QED
      BY <3>1, <3>2, <3>3, SeqEqual
  <2> QED
    BY <1>a, <2>1, <2>2 DEF Pending
<1>4. /\ Range(Pending) = Range(Tail(Pending)) \cup {f}
      /\ Tail(Pending) \in Seq(Frame) /\ Len(Tail(Pending)) = Len(Pending) - 1 /\ f = Pending[1] /\ Len(Pending) \in Nat \ {0}
      /\ \A i \in 1 .. Len(Pending) - 1 : Tail(Pending)[i] = Pending[i + 1]
  BY <1>3, RangeOfTail
<1> QED
  BY <1>a, <1>1, <1>2, <1>3, <1>4

\* A push that fails after Redis executed it, or before.
Piped(p) == Pipeline(p) \/ UNCHANGED <<log, age, floor>>

\* Taking up an event, with its seq or without one.
LEMMA StampIs ==
  ASSUME TypeOK, NEW p \in Producers, Stamp(p)
  PROVE  /\ hand[p].stage = "idle" /\ emitted' = emitted + 1 /\ emitted' \in 1 .. MaxEvents /\ Prompt
         /\ seq' = seq + 1 /\ UNCHANGED <<log, age, server, browser, history>>
         /\ hand' \in [Producers -> HandType]
         /\ hand'[p].stage = "stamped" /\ hand'[p].n = emitted + 1 /\ hand'[p].seq = seq + 1
         /\ \A q \in Producers : q # p => hand'[q] = hand[q]
<1>1. /\ hand[p].stage = "idle" /\ emitted' = emitted + 1 /\ emitted < MaxEvents /\ Prompt
      /\ seq' = seq + 1 /\ UNCHANGED <<log, age, server, browser, history>>
      /\ Hold(p, "stamped", emitted', seq + 1)
  BY DEF Stamp, Begin
<1>2. emitted' \in 1 .. MaxEvents /\ seq + 1 \in Nat
  BY <1>1, SizesAssumption DEF TypeOK
<1>3. emitted' \in 0 .. MaxEvents
  BY <1>2
<1> QED
  BY <1>1, <1>2, <1>3, HoldIs

\* An event that got no seq goes to the group without one.
LEMMA StampFailsIs ==
  ASSUME TypeOK, NEW p \in Producers, StampFails(p)
  PROVE  /\ hand[p].stage = "idle" /\ emitted' = emitted + 1 /\ emitted' \in 1 .. MaxEvents
         /\ UNCHANGED <<redis, server, browser, owed, stale, floor, sent, gap>>
         /\ hand' \in [Producers -> HandType]
         /\ hand'[p].stage = "ready" /\ hand'[p].n = emitted + 1 /\ hand'[p].seq = 0
         /\ \A q \in Producers : q # p => hand'[q] = hand[q]
         /\ blame' \in [Obstacles -> SUBSET Event] /\ \A w \in Obstacles : blame[w] \subseteq blame'[w]
         /\ <<p, emitted + 1>> \in blame'["unstamped"]
<1>1. /\ hand[p].stage = "idle" /\ emitted' = emitted + 1 /\ emitted < MaxEvents
      /\ UNCHANGED <<redis, server, browser, owed, stale, floor, sent, gap>>
      /\ Hold(p, "ready", emitted', 0) /\ Blame("unstamped", {<<p, emitted'>>})
  BY DEF StampFails, Begin
<1>2. emitted' \in 1 .. MaxEvents /\ emitted' \in 0 .. MaxEvents
  BY <1>1, SizesAssumption DEF TypeOK
<1>3. {<<p, emitted'>>} \in SUBSET Event /\ "unstamped" \in Obstacles
  BY <1>2 DEF Event, Obstacles
<1>4. /\ blame' \in [Obstacles -> SUBSET Event]
      /\ blame'["unstamped"] = blame["unstamped"] \cup {<<p, emitted'>>}
      /\ \A w \in Obstacles : w # "unstamped" => blame'[w] = blame[w]
  BY <1>1, <1>3, BlameIs
<1>5. /\ hand' \in [Producers -> HandType]
      /\ hand'[p].stage = "ready" /\ hand'[p].n = emitted' /\ hand'[p].seq = 0
      /\ \A q \in Producers : q # p => hand'[q] = hand[q]
  BY <1>1, <1>2, HoldIs
<1> QED
  BY <1>1, <1>2, <1>4, <1>5

\* The event goes into the log, behind a later one or not.
LEMMA PushIs ==
  ASSUME TypeOK, Connection, NEW p \in Producers, Push(p)
  PROVE  /\ hand[p].stage = "stamped" /\ Pipeline(p)
         /\ UNCHANGED <<seq, emitted, server, browser, owed, stale, sent, gap>>
         /\ hand' \in [Producers -> HandType]
         /\ hand'[p].stage = "ready" /\ hand'[p].n = hand[p].n /\ hand'[p].seq = hand[p].seq
         /\ \A q \in Producers : q # p => hand'[q] = hand[q]
         /\ blame' \in [Obstacles -> SUBSET Event] /\ \A w \in Obstacles : blame[w] \subseteq blame'[w]
         /\ blame'["unstamped"] = blame["unstamped"]
         /\ \A f \in Range(log) : f.seq > hand[p].seq => Current(p) \in blame'["overtaken"]
<1> DEFINE late == {Current(p) : f \in {f \in Range(log) : f.seq > hand[p].seq}}
<1>1. /\ hand[p].stage = "stamped" /\ Pipeline(p)
      /\ UNCHANGED <<seq, emitted, server, browser, owed, stale, sent, gap>>
      /\ Hold(p, "ready", hand[p].n, hand[p].seq) /\ Blame("overtaken", late)
  BY DEF Push
<1>2. Current(p) \in Event /\ hand[p].n \in 0 .. MaxEvents /\ hand[p].seq \in Nat
  BY <1>1, CarriedIsFrame
<1>3. late \in SUBSET Event /\ "overtaken" \in Obstacles /\ "unstamped" \in Obstacles
  BY <1>2 DEF Obstacles
<1>4. /\ blame' \in [Obstacles -> SUBSET Event]
      /\ blame'["overtaken"] = blame["overtaken"] \cup late
      /\ \A w \in Obstacles : w # "overtaken" => blame'[w] = blame[w]
  <2> HIDE DEF late
  <2> QED
    BY <1>1, <1>3, BlameIs
<1>5. /\ hand' \in [Producers -> HandType]
      /\ hand'[p].stage = "ready" /\ hand'[p].n = hand[p].n /\ hand'[p].seq = hand[p].seq
      /\ \A q \in Producers : q # p => hand'[q] = hand[q]
  BY <1>1, <1>2, HoldIs
<1>6. \A f \in Range(log) : f.seq > hand[p].seq => Current(p) \in late
  OBVIOUS
<1> HIDE DEF late
<1> QED
  BY <1>1, <1>3, <1>4, <1>5, <1>6

\* An event whose push failed goes to the group without the seq it was given.
LEMMA PushFailsIs ==
  ASSUME TypeOK, Connection, NEW p \in Producers, PushFails(p)
  PROVE  /\ hand[p].stage = "stamped" /\ Piped(p)
         /\ UNCHANGED <<seq, emitted, server, browser, owed, stale, sent, gap>>
         /\ hand' \in [Producers -> HandType]
         /\ hand'[p].stage = "ready" /\ hand'[p].n = hand[p].n /\ hand'[p].seq = 0
         /\ \A q \in Producers : q # p => hand'[q] = hand[q]
         /\ blame' \in [Obstacles -> SUBSET Event] /\ \A w \in Obstacles : blame[w] \subseteq blame'[w]
         /\ Current(p) \in blame'["unstamped"]
<1>1. /\ hand[p].stage = "stamped" /\ Piped(p)
      /\ UNCHANGED <<seq, emitted, server, browser, owed, stale, sent, gap>>
      /\ Hold(p, "ready", hand[p].n, 0) /\ Blame("unstamped", {Current(p)})
  BY DEF PushFails, Piped
<1>2. Current(p) \in Event /\ hand[p].n \in 0 .. MaxEvents
  BY <1>1, CarriedIsFrame
<1>3. {Current(p)} \in SUBSET Event /\ "unstamped" \in Obstacles
  BY <1>2 DEF Obstacles
<1>4. /\ blame' \in [Obstacles -> SUBSET Event]
      /\ blame'["unstamped"] = blame["unstamped"] \cup {Current(p)}
      /\ \A w \in Obstacles : w # "unstamped" => blame'[w] = blame[w]
  BY <1>1, <1>3, BlameIs
<1>5. /\ hand' \in [Producers -> HandType]
      /\ hand'[p].stage = "ready" /\ hand'[p].n = hand[p].n /\ hand'[p].seq = 0
      /\ \A q \in Producers : q # p => hand'[q] = hand[q]
  BY <1>1, <1>2, HoldIs
<1> QED
  BY <1>1, <1>4, <1>5

\* Time passes only with nothing on its way.
LEMMA TickIs ==
  ASSUME TypeOK, Tick
  PROVE  /\ conn # "joined" /\ chan = <<>> /\ wire = <<>> /\ \A p \in Producers : hand[p] = NoEvent
         /\ age' \in 0 .. TTL /\ idle' \in 0 .. IdleAfter
         /\ \/ seq' = 0 /\ log' = <<>> /\ floor' = 0 /\ sent' = 0 /\ stale' = (cursor # 0)
            \/ UNCHANGED <<seq, log, floor, sent, stale>>
         /\ UNCHANGED <<feed, server, cursor, got, owed, blame, gap>>
<1>1. age \in 0 .. TTL /\ idle \in 0 .. IdleAfter /\ TTL \in Nat /\ IdleAfter \in Nat
  BY SizesAssumption DEF TypeOK
<1>2. age' \in 0 .. TTL /\ idle' \in 0 .. IdleAfter
  BY <1>1 DEF Tick
<1> QED
  BY <1>2 DEF Tick

-----------------------------------------------------------------------------
(* The types.                                                              *)

\* An empty log and no viewer.
LEMMA InitEvents == Init => EventInv
<1> SUFFICES ASSUME Init PROVE EventInv
  OBVIOUS
<1> USE DEF Init
<1>1. TypeOK
  <2>1. {TTL, IdleAfter, Buffer, ChanCap} \subseteq Nat \ {0} /\ MaxEvents \in Nat
    BY SizesAssumption
  <2>2. /\ <<>> \in Seq(Frame) /\ <<>> \in Seq(Event) /\ Len(<<>>) = 0
        /\ 0 \in 0 .. TTL /\ 0 \in 0 .. IdleAfter /\ 0 <= Buffer /\ 0 <= ChanCap /\ 0 \in 0 .. MaxEvents
    BY <2>1
  <2>3. hand \in [Producers -> [stage : {"idle", "stamped", "ready"}, n : 0 .. MaxEvents, seq : Nat]]
    BY <2>2 DEF NoEvent
  <2>4. owed \subseteq Event /\ blame \in [Obstacles -> SUBSET Event]
    OBVIOUS
  <2>5. /\ seq = 0 /\ log = <<>> /\ age = 0 /\ emitted = 0
        /\ conn = "closed" /\ since = 0 /\ chan = <<>> /\ wire = <<>>
        /\ cursor = 0 /\ idle = 0 /\ got = <<>> /\ stale = FALSE /\ floor = 0 /\ sent = 0 /\ gap = FALSE
    OBVIOUS
  <2> HIDE DEF Init, Frame, Event, Obstacles
  <2>6. /\ seq \in Nat /\ age \in 0 .. TTL /\ log \in Seq(Frame) /\ Len(log) <= Buffer /\ emitted \in 0 .. MaxEvents
    BY <2>2, <2>5
  <2>7. /\ conn \in {"closed", "joined", "open"} /\ since \in Nat
        /\ chan \in Seq(Frame) /\ Len(chan) <= ChanCap /\ wire \in Seq(Frame)
    BY <2>2, <2>5
  <2>8. cursor \in Nat /\ idle \in 0 .. IdleAfter /\ got \in Seq(Event) /\ floor \in Nat /\ sent \in Nat
    BY <2>2, <2>5
  <2>9. stale \in BOOLEAN /\ gap \in BOOLEAN
    BY <2>5
  <2> QED
    BY <2>3, <2>4, <2>6, <2>7, <2>8, <2>9 DEF TypeOK
<1>2. Pending = <<>> /\ Range(Pending) = {} /\ Range(log) = {}
  BY DEF Pending, Range
<1>3. \A p \in Producers : hand[p] = NoEvent /\ ~Held(p)
  BY DEF Held, NoEvent
<1>4. Numbered = {}
  BY <1>2, <1>3 DEF Numbered
<1>5. Connection
  BY DEF Connection, NoEvent
<1>6. Numbering
  BY <1>3, <1>4 DEF Numbering
<1>7. Unstamped
  BY <1>2 DEF Unstamped, NoEvent
<1>8. Ordered /\ Near
  BY <1>2, <1>3, <1>4 DEF Ordered, Near
<1>9. Logged
  BY <1>2, <1>3 DEF Logged, LoggedOnce, LoggedFirst, NotYetLogged, LateIsBlamed, Reached, NoEvent
<1>10. Overtaking /\ Underway
  BY <1>2, <1>3 DEF Overtaking, PendingInOrder, CursorBehind, ReadyInOrder, Underway
<1> QED
  BY <1>1, <1>5, <1>6, <1>7, <1>8, <1>9, <1>10 DEF EventInv

\* Every step keeps the types.
LEMMA TypeKeeps == TypeOK /\ Connection /\ Next => TypeOK'
<1> SUFFICES ASSUME TypeOK, Connection, Next PROVE TypeOK'
  OBVIOUS
<1> USE DEF redis, feed, server, browser, history
<1>a. /\ seq \in Nat /\ age \in 0 .. TTL
      /\ log \in Seq(Frame) /\ Len(log) <= Buffer
      /\ hand \in [Producers -> HandType]
      /\ emitted \in 0 .. MaxEvents
      /\ conn \in {"closed", "joined", "open"} /\ since \in Nat
      /\ chan \in Seq(Frame) /\ Len(chan) <= ChanCap /\ wire \in Seq(Frame)
      /\ cursor \in Nat /\ idle \in 0 .. IdleAfter /\ got \in Seq(Event)
      /\ owed \subseteq Event /\ blame \in [Obstacles -> SUBSET Event]
      /\ stale \in BOOLEAN /\ floor \in Nat /\ sent \in Nat /\ gap \in BOOLEAN
  BY DEF TypeOK, HandType
<1>b. {TTL, IdleAfter, Buffer, ChanCap} \subseteq Nat \ {0} /\ MaxEvents \in Nat
  BY SizesAssumption
<1>c. /\ <<>> \in Seq(Frame) /\ <<>> \in Seq(Event) /\ Len(<<>>) = 0
      /\ 0 \in 0 .. TTL /\ 0 \in 0 .. IdleAfter /\ 0 <= Buffer /\ 0 <= ChanCap
      /\ \A i \in 1 .. MaxEvents : i \in 0 .. MaxEvents
  BY <1>b
<1> HIDE DEF HandType, Frame, Event
<1>1. ASSUME NEW p \in Producers, Produce(p) PROVE TypeOK'
  <2>1. CASE Stamp(p)
    <3>1. emitted' \in 1 .. MaxEvents /\ seq' = seq + 1
      BY <2>1, StampIs
    <3>2. emitted' \in 0 .. MaxEvents /\ seq' \in Nat
      <4>1. emitted' \in 0 .. MaxEvents
        BY <1>c, <3>1
      <4>2. seq' \in Nat
        BY <1>a, <3>1
      <4> QED
        BY <4>1, <4>2
    <3> QED
      BY <1>a, <2>1, <3>2, StampIs DEF TypeOK, HandType
  <2>2. CASE StampFails(p)
    <3>1. emitted' \in 0 .. MaxEvents
      <4>1. emitted' \in 1 .. MaxEvents
        BY <2>2, StampFailsIs
      <4> QED
        BY <1>c, <4>1
    <3> QED
      BY <1>a, <2>2, <3>1, StampFailsIs DEF TypeOK, HandType
  <2>3. CASE Push(p)
    <3>1. /\ log' \in Seq(Frame) /\ Len(log') <= Buffer /\ age' = 0 /\ floor' \in Nat
      BY <2>3, PushIs, PipelineIs
    <3> QED
      BY <1>a, <1>c, <2>3, <3>1, PushIs DEF TypeOK, HandType
  <2>4. CASE PushFails(p)
    <3>1. /\ log' \in Seq(Frame) /\ Len(log') <= Buffer /\ age' \in 0 .. TTL /\ floor' \in Nat
      <4>1. CASE Pipeline(p)
        BY <1>b, <2>4, <4>1, PushFailsIs, PipelineIs
      <4>2. CASE UNCHANGED <<log, age, floor>>
        BY <1>a, <4>2
      <4> QED
        BY <2>4, <4>1, <4>2, PushFailsIs DEF Piped
    <3> QED
      BY <1>a, <2>4, <3>1, PushFailsIs DEF TypeOK, HandType
  <2>5. CASE Send(p)
    <3> DEFINE f == Carried(p)
    <3> DEFINE e == Current(p)
    <3> HIDE DEF f, e
    <3>1. /\ e \in Event /\ hand' \in [Producers -> HandType]
          /\ chan' \in Seq(Frame) /\ Len(chan') <= ChanCap
          /\ blame' \in [Obstacles -> SUBSET Event] /\ sent' \in Nat
          /\ owed' = IF conn # "closed" \/ cursor # 0 THEN owed \cup {e} ELSE owed
      BY <2>5, SendIs DEF f, e
    <3>2. UNCHANGED <<redis, emitted, conn, since, wire, browser, stale, floor, gap>>
      BY <2>5 DEF Send
    <3> QED
      BY <1>a, <3>1, <3>2 DEF TypeOK, HandType
  <2> QED
    BY <1>1, <2>1, <2>2, <2>3, <2>4, <2>5 DEF Produce
<1>2. CASE Connect
  BY <1>a, <1>2 DEF TypeOK, HandType, Connect
<1>3. CASE Replay
  <2>1. wire' \in Seq(Frame)
    <3>1. ReplaySince(since) \in Seq(Frame)
      BY <1>a, ReplayIsTheTail DEF ReplayedFrom
    <3> QED
      BY <1>3, <3>1 DEF Replay
  <2>2. gap' \in BOOLEAN
    BY <1>a, <1>3 DEF Replay, OutOfReach
  <2> QED
    BY <1>a, <1>3, <2>1, <2>2 DEF TypeOK, HandType, Replay
<1>4. CASE ThreadEvent
  BY <1>a, <1>4, ThreadEventIs DEF TypeOK, HandType
<1>5. CASE Drop
  <2>1. chan' = <<>> /\ wire' = <<>> /\ conn' = "closed" /\ UNCHANGED <<redis, feed, since, browser, history>>
    BY <1>5 DEF Drop
  <2> QED
    BY <1>a, <1>b, <2>1 DEF TypeOK, HandType
<1>6. CASE Receive
  <2> DEFINE f == Head(wire)
  <2> HIDE DEF f
  <2>1. /\ wire' \in Seq(Frame) /\ f \in Frame /\ f.seq \in Nat /\ f.id \in Event
        /\ UNCHANGED <<redis, feed, conn, since, chan, owed, floor, sent, gap>>
    BY <1>6, ReceiveIs DEF f
  <2>2. CASE got' = Append(got, f.id) /\ UNCHANGED <<cursor, idle, stale, blame>>
    <3>1. got' \in Seq(Event)
      BY <1>a, <2>1, <2>2
    <3> QED
      BY <1>a, <2>1, <2>2, <3>1 DEF TypeOK, HandType
  <2>3. CASE got' = Append(got, f.id) /\ cursor' = f.seq /\ idle' = 0 /\ stale' = FALSE /\ UNCHANGED blame
    <3>1. got' \in Seq(Event)
      BY <1>a, <2>1, <2>3
    <3> QED
      BY <1>a, <1>c, <2>1, <2>3, <3>1 DEF TypeOK, HandType
  <2>4. CASE Blame("misread", IF stale THEN {f.id} ELSE {}) /\ UNCHANGED <<browser, stale>>
    <3>1. (IF stale THEN {f.id} ELSE {}) \in SUBSET Event /\ "misread" \in Obstacles
      BY <2>1 DEF Obstacles
    <3>2. blame' \in [Obstacles -> SUBSET Event]
      BY <2>4, <3>1, BlameIs
    <3> QED
      BY <1>a, <2>1, <2>4, <3>2 DEF TypeOK, HandType
  <2> QED
    BY <1>6, <2>2, <2>3, <2>4 DEF Receive, Dispatch, Advance, f
<1>7. CASE Leave
  <2>1. /\ conn' = "closed" /\ since' = 0 /\ chan' = <<>> /\ wire' = <<>>
        /\ cursor' = 0 /\ idle' = 0 /\ got' = <<>>
        /\ owed' = {} /\ stale' = FALSE /\ gap' = FALSE
        /\ UNCHANGED <<redis, feed, blame, floor, sent>>
    BY <1>7 DEF Leave
  <2> QED
    BY <1>a, <1>c, <2>1 DEF TypeOK, HandType
<1>8. CASE Tick
  <2>1. CASE seq' = 0 /\ log' = <<>> /\ floor' = 0 /\ sent' = 0 /\ stale' = (cursor # 0)
    BY <1>a, <1>c, <1>8, <2>1, TickIs DEF TypeOK, HandType
  <2>2. CASE UNCHANGED <<seq, log, floor, sent, stale>>
    BY <1>a, <1>8, <2>2, TickIs DEF TypeOK, HandType
  <2> QED
    BY <1>8, <2>1, <2>2, TickIs
<1> QED
  BY <1>1, <1>2, <1>3, <1>4, <1>5, <1>6, <1>7, <1>8 DEF Next, View

-----------------------------------------------------------------------------
(* Where frames are.                                                       *)

\* An event stays settled until the viewer leaves.
LEMMA SettledKeeps ==
  TypeOK /\ Connection /\ Next =>
    /\ \A w \in Obstacles : blame[w] \subseteq blame'[w]
    /\ \A e : Blamed(e) => Blamed(e)'
    /\ ~Leave => \A e : Settled(e) => Settled(e)'
<1> SUFFICES ASSUME TypeOK, Connection, Next
             PROVE  /\ \A w \in Obstacles : blame[w] \subseteq blame'[w]
                    /\ \A e : Blamed(e) => Blamed(e)'
                    /\ ~Leave => \A e : Settled(e) => Settled(e)'
  OBVIOUS
<1> USE DEF redis, feed, server, browser, history
<1>1. CASE UNCHANGED <<got, blame>>
  BY <1>1 DEF Settled, Blamed
<1>2. CASE UNCHANGED got /\ \A w \in Obstacles : blame[w] \subseteq blame'[w]
  BY <1>2 DEF Settled, Blamed
<1>3. ASSUME NEW p \in Producers, Produce(p) PROVE UNCHANGED got /\ \A w \in Obstacles : blame[w] \subseteq blame'[w]
  <2>1. CASE Stamp(p)
    BY <2>1, StampIs
  <2>2. CASE StampFails(p)
    BY <2>2, StampFailsIs
  <2>3. CASE Push(p)
    BY <2>3, PushIs
  <2>4. CASE PushFails(p)
    BY <2>4, PushFailsIs
  <2>5. CASE Send(p)
    <3>1. \A w \in Obstacles : blame[w] \subseteq blame'[w]
      BY <2>5, SendIs
    <3>2. UNCHANGED got
      BY <2>5 DEF Send
    <3> QED
      BY <3>1, <3>2
  <2> QED
    BY <1>3, <2>1, <2>2, <2>3, <2>4, <2>5 DEF Produce
<1>4. Connect \/ Replay \/ ThreadEvent \/ Drop \/ Tick => UNCHANGED <<got, blame>>
  BY DEF Connect, Replay, ThreadEvent, Drop, Tick
<1>5. CASE Receive
  <2> DEFINE f == Head(wire)
  <2>1. /\ f \in Frame /\ f.id \in Event
    BY <1>5, ReceiveIs
  <2> HIDE DEF f
  <2>2. CASE got' = Append(got, f.id) /\ UNCHANGED blame
    <3>1. Range(got') = Range(got) \cup {f.id}
      BY <2>2, RangeOfAppend DEF TypeOK
    <3> QED
      BY <2>2, <3>1 DEF Settled, Blamed
  <2>3. CASE Blame("misread", IF stale THEN {f.id} ELSE {}) /\ UNCHANGED got
    <3>1. (IF stale THEN {f.id} ELSE {}) \in SUBSET Event /\ "misread" \in Obstacles
      BY <2>1 DEF Obstacles
    <3>2. \A w \in Obstacles : blame[w] \subseteq blame'[w]
      BY <2>3, <3>1, BlameIs
    <3> QED
      BY <1>2, <2>3, <3>2
  <2> QED
    BY <1>5, <2>2, <2>3 DEF Receive, Dispatch, f
<1>6. CASE Leave
  BY <1>6 DEF Leave, Blamed
<1> QED
  BY <1>1, <1>2, <1>3, <1>4, <1>5, <1>6 DEF Next, View

\* The connection, the socket and the cursor agree.
LEMMA ConnectionKeeps == TypeOK /\ Connection /\ Next => Connection'
<1> SUFFICES ASSUME TypeOK, Connection, Next PROVE Connection'
  OBVIOUS
<1> USE DEF redis, feed, server, browser, history
<1> DEFINE HandOK(p) ==
       /\ hand[p].stage = "idle" => hand[p] = NoEvent
       /\ hand[p].stage = "stamped" => hand[p].seq # 0
       /\ hand[p].stage # "idle" => hand[p].n # 0
<1>a. \A q \in Producers : HandOK(q)
  BY DEF Connection
<1>1. ASSUME NEW p \in Producers, Produce(p) PROVE Connection'
  <2>a. seq \in Nat /\ emitted \in Nat
    BY SizesAssumption DEF TypeOK
  <2>1. CASE Stamp(p)
    <3>1. HandOK(p)' /\ \A q \in Producers : q # p => HandOK(q)'
      BY <1>a, <2>a, <2>1, StampIs
    <3> QED
      BY <2>1, <3>1, StampIs DEF Connection
  <2>2. CASE StampFails(p)
    <3>1. /\ hand'[p].stage = "ready" /\ hand'[p].n = emitted + 1
          /\ \A q \in Producers : q # p => hand'[q] = hand[q]
      BY <2>2, StampFailsIs
    <3>2. HandOK(p)' /\ \A q \in Producers : q # p => HandOK(q)'
      BY <1>a, <2>a, <3>1
    <3> QED
      BY <2>2, <3>2, StampFailsIs DEF Connection
  <2>3. CASE Push(p)
    <3>1. HandOK(p)' /\ \A q \in Producers : q # p => HandOK(q)'
      BY <1>a, <2>3, PushIs
    <3> QED
      BY <2>3, <3>1, PushIs DEF Connection
  <2>4. CASE PushFails(p)
    <3>1. HandOK(p)' /\ \A q \in Producers : q # p => HandOK(q)'
      BY <1>a, <2>4, PushFailsIs
    <3> QED
      BY <2>4, <3>1, PushFailsIs DEF Connection
  <2>5. CASE Send(p)
    <3>1. hand'[p] = NoEvent /\ (\A q \in Producers : q # p => hand'[q] = hand[q])
          /\ (conn = "closed" => chan' = chan)
      BY <2>5, SendIs
    <3>2. HandOK(p)' /\ \A q \in Producers : q # p => HandOK(q)'
      BY <1>a, <3>1 DEF NoEvent
    <3>3. UNCHANGED <<conn, since, wire, cursor, stale>>
      BY <2>5 DEF Send
    <3> QED
      BY <3>1, <3>2, <3>3 DEF Connection
  <2> QED
    BY <1>1, <2>1, <2>2, <2>3, <2>4, <2>5 DEF Produce
<1>2. CASE UNCHANGED hand
  <2>1. \A q \in Producers : HandOK(q)'
    BY <1>a, <1>2
  <2> HIDE DEF HandOK
  <2>2. CASE Connect
    BY <2>1, <2>2 DEF Connection, Connect, HandOK
  <2>3. CASE Replay
    BY <2>1, <2>3 DEF Connection, Replay, HandOK
  <2>4. CASE ThreadEvent
    BY <2>1, <2>4 DEF Connection, ThreadEvent, HandOK
  <2>5. CASE Drop
    BY <2>1, <2>5 DEF Connection, Drop, HandOK
  <2>6. CASE Receive
    <3>1. conn = "open" /\ UNCHANGED <<conn, since, chan>>
      BY <2>6 DEF Connection, Receive
    <3>2. cursor' = 0 => ~stale'
      BY <2>6 DEF Connection, Receive, Advance
    <3> QED
      BY <2>1, <3>1, <3>2 DEF Connection, HandOK
  <2>7. CASE Leave
    BY <2>1, <2>7 DEF Connection, Leave, HandOK
  <2>8. CASE Tick
    <3>1. conn # "joined" /\ UNCHANGED <<conn, since, chan, wire, cursor>> /\ (stale' = stale \/ stale' = (cursor # 0))
      BY <2>8, TickIs
    <3>2. cursor' = 0 => ~stale'
      BY <3>1 DEF Connection
    <3> QED
      BY <2>1, <3>1, <3>2 DEF Connection, HandOK
  <2> QED
    BY <1>1, <2>2, <2>3, <2>4, <2>5, <2>6, <2>7, <2>8 DEF Next, View
<1> QED
  BY <1>1, <1>2 DEF Next, View, Connect, Replay, ThreadEvent, Drop, Receive, Leave, Tick

\* A frame with a seq is in the log, pending or in a producer's hand.
LEMMA NumberedIs ==
  \A f : f \in Numbered <=>
    \/ f.seq # 0 /\ (f \in Range(log) \/ f \in Range(Pending))
    \/ \E p \in Producers : Held(p) /\ f = Carried(p)
BY DEF Numbered

\* A stamp numbers one event more.
LEMMA StampNumbers ==
  ASSUME TypeOK, Connection, NEW p \in Producers, Stamp(p)
  PROVE  Numbered' \subseteq Numbered \cup {[id |-> <<p, emitted + 1>>, seq |-> seq + 1]}
<1> USE DEF redis, feed, server, browser, history
<1>a. \A f : f \in Numbered' <=>
        \/ f.seq # 0 /\ (f \in Range(log') \/ f \in Range(Pending'))
        \/ \E q \in Producers : Held(q)' /\ f = Carried(q)'
  BY DEF Numbered
<1>b. \A q \in Producers : hand'[q] = hand[q] => (Held(q)' <=> Held(q)) /\ Carried(q)' = Carried(q)
  BY DEF Held, Carried, Current
<1>c. \A q \in Producers : Held(q) => Carried(q) \in Numbered
  BY NumberedIs
<1>2. Numbered' \subseteq Numbered \cup {[id |-> <<p, emitted + 1>>, seq |-> seq + 1]}
  <2>1. /\ seq' = seq + 1 /\ emitted' = emitted + 1 /\ UNCHANGED <<log, wire, chan>>
        /\ hand'[p].n = emitted + 1 /\ hand'[p].seq = seq + 1
        /\ \A q \in Producers : q # p => hand'[q] = hand[q]
    BY StampIs
  <2>2. Carried(p)' = [id |-> <<p, emitted + 1>>, seq |-> seq + 1]
    BY <2>1 DEF Carried, Current
  <2>3. Pending' = Pending
    BY <2>1 DEF Pending
  <2>4. \A q \in Producers : q # p => (Held(q)' <=> Held(q)) /\ Carried(q)' = Carried(q)
    BY <1>b, <2>1
  <2> QED
    BY <1>a, <2>1, <2>2, <2>3, <2>4, NumberedIs
<1> QED
  BY <1>2

\* The producers' other steps number nothing.
LEMMA ProducerNumbers ==
  ASSUME TypeOK, Connection, NEW p \in Producers, StampFails(p) \/ Push(p) \/ PushFails(p) \/ Send(p)
  PROVE  Numbered' \subseteq Numbered
<1> USE DEF redis, feed, server, browser, history
<1>a. \A f : f \in Numbered' <=>
        \/ f.seq # 0 /\ (f \in Range(log') \/ f \in Range(Pending'))
        \/ \E q \in Producers : Held(q)' /\ f = Carried(q)'
  BY DEF Numbered
<1>b. \A q \in Producers : hand'[q] = hand[q] => (Held(q)' <=> Held(q)) /\ Carried(q)' = Carried(q)
  BY DEF Held, Carried, Current
<1>c. \A q \in Producers : Held(q) => Carried(q) \in Numbered
  BY NumberedIs
<1>3. ASSUME StampFails(p)
      PROVE  Numbered' \subseteq Numbered
  <2>1. /\ seq' = seq /\ emitted' = emitted + 1 /\ UNCHANGED <<log, wire, chan>> /\ hand'[p].seq = 0
        /\ \A q \in Producers : q # p => hand'[q] = hand[q]
    BY <1>3, StampFailsIs
  <2>2. Pending' = Pending /\ ~Held(p)'
    BY <2>1 DEF Pending, Held
  <2>3. \A q \in Producers : q # p => (Held(q)' <=> Held(q)) /\ Carried(q)' = Carried(q)
    BY <1>b, <2>1
  <2> QED
    BY <1>a, <2>1, <2>2, <2>3, NumberedIs
<1>4. ASSUME Push(p) PROVE Numbered' \subseteq Numbered
  <2>1. /\ hand[p].stage = "stamped" /\ Pipeline(p) /\ UNCHANGED <<seq, emitted, wire, chan>>
        /\ hand'[p].n = hand[p].n /\ hand'[p].seq = hand[p].seq
        /\ \A q \in Producers : q # p => hand'[q] = hand[q]
    BY <1>4, PushIs
  <2>2. Pending' = Pending /\ Held(p) /\ Carried(p)' = Carried(p)
    BY <2>1 DEF Pending, Held, Carried, Current, Connection
  <2>3. \A q \in Producers : q # p => (Held(q)' <=> Held(q)) /\ Carried(q)' = Carried(q)
    BY <1>b, <2>1
  <2>4. Range(log') \subseteq Range(log) \cup {Carried(p)}
    BY <2>1, PipelineKeeps
  <2> QED
    BY <1>a, <1>c, <2>1, <2>2, <2>3, <2>4, NumberedIs
<1>5. ASSUME PushFails(p) PROVE Numbered' \subseteq Numbered
  <2>1. /\ hand[p].stage = "stamped" /\ Piped(p) /\ UNCHANGED <<seq, emitted, wire, chan>>
        /\ hand'[p].seq = 0
        /\ \A q \in Producers : q # p => hand'[q] = hand[q]
    BY <1>5, PushFailsIs
  <2>2. Pending' = Pending /\ Held(p) /\ ~Held(p)'
    BY <2>1 DEF Pending, Held, Connection
  <2>3. \A q \in Producers : q # p => (Held(q)' <=> Held(q)) /\ Carried(q)' = Carried(q)
    BY <1>b, <2>1
  <2>4. Range(log') \subseteq Range(log) \cup {Carried(p)}
    BY <2>1, PipelineKeeps DEF Piped
  <2> QED
    BY <1>a, <1>c, <2>1, <2>2, <2>3, <2>4, NumberedIs
<1>6. ASSUME Send(p) PROVE Numbered' \subseteq Numbered
  <2> DEFINE f == Carried(p)
  <2> HIDE DEF f
  <2>1. /\ hand[p].stage = "ready" /\ f.seq = hand[p].seq
        /\ hand'[p] = NoEvent /\ \A q \in Producers : q # p => hand'[q] = hand[q]
    BY <1>6, SendIs DEF f
  <2>2. Pending' = Append(Pending, f) \/ Pending' = Pending
    BY <1>6, SendIs DEF f
  <2>3. UNCHANGED <<seq, emitted, log>>
    BY <1>6 DEF Send
  <2>4. Range(Pending') \subseteq Range(Pending) \cup {f}
    BY <2>2, RangeOfAppend, PendingIs
  <2>5. ~Held(p)' /\ (f.seq # 0 => f \in Numbered)
    BY <1>c, <2>1 DEF Held, NoEvent, f
  <2>6. \A q \in Producers : q # p => (Held(q)' <=> Held(q)) /\ Carried(q)' = Carried(q)
    BY <1>b, <2>1
  <2> QED
    BY <1>a, <2>3, <2>4, <2>5, <2>6, NumberedIs
<1> QED
  BY <1>3, <1>4, <1>5, <1>6

\* Nor does the viewer, or time.
LEMMA ViewNumbers ==
  ASSUME TypeOK, Connection, View \/ Tick
  PROVE  /\ Numbered' \subseteq Numbered
         /\ View => UNCHANGED <<seq, emitted, hand, log>>
         /\ Tick => UNCHANGED <<seq, log, floor, sent, stale>> \/ (seq' = 0 /\ Numbered' = {})
<1> USE DEF redis, feed, server, browser, history
<1>a. \A f : f \in Numbered' <=>
        \/ f.seq # 0 /\ (f \in Range(log') \/ f \in Range(Pending'))
        \/ \E q \in Producers : Held(q)' /\ f = Carried(q)'
  BY DEF Numbered
<1>b. \A q \in Producers : hand'[q] = hand[q] => (Held(q)' <=> Held(q)) /\ Carried(q)' = Carried(q)
  BY DEF Held, Carried, Current
<1>c. \A q \in Producers : Held(q) => Carried(q) \in Numbered
  BY NumberedIs
<1>1. ASSUME Range(log') \subseteq Range(log), Range(Pending') \subseteq Range(Pending), UNCHANGED hand
      PROVE  Numbered' \subseteq Numbered
  BY <1>a, <1>b, <1>1, NumberedIs
<1>7. Connect => UNCHANGED <<seq, emitted, hand, log>> /\ Pending' = Pending
  BY DEF Connect, Pending
<1>8. Replay => UNCHANGED <<seq, emitted, hand, log>> /\ Numbered' \subseteq Numbered
  <2> SUFFICES ASSUME Replay PROVE UNCHANGED <<seq, emitted, hand, log>> /\ Numbered' \subseteq Numbered
    OBVIOUS
  <2>1. UNCHANGED <<seq, emitted, hand, log, chan>> /\ (wire' = <<>> \/ wire' = ReplaySince(since))
    BY DEF Replay
  <2>2. wire' \in Seq(Frame) /\ Range(wire') \subseteq Range(log)
    <3>1. CASE wire' = <<>>
      BY <3>1 DEF Range
    <3>2. CASE wire' = ReplaySince(since)
      <4>1. /\ wire' \in Seq(Frame)
            /\ \A j \in 1 .. Len(wire') : \E b \in 1 .. Len(log) : wire'[j] = log[b]
        <5>1. log \in Seq(Frame) /\ since \in Nat
          BY DEF TypeOK
        <5>2. ReplayedFrom(since)
          BY <5>1, ReplayIsTheTail
        <5> QED
          BY <3>2, <5>2 DEF ReplayedFrom
      <4>2. log \in Seq(Frame)
        BY DEF TypeOK
      <4>3. \A j \in 1 .. Len(wire') : wire'[j] \in Range(log)
        BY <4>1, <4>2, FramesOf
      <4> QED
        BY <4>1, <4>3, FramesOf
    <3> QED
      BY <2>1, <3>1, <3>2
  <2>3. Range(Pending') = Range(wire') \cup Range(chan')
    <3>1. wire' \in Seq(Frame) /\ chan' \in Seq(Frame)
      BY <2>1, <2>2 DEF TypeOK
    <3> QED
      BY <3>1, FramesJoined DEF Pending
  <2>4. Range(chan) \subseteq Range(Pending)
    BY PendingIs
  <2> QED
    BY <1>a, <1>b, <2>1, <2>2, <2>3, <2>4, NumberedIs
<1>9. ThreadEvent => UNCHANGED <<seq, emitted, hand, log>> /\ Pending' = Pending
  BY ThreadEventIs
<1>10. Drop \/ Leave => UNCHANGED <<seq, emitted, hand, log>> /\ Range(Pending') = {}
  BY DEF Drop, Leave, Pending, Range
<1>11. Receive => UNCHANGED <<seq, emitted, hand, log>> /\ Range(Pending') \subseteq Range(Pending)
  BY ReceiveIs
<1>12. ASSUME Tick
       PROVE  \/ UNCHANGED <<seq, emitted>> /\ Numbered' \subseteq Numbered
              \/ Numbered' = {} /\ seq' = 0 /\ emitted' = emitted
  <2>1. /\ chan' = <<>> /\ wire' = <<>> /\ UNCHANGED <<hand, emitted>> /\ \A p \in Producers : hand[p] = NoEvent
        /\ ((seq' = 0 /\ log' = <<>>) \/ UNCHANGED <<seq, log>>)
    BY <1>12, TickIs
  <2>2. Range(Pending') = {} /\ \A p \in Producers : ~Held(p)'
    BY <2>1 DEF Pending, Range, Held, NoEvent
  <2>3. CASE seq' = 0 /\ log' = <<>>
    <3>1. Range(log') = {}
      BY <2>3 DEF Range
    <3> QED
      BY <1>a, <2>1, <2>2, <2>3, <3>1
  <2>4. CASE UNCHANGED <<seq, log>>
    BY <1>1, <2>1, <2>2, <2>4
  <2> QED
    BY <2>1, <2>3, <2>4
<1>13. Tick => UNCHANGED <<seq, log, floor, sent, stale>> \/ (seq' = 0 /\ Numbered' = {})
  <2> SUFFICES ASSUME Tick, ~UNCHANGED <<seq, log, floor, sent, stale>> PROVE seq' = 0 /\ Numbered' = {}
    OBVIOUS
  <2>1. /\ chan' = <<>> /\ wire' = <<>> /\ seq' = 0 /\ log' = <<>> /\ \A p \in Producers : hand'[p] = NoEvent
    BY TickIs
  <2>2. Range(Pending') = {} /\ Range(log') = {} /\ \A p \in Producers : ~Held(p)'
    BY <2>1 DEF Pending, Range, Held, NoEvent
  <2> QED
    BY <1>a, <2>1, <2>2
<1> QED
  BY <1>1, <1>7, <1>8, <1>9, <1>10, <1>11, <1>12, <1>13 DEF View

\* The numbers of a step.
LEMMA NumberedGrows ==
  TypeOK /\ Connection /\ Next =>
    \/ UNCHANGED <<seq, emitted>> /\ Numbered' \subseteq Numbered
    \/ Numbered' = {} /\ seq' = 0 /\ emitted' = emitted
    \/ seq' = seq /\ emitted' = emitted + 1 /\ Numbered' \subseteq Numbered
    \/ \E p \in Producers :
         /\ seq' = seq + 1 /\ emitted' = emitted + 1
         /\ Numbered' \subseteq Numbered \cup {[id |-> <<p, emitted + 1>>, seq |-> seq + 1]}
<1> SUFFICES ASSUME TypeOK, Connection, Next
             PROVE  \/ UNCHANGED <<seq, emitted>> /\ Numbered' \subseteq Numbered
                    \/ Numbered' = {} /\ seq' = 0 /\ emitted' = emitted
                    \/ seq' = seq /\ emitted' = emitted + 1 /\ Numbered' \subseteq Numbered
                    \/ \E p \in Producers :
                         /\ seq' = seq + 1 /\ emitted' = emitted + 1
                         /\ Numbered' \subseteq Numbered \cup {[id |-> <<p, emitted + 1>>, seq |-> seq + 1]}
  OBVIOUS
<1> USE DEF redis, feed, server, browser, history
<1>1. ASSUME NEW p \in Producers, Stamp(p)
      PROVE  /\ seq' = seq + 1 /\ emitted' = emitted + 1
             /\ Numbered' \subseteq Numbered \cup {[id |-> <<p, emitted + 1>>, seq |-> seq + 1]}
  BY <1>1, StampNumbers, StampIs
<1>2. ASSUME NEW p \in Producers, StampFails(p)
      PROVE  seq' = seq /\ emitted' = emitted + 1 /\ Numbered' \subseteq Numbered
  <2>1. seq' = seq /\ emitted' = emitted + 1
    BY <1>2, StampFailsIs
  <2> QED
    BY <1>2, <2>1, ProducerNumbers
<1>3. ASSUME NEW p \in Producers, Push(p) \/ PushFails(p) \/ Send(p)
      PROVE  UNCHANGED <<seq, emitted>> /\ Numbered' \subseteq Numbered
  <2>1. Push(p) => UNCHANGED <<seq, emitted>>
    BY PushIs
  <2>2. PushFails(p) => UNCHANGED <<seq, emitted>>
    BY PushFailsIs
  <2>3. Send(p) => UNCHANGED <<seq, emitted>>
    BY DEF Send
  <2> QED
    BY <1>3, <2>1, <2>2, <2>3, ProducerNumbers
<1>4. CASE View
  BY <1>4, ViewNumbers
<1>5. CASE Tick
  <2>1. emitted' = emitted
    BY <1>5, TickIs
  <2> QED
    BY <1>5, <2>1, ViewNumbers
<1> QED
  BY <1>1, <1>2, <1>3, <1>4, <1>5 DEF Next, Produce

\* A numbered frame is a frame.
LEMMA NumberedAreFrames ==
  ASSUME TypeOK, Connection
  PROVE  /\ \A f \in Numbered : f.seq \in Nat /\ f.seq # 0 /\ f.id \in Event /\ f.id[2] \in Nat
         /\ \A f \in Range(log) : f.seq \in Nat /\ f.id \in Event /\ (f.seq # 0 => f \in Numbered)
         /\ \A f \in Range(Pending) : f.seq \in Nat /\ f.id \in Event /\ (f.seq # 0 => f \in Numbered)
         /\ \A p \in Producers : Held(p) => Carried(p) \in Numbered
         /\ \A p \in Producers : hand[p].seq \in Nat /\ Carried(p).seq = hand[p].seq /\ Carried(p).id = Current(p)
<1>1. /\ \A f \in Range(log) : f.seq \in Nat /\ f.id \in Event
      /\ \A f \in Range(Pending) : f.seq \in Nat /\ f.id \in Event
  <2>1. log \in Seq(Frame) /\ Pending \in Seq(Frame)
    BY PendingIs DEF TypeOK
  <2> QED
    BY <2>1, FramesOf
<1>2. /\ \A f \in Range(log) : f.seq # 0 => f \in Numbered
      /\ \A f \in Range(Pending) : f.seq # 0 => f \in Numbered
      /\ \A p \in Producers : Held(p) => Carried(p) \in Numbered
  BY NumberedIs
<1>3. \A p \in Producers : hand[p].seq \in Nat /\ Carried(p).seq = hand[p].seq /\ Carried(p).id = Current(p)
  BY DEF TypeOK, Carried
<1>4. \A p \in Producers : Held(p) => Carried(p).seq \in Nat /\ Carried(p).seq # 0 /\ Carried(p).id \in Event
  BY CarriedIsFrame DEF Held
<1>5. \A f \in Numbered : f.seq \in Nat /\ f.seq # 0 /\ f.id \in Event
  BY <1>1, <1>4, NumberedIs
<1>6. \A e \in Event : e[2] \in Nat
  BY SizesAssumption DEF Event
<1> QED
  BY <1>1, <1>2, <1>3, <1>5, <1>6

\* Every step keeps seq and number together: only INCR hands out a seq.
LEMMA NumberingKeeps == TypeOK /\ Connection /\ Unstamped /\ Numbering /\ Next => Numbering'
<1> SUFFICES ASSUME TypeOK, Connection, Unstamped, Numbering, Next PROVE Numbering'
  OBVIOUS
<1> USE DEF redis, feed, server, browser, history
<1>a. /\ \A f \in Numbered : f.seq <= seq /\ f.id[2] <= emitted
      /\ \A f, g \in Numbered : f.seq = g.seq => f.id = g.id
      /\ \A f, g \in Numbered : f.seq < g.seq => f.id[2] < g.id[2]
      /\ \A p, q \in Producers : Held(p) /\ Held(q) /\ hand[p].seq = hand[q].seq => p = q
      /\ \A i \in 1 .. Len(got) : got[i] \notin blame["unstamped"] => got[i][2] <= emitted
      /\ sent <= seq /\ floor <= seq
      /\ ~stale => cursor <= seq
  BY DEF Numbering
<1>b. seq \in Nat /\ emitted \in Nat /\ \A f \in Numbered : f.seq \in Nat /\ f.seq # 0 /\ f.id[2] \in Nat
  BY NumberedAreFrames, SizesAssumption DEF TypeOK
<1> DEFINE Apart == \A p, q \in Producers : Held(p)' /\ Held(q)' /\ hand'[p].seq = hand'[q].seq => p = q
<1> DEFINE Below == sent' <= seq' /\ floor' <= seq'
<1>1. /\ \A f \in Numbered' : f.seq <= seq' /\ f.id[2] <= emitted'
      /\ \A f, g \in Numbered' : f.seq = g.seq => f.id = g.id
      /\ \A f, g \in Numbered' : f.seq < g.seq => f.id[2] < g.id[2]
  <2>1. CASE UNCHANGED <<seq, emitted>> /\ Numbered' \subseteq Numbered
    BY <1>a, <2>1
  <2>2. CASE Numbered' = {}
    BY <2>2
  <2>3. CASE seq' = seq /\ emitted' = emitted + 1 /\ Numbered' \subseteq Numbered
    BY <1>a, <1>b, <2>3
  <2>4. ASSUME NEW p \in Producers, seq' = seq + 1, emitted' = emitted + 1,
               Numbered' \subseteq Numbered \cup {[id |-> <<p, emitted + 1>>, seq |-> seq + 1]}
        PROVE  /\ \A f \in Numbered' : f.seq <= seq' /\ f.id[2] <= emitted'
               /\ \A f, g \in Numbered' : f.seq = g.seq => f.id = g.id
               /\ \A f, g \in Numbered' : f.seq < g.seq => f.id[2] < g.id[2]
    <3> DEFINE new == [id |-> <<p, emitted + 1>>, seq |-> seq + 1]
    <3>1. new.seq = seq + 1 /\ new.id[2] = emitted + 1
      OBVIOUS
    <3> HIDE DEF new
    <3>2. \A f \in Numbered' : f \in Numbered \/ f = new
      BY <2>4 DEF new
    <3> QED
      BY <1>a, <1>b, <2>4, <3>1, <3>2
  <2> QED
    BY <2>1, <2>2, <2>3, <2>4, NumberedGrows
<1>2. Apart
  <2>a. \A q \in Producers : Held(q) => hand[q].seq <= seq
    BY <1>a, NumberedAreFrames
  <2>b. \A p \in Producers : hand'[p] = hand[p] => (Held(p)' <=> Held(p))
    BY DEF Held
  <2>1. CASE UNCHANGED hand
    BY <1>a, <2>1, <2>b
  <2>2. ASSUME NEW p \in Producers, ~Held(p)', \A q \in Producers : q # p => hand'[q] = hand[q]
        PROVE  Apart
    BY <1>a, <2>b, <2>2
  <2>3. ASSUME NEW p \in Producers, Stamp(p) PROVE Apart
    <3>1. hand'[p].seq = seq + 1 /\ \A q \in Producers : q # p => hand'[q] = hand[q]
      BY <2>3, StampIs
    <3>2. \A q \in Producers : q # p => (Held(q)' <=> Held(q)) /\ (Held(q) => hand'[q].seq <= seq) /\ hand'[q].seq = hand[q].seq
      BY <2>a, <2>b, <3>1
    <3> QED
      BY <1>a, <1>b, <3>1, <3>2
  <2>4. ASSUME NEW p \in Producers, Push(p) PROVE Apart
    <3>1. hand[p].stage = "stamped" /\ hand'[p].seq = hand[p].seq /\ \A q \in Producers : q # p => hand'[q] = hand[q]
      BY <2>4, PushIs
    <3>2. Held(p)
      BY <3>1 DEF Held, Connection
    <3>3. \A q \in Producers : (Held(q)' => Held(q)) /\ hand'[q].seq = hand[q].seq
      BY <2>b, <3>1, <3>2
    <3> QED
      BY <1>a, <3>3
  <2>5. ASSUME NEW p \in Producers, StampFails(p) \/ PushFails(p) \/ Send(p) PROVE Apart
    <3>1. /\ StampFails(p) => hand'[p].seq = 0 /\ \A q \in Producers : q # p => hand'[q] = hand[q]
          /\ PushFails(p) => hand'[p].seq = 0 /\ \A q \in Producers : q # p => hand'[q] = hand[q]
          /\ Send(p) => hand'[p] = NoEvent /\ \A q \in Producers : q # p => hand'[q] = hand[q]
      BY StampFailsIs, PushFailsIs, SendIs
    <3> QED
      BY <2>2, <2>5, <3>1 DEF Held, NoEvent
  <2> QED
    BY <2>1, <2>3, <2>4, <2>5 DEF Next, Produce, View, Connect, Replay, ThreadEvent, Drop, Receive, Leave, Tick
<1>3. \A i \in 1 .. Len(got') : got'[i] \notin blame'["unstamped"] => got'[i][2] <= emitted'
  <2>a. blame["unstamped"] \subseteq blame'["unstamped"] /\ emitted <= emitted'
    BY <1>b, SettledKeeps, NumberedGrows DEF Obstacles
  <2>b. got \in Seq(Event) /\ \A e \in Event : e[2] \in Nat
    BY SizesAssumption DEF TypeOK, Event
  <2>c. emitted' \in Nat
    BY <1>b, NumberedGrows
  <2>1. CASE UNCHANGED got
    <3>1. \A i \in 1 .. Len(got) : got[i][2] \in Nat
      BY <2>b
    <3> QED
      BY <1>a, <1>b, <2>a, <2>c, <2>1, <3>1
  <2>2. CASE got' = <<>>
    BY <2>2
  <2>3. CASE Receive
    <3> DEFINE f == Head(wire)
    <3> HIDE DEF f
    <3>1. f \in Range(Pending) /\ f.seq \in Nat /\ f.id \in Event /\ emitted' = emitted
      BY <2>3, ReceiveIs DEF f
    <3>2. f.id \notin blame["unstamped"] => f.id[2] <= emitted
      BY <1>a, <3>1, NumberedAreFrames DEF Unstamped
    <3>3. UNCHANGED got \/ got' = Append(got, f.id)
      BY <2>3 DEF Receive, Dispatch, f
    <3>4. CASE got' = Append(got, f.id)
      <4>1. /\ Len(got') = Len(got) + 1 /\ Len(got) \in Nat /\ got'[Len(got) + 1] = f.id
            /\ \A i \in 1 .. Len(got) : got'[i] = got[i]
        BY <2>b, <3>1, <3>4
      <4>2. \A i \in 1 .. Len(got') : i \in 1 .. Len(got) \/ i = Len(got) + 1
        BY <4>1
      <4> QED
        BY <1>a, <2>a, <3>1, <3>2, <4>1, <4>2
    <3> QED
      BY <2>1, <3>3, <3>4
  <2>4. \A p \in Producers : Produce(p) => UNCHANGED got
    BY SendIs, StampIs, PushIs, StampFailsIs, PushFailsIs DEF Produce
  <2> QED
    BY <2>1, <2>2, <2>3, <2>4 DEF Next, View, Connect, Replay, ThreadEvent, Drop, Leave, Tick
<1>4. Below
  <2>a. sent \in Nat /\ floor \in Nat
    BY DEF TypeOK
  <2>1. CASE UNCHANGED <<sent, floor, seq>>
    BY <1>a, <2>1
  <2>2. ASSUME NEW p \in Producers, Stamp(p) PROVE Below
    <3>1. seq' = seq + 1 /\ UNCHANGED <<sent, floor>>
      BY <2>2, StampIs
    <3> QED
      BY <1>a, <1>b, <2>a, <3>1
  <2>3. ASSUME NEW p \in Producers, StampFails(p) PROVE UNCHANGED <<sent, floor, seq>>
    BY <2>3, StampFailsIs
  <2>4. ASSUME NEW p \in Producers, Push(p) \/ PushFails(p) PROVE Below
    <3>1. UNCHANGED <<sent, seq>> /\ Piped(p) /\ hand[p].stage # "idle"
      BY <2>4, PushIs, PushFailsIs DEF Piped
    <3>2. floor' <= seq
      <4>1. CASE floor' = floor
        BY <1>a, <4>1
      <4>2. CASE floor' # floor
        <5>1. PICK f \in Range(log) : f.seq = floor'
          BY <3>1, <4>2, PipelineKeeps DEF Piped
        <5> QED
          BY <1>a, <1>b, <5>1, NumberedAreFrames
      <4> QED
        BY <4>1, <4>2
    <3> QED
      BY <1>a, <3>1, <3>2
  <2>5. ASSUME NEW p \in Producers, Send(p) PROVE Below
    <3> DEFINE f == Carried(p)
    <3>1. f.seq = hand[p].seq /\ hand[p].stage = "ready" /\ sent' \in {sent, f.seq} /\ UNCHANGED <<seq, floor>>
      <4>1. UNCHANGED <<seq, floor>>
        BY <2>5 DEF Send
      <4> QED
        BY <2>5, <4>1, SendIs
    <3>2. f.seq <= seq
      BY <1>a, <1>b, <3>1, NumberedAreFrames DEF Held
    <3> HIDE DEF f
    <3> QED
      BY <1>a, <3>1, <3>2
  <2>6. CASE Tick
    BY <1>a, <2>6, TickIs
  <2> QED
    BY <2>1, <2>2, <2>3, <2>4, <2>5, <2>6
    DEF Next, Produce, View, Connect, Replay, ThreadEvent, Drop, Receive, Leave
<1>5. ~stale' => cursor' <= seq'
  <2>a. cursor \in Nat
    BY DEF TypeOK
  <2>1. CASE UNCHANGED <<stale, cursor>> /\ seq <= seq'
    <3>1. seq' \in Nat
      BY <1>b, NumberedGrows
    <3> QED
      BY <1>a, <1>b, <2>a, <2>1, <3>1
  <2>2. CASE Receive
    <3> DEFINE f == Head(wire)
    <3> HIDE DEF f
    <3>1. f \in Range(Pending) /\ f.seq \in Nat /\ UNCHANGED seq
      BY <2>2, ReceiveIs DEF f
    <3>2. UNCHANGED <<stale, cursor>> \/ (cursor' = f.seq /\ f.seq # 0)
      BY <2>2 DEF Receive, Advance, f
    <3>3. f.seq # 0 => f.seq <= seq
      BY <1>a, <3>1, NumberedAreFrames
    <3> QED
      BY <1>a, <3>1, <3>2, <3>3
  <2>3. CASE Leave
    BY <1>b, <2>3 DEF Leave
  <2>4. CASE Tick
    <3>1. CASE UNCHANGED <<seq, stale>>
      BY <1>a, <2>4, <3>1, TickIs
    <3>2. CASE seq' = 0 /\ stale' = (cursor # 0)
      <4>1. cursor' = cursor /\ (~stale' => cursor = 0)
        <5>1. cursor # 0 => stale'
          BY <3>2
        <5> QED
          BY <2>4, <5>1, TickIs
      <4> QED
        BY <2>a, <3>2, <4>1
    <3>3. UNCHANGED <<seq, stale>> \/ (seq' = 0 /\ stale' = (cursor # 0))
      BY <2>4, TickIs
    <3> QED
      BY <3>1, <3>2, <3>3
  <2>5. ASSUME NEW p \in Producers, Produce(p) PROVE UNCHANGED <<stale, cursor>> /\ seq <= seq'
    <3>1. Stamp(p) => UNCHANGED <<stale, cursor>> /\ seq <= seq'
      BY <1>b, StampIs
    <3>2. Send(p) => UNCHANGED <<stale, cursor, seq>>
      BY DEF Send
    <3>3. Push(p) => UNCHANGED <<stale, cursor, seq>>
      BY PushIs
    <3>4. StampFails(p) => UNCHANGED <<stale, cursor, seq>>
      BY StampFailsIs
    <3>5. PushFails(p) => UNCHANGED <<stale, cursor, seq>>
      BY PushFailsIs
    <3> QED
      BY <1>b, <2>5, <3>1, <3>2, <3>3, <3>4, <3>5 DEF Produce
  <2>6. Connect \/ Replay \/ ThreadEvent \/ Drop => UNCHANGED <<stale, cursor, seq>>
    BY DEF Connect, Replay, ThreadEvent, Drop
  <2> QED
    BY <1>b, <2>1, <2>2, <2>3, <2>4, <2>5, <2>6 DEF Next, View
<1> QED
  BY <1>1, <1>2, <1>3, <1>4, <1>5 DEF Numbering

\* What has no seq stays known to have none.
LEMMA UnstampedKeeps == TypeOK /\ Connection /\ Unstamped /\ Next => Unstamped'
<1> SUFFICES ASSUME TypeOK, Connection, Unstamped, Next PROVE Unstamped'
  OBVIOUS
<1> USE DEF redis, feed, server, browser, history
<1> DEFINE HandOK(p) == hand[p].stage = "ready" /\ hand[p].seq = 0 => Current(p) \in blame["unstamped"]
<1>a. blame["unstamped"] \subseteq blame'["unstamped"]
  BY SettledKeeps DEF Obstacles
<1>b. (\A q \in Producers : HandOK(q)) /\ \A f \in Range(Pending) : f.seq = 0 => f.id \in blame["unstamped"]
  BY DEF Unstamped
<1>c. \A q \in Producers : hand'[q] = hand[q] => HandOK(q)'
  BY <1>a, <1>b DEF Current
<1>1. \A q \in Producers : HandOK(q)'
  <2>1. CASE UNCHANGED hand
    BY <1>c, <2>1
  <2>2. ASSUME NEW p \in Producers, Stamp(p) PROVE \A q \in Producers : HandOK(q)'
    BY <1>c, <2>2, StampIs
  <2>3. ASSUME NEW p \in Producers, StampFails(p) PROVE \A q \in Producers : HandOK(q)'
    <3>1. Current(p)' = <<p, emitted + 1>>
      BY <2>3, StampFailsIs DEF Current
    <3> QED
      BY <1>c, <2>3, <3>1, StampFailsIs
  <2>4. ASSUME NEW p \in Producers, Push(p) PROVE \A q \in Producers : HandOK(q)'
    <3>1. hand'[p].seq # 0 /\ \A q \in Producers : q # p => hand'[q] = hand[q]
      BY <2>4, PushIs DEF Connection
    <3> QED
      BY <1>c, <3>1
  <2>5. ASSUME NEW p \in Producers, PushFails(p) PROVE \A q \in Producers : HandOK(q)'
    <3>1. Current(p)' = Current(p)
      BY <2>5, PushFailsIs DEF Current
    <3> QED
      BY <1>c, <2>5, <3>1, PushFailsIs
  <2>6. ASSUME NEW p \in Producers, Send(p) PROVE \A q \in Producers : HandOK(q)'
    <3>1. hand'[p] = NoEvent /\ \A q \in Producers : q # p => hand'[q] = hand[q]
      BY <2>6, SendIs
    <3> QED
      BY <1>c, <3>1 DEF NoEvent
  <2> QED
    BY <2>1, <2>2, <2>3, <2>4, <2>5, <2>6
    DEF Next, Produce, View, Connect, Replay, ThreadEvent, Drop, Receive, Leave, Tick
<1>2. \A f \in Range(Pending') : f.seq = 0 => f.id \in blame'["unstamped"]
  <2>1. CASE Range(Pending') \subseteq Range(Pending)
    BY <1>a, <1>b, <2>1
  <2>2. ASSUME NEW p \in Producers, Send(p) PROVE \A f \in Range(Pending') : f.seq = 0 => f.id \in blame'["unstamped"]
    <3> DEFINE new == Carried(p)
    <3> HIDE DEF new
    <3>1. /\ hand[p].stage = "ready" /\ new.id = Current(p) /\ new.seq = hand[p].seq
          /\ (Pending' = Append(Pending, new) \/ Pending' = Pending)
      BY <2>2, SendIs DEF new
    <3>2. Range(Pending') \subseteq Range(Pending) \cup {new}
      BY <3>1, PendingIs, RangeOfAppend
    <3>3. new.seq = 0 => new.id \in blame["unstamped"]
      BY <1>b, <3>1
    <3> QED
      BY <1>a, <1>b, <3>2, <3>3
  <2>3. ASSUME NEW p \in Producers, Stamp(p) \/ StampFails(p) \/ Push(p) \/ PushFails(p) PROVE Pending' = Pending
    BY <2>3, StampIs, StampFailsIs, PushIs, PushFailsIs DEF Pending
  <2>4. Replay => \A f \in Range(Pending') : f.seq # 0 \/ f \in Range(Pending)
    <3> SUFFICES ASSUME Replay PROVE \A f \in Range(Pending') : f.seq # 0 \/ f \in Range(Pending)
      OBVIOUS
    <3>1. chan' = chan /\ (wire' = <<>> \/ wire' = ReplaySince(since))
      BY DEF Replay
    <3>2. wire' \in Seq(Frame) /\ \A j \in 1 .. Len(wire') : wire'[j].seq # 0
      <4>1. CASE wire' = <<>>
        BY <4>1
      <4>2. CASE wire' = ReplaySince(since)
        <5>1. since \in Nat /\ log \in Seq(Frame)
          BY DEF TypeOK
        <5>2. ReplayedFrom(since)
          BY <5>1, ReplayIsTheTail
        <5>3. wire' \in Seq(Frame) /\ \A j \in 1 .. Len(wire') : wire'[j].seq > since
          BY <4>2, <5>2 DEF ReplayedFrom
        <5>4. \A j \in 1 .. Len(wire') : wire'[j].seq \in Nat
          BY <5>3, FramesOf
        <5> QED
          BY <5>1, <5>3, <5>4
      <4> QED
        BY <3>1, <4>1, <4>2
    <3>3. Range(Pending') = Range(wire') \cup Range(chan)
      <4>1. wire' \in Seq(Frame) /\ chan' \in Seq(Frame)
        BY <3>1, <3>2 DEF TypeOK
      <4>3. Range(Pending') = Range(wire') \cup Range(chan')
        BY <4>1, FramesJoined DEF Pending
      <4> QED
        BY <3>1, <4>3
    <3>4. \A f \in Range(wire') : f.seq # 0
      BY <3>2, FramesOf
    <3> QED
      BY <3>3, <3>4, PendingIs
  <2>5. Connect \/ Tick => Pending' = Pending
    BY TickIs DEF Connect, Pending
  <2>6. Drop \/ Leave => Range(Pending') = {}
    BY DEF Drop, Leave, Pending, Range
  <2> QED
    BY <1>a, <1>b, <2>1, <2>2, <2>3, <2>4, <2>5, <2>6, ThreadEventIs, ReceiveIs DEF Next, Produce, View
<1> QED
  BY <1>1, <1>2 DEF Unstamped

\* What the page accepts comes after everything it has, and the cursor follows.
LEMMA AcceptedIsNew ==
  ASSUME TypeOK, Connection, Numbering, Near, Receive, NEW f, f = Head(wire),
         f.seq # 0, Fresh(f.seq) \/ Restarted(f.seq)
  PROVE  stale \/ cursor < f.seq
<1>a. /\ f = wire[1] /\ Len(wire) \in Nat \ {0} /\ f \in Range(Pending) /\ f.seq \in Nat
  BY ReceiveIs
<1>b. cursor \in Nat /\ Buffer \in Nat \ {0} /\ IdleAfter \in Nat \ {0} /\ idle \in Nat
  BY SizesAssumption DEF TypeOK
<1>1. ASSUME ~stale, ~(cursor < f.seq) PROVE FALSE
  <2>1. cursor - f.seq < Buffer
    <3>1. 1 \in 1 .. Len(wire)
      BY <1>a
    <3> QED
      BY <1>a, <1>1, <3>1 DEF Near
  <2>2. ~(idle > 0)
    BY <1>a, <1>1 DEF Near
  <2> QED
    BY <1>a, <1>b, <1>1, <2>1, <2>2 DEF Fresh, Restarted
<1> QED
  BY <1>1

\* The page's events stay in order, and behind the frames still to be accepted.
LEMMA OrderedKeeps ==
  TypeOK /\ Connection /\ Unstamped /\ Numbering /\ Near /\ Ordered /\ Next => Ordered'
<1> SUFFICES ASSUME TypeOK, Connection, Unstamped, Numbering, Near, Ordered, Next PROVE Ordered'
  OBVIOUS
<1> USE DEF redis, feed, server, browser, history
<1> DEFINE Known(e) == e \notin blame["unstamped"]
<1> DEFINE KnownNext(e) == e \notin blame'["unstamped"]
<1>a. /\ \A i, j \in 1 .. Len(got) : i < j /\ Known(got[i]) /\ Known(got[j]) => got[i][2] < got[j][2]
      /\ \A f \in Numbered, i \in 1 .. Len(got) : (stale \/ cursor < f.seq) /\ Known(got[i]) => got[i][2] < f.id[2]
  BY DEF Ordered
<1>b. \A e : KnownNext(e) => Known(e)
  BY SettledKeeps DEF Obstacles
<1>c. got \in Seq(Event) /\ cursor \in Nat /\ (\A e \in Event : e[2] \in Nat) /\ emitted \in Nat
  BY SizesAssumption DEF TypeOK, Event
<1>d. \A i \in 1 .. Len(got) : Known(got[i]) => got[i][2] <= emitted
  BY DEF Numbering
<1>e. Ordered' <=>
      /\ \A i, j \in 1 .. Len(got') : i < j /\ KnownNext(got'[i]) /\ KnownNext(got'[j]) => got'[i][2] < got'[j][2]
      /\ \A f \in Numbered', i \in 1 .. Len(got') :
           (stale' \/ cursor' < f.seq) /\ KnownNext(got'[i]) => got'[i][2] < f.id[2]
  BY DEF Ordered
<1>1. CASE UNCHANGED <<got, cursor, stale>> /\ Numbered' \subseteq Numbered
  <2> HIDE DEF Known, KnownNext
  <2> QED
    BY <1>a, <1>b, <1>e, <1>1
<1>2. CASE got' = <<>>
  BY <1>e, <1>2
<1>3. CASE UNCHANGED got /\ Numbered' = {}
  <2> HIDE DEF Known, KnownNext
  <2> QED
    BY <1>a, <1>b, <1>e, <1>3
<1>4. ASSUME NEW p \in Producers, Stamp(p) PROVE Ordered'
  <2> DEFINE new == [id |-> <<p, emitted + 1>>, seq |-> seq + 1]
  <2>1. new.id[2] = emitted + 1
    OBVIOUS
  <2>2. UNCHANGED <<got, cursor, stale>>
    BY <1>4, StampIs
  <2>3. \A f \in Numbered' : f \in Numbered \/ f = new
    BY <1>4, StampNumbers
  <2> HIDE DEF new, Known, KnownNext
  <2>4. \A i \in 1 .. Len(got) : Known(got[i]) => got[i][2] < new.id[2]
    <3>1. \A i \in 1 .. Len(got) : got[i][2] \in Nat
      BY <1>c
    <3> QED
      BY <1>c, <1>d, <2>1, <3>1
  <2> QED
    BY <1>a, <1>b, <1>e, <2>2, <2>3, <2>4
<1>5. CASE Receive
  <2> DEFINE f == Head(wire)
  <2> HIDE DEF f
  <2>1. /\ f \in Range(Pending) /\ f.seq \in Nat /\ f.id \in Event /\ UNCHANGED <<hand, log>>
        /\ Range(Pending') \subseteq Range(Pending)
    BY <1>5, ReceiveIs DEF f
  <2>2. Numbered' \subseteq Numbered
    BY <2>1 DEF Numbered, Held, Carried, Current
  <2>3. CASE UNCHANGED <<got, cursor, stale>>
    BY <1>1, <2>2, <2>3
  <2>4. ASSUME got' = Append(got, f.id)
        PROVE  /\ Len(got') = Len(got) + 1 /\ Len(got) \in Nat /\ got'[Len(got) + 1] = f.id
               /\ \A i \in 1 .. Len(got) : got'[i] = got[i]
               /\ \A i \in 1 .. Len(got') : i \in 1 .. Len(got) \/ i = Len(got) + 1
    BY <1>c, <2>1, <2>4
  <2>5. CASE f.seq = 0 /\ got' = Append(got, f.id) /\ UNCHANGED <<cursor, stale>>
    <3>1. ~Known(f.id)
      BY <2>1, <2>5 DEF Unstamped
    <3>2. \A i \in 1 .. Len(got') : KnownNext(got'[i]) => i \in 1 .. Len(got) /\ got'[i] = got[i] /\ Known(got[i])
      BY <1>b, <2>4, <2>5, <3>1
    <3> HIDE DEF Known, KnownNext
    <3> QED
      BY <1>a, <1>e, <2>2, <2>5, <3>2
  <2>6. CASE f.seq # 0 /\ (Fresh(f.seq) \/ Restarted(f.seq)) /\ got' = Append(got, f.id) /\ cursor' = f.seq /\ stale' = FALSE
    <3>1. f \in Numbered /\ (stale \/ cursor < f.seq)
      BY <1>5, <2>1, <2>6, AcceptedIsNew, NumberedAreFrames DEF f
    <3>2. \A i \in 1 .. Len(got) : Known(got[i]) => got[i][2] < f.id[2]
      BY <1>a, <3>1
    <3>3. \A g \in Numbered' : f.seq < g.seq => f.id[2] < g.id[2]
      BY <2>2, <3>1 DEF Numbering
    <3>4. /\ \A i \in 1 .. Len(got) : got[i][2] \in Nat
          /\ f.id[2] \in Nat /\ \A g \in Numbered' : g.id[2] \in Nat
      BY <1>c, <2>1, <2>2, NumberedAreFrames
    <3> HIDE DEF Known, KnownNext
    <3>5. ASSUME NEW i \in 1 .. Len(got'), NEW j \in 1 .. Len(got'), i < j, KnownNext(got'[i]), KnownNext(got'[j])
          PROVE  got'[i][2] < got'[j][2]
      <4>1. i \in 1 .. Len(got) /\ got'[i] = got[i] /\ Known(got[i])
        BY <1>b, <2>4, <2>6, <3>5
      <4>2. CASE j \in 1 .. Len(got)
        BY <1>a, <1>b, <2>4, <2>6, <3>5, <4>1, <4>2
      <4>3. CASE j = Len(got) + 1
        BY <2>4, <2>6, <3>2, <4>1, <4>3
      <4> QED
        BY <2>4, <2>6, <4>2, <4>3
    <3>6. ASSUME NEW g \in Numbered', NEW i \in 1 .. Len(got'), cursor' < g.seq, KnownNext(got'[i])
          PROVE  got'[i][2] < g.id[2]
      <4>1. f.id[2] < g.id[2]
        BY <2>6, <3>3, <3>6
      <4>2. CASE i \in 1 .. Len(got)
        <5>1. got'[i] = got[i] /\ Known(got[i]) /\ got[i][2] < f.id[2] /\ got[i][2] \in Nat
          BY <1>b, <2>4, <2>6, <3>2, <3>4, <3>6, <4>2
        <5> QED
          BY <3>4, <4>1, <5>1
      <4>3. CASE i = Len(got) + 1
        BY <2>4, <2>6, <4>1, <4>3
      <4> QED
        BY <2>4, <2>6, <4>2, <4>3
    <3> QED
      BY <1>e, <2>6, <3>5, <3>6
  <2> QED
    BY <1>5, <2>3, <2>5, <2>6 DEF Receive, Dispatch, Advance, f
<1>6. ASSUME NEW p \in Producers, StampFails(p) \/ Push(p) \/ PushFails(p) \/ Send(p)
      PROVE  UNCHANGED <<got, cursor, stale>> /\ Numbered' \subseteq Numbered
  <2>1. UNCHANGED <<got, cursor, stale>>
    BY <1>6, StampFailsIs, PushIs, PushFailsIs DEF Send
  <2>2. Numbered' \subseteq Numbered
    BY <1>6, ProducerNumbers
  <2> QED
    BY <2>1, <2>2
<1>7. Connect \/ Replay \/ ThreadEvent \/ Drop => UNCHANGED <<got, cursor, stale>> /\ Numbered' \subseteq Numbered
  <2>1. Connect \/ Replay \/ ThreadEvent \/ Drop => UNCHANGED <<got, cursor, stale>>
    BY DEF Connect, Replay, ThreadEvent, Drop
  <2> QED
    BY <2>1, ViewNumbers DEF View
<1>8. Leave => got' = <<>>
  BY DEF Leave
<1>9. CASE Tick
  <2>1. UNCHANGED <<got, cursor>>
    BY <1>9, TickIs
  <2> QED
    BY <1>1, <1>3, <1>9, <2>1, ViewNumbers
<1> QED
  BY <1>1, <1>2, <1>4, <1>5, <1>6, <1>7, <1>8, <1>9 DEF Next, Produce, View

-----------------------------------------------------------------------------
(* How far behind a frame can be.                                          *)

\* A producer's step keeps what it says of the producers' hands.
LEMMA HandsNear ==
  ASSUME TypeOK, Connection, Numbering, Near, Next
  PROVE  /\ \A q \in Producers : Held(q)' => seq' - hand'[q].seq < Buffer
         /\ \A i \in 1 .. Len(chan') : chan'[i].seq # 0 => seq' - chan'[i].seq < Buffer
<1> USE DEF redis, feed, server, browser, history
<1>a. /\ \A q \in Producers : Held(q) => seq - hand[q].seq < Buffer
      /\ \A i \in 1 .. Len(chan) : chan[i].seq # 0 => seq - chan[i].seq < Buffer
  BY DEF Near
<1>b. seq \in Nat /\ Buffer \in Nat \ {0} /\ (\A q \in Producers : hand[q].seq \in Nat) /\ chan \in Seq(Frame)
  BY SizesAssumption DEF TypeOK
<1>c. \A q \in Producers : hand'[q] = hand[q] => (Held(q)' <=> Held(q))
  BY DEF Held
<1>d. \A i \in 1 .. Len(chan) : chan[i].seq \in Nat /\ chan[i] \in Range(chan)
  BY <1>b, FramesOf
<1>1. ASSUME NEW p \in Producers, Stamp(p)
      PROVE  /\ \A q \in Producers : Held(q)' => seq' - hand'[q].seq < Buffer
             /\ \A i \in 1 .. Len(chan') : chan'[i].seq # 0 => seq' - chan'[i].seq < Buffer
  <2>1. /\ seq' = seq + 1 /\ chan' = chan /\ hand'[p].seq = seq + 1
        /\ \A q \in Producers : q # p => hand'[q] = hand[q]
    BY <1>1, StampIs
  <2>2. \A n \in {hand[q].seq : q \in Producers} \cup {f.seq : f \in Range(chan)} : n # 0 => seq + 1 - n < Buffer
    BY <1>1, StampIs DEF Prompt
  <2>3. \A q \in Producers : Held(q) => seq + 1 - hand[q].seq < Buffer
    BY <2>2 DEF Held
  <2>4. \A i \in 1 .. Len(chan) : chan[i].seq # 0 => seq + 1 - chan[i].seq < Buffer
    BY <1>d, <2>2
  <2>5. (seq + 1) - (seq + 1) < Buffer
    BY <1>b
  <2>6. ASSUME NEW q \in Producers, Held(q)' PROVE seq' - hand'[q].seq < Buffer
    <3>1. CASE q = p
      BY <2>1, <2>5, <3>1
    <3>2. CASE q # p
      <4>1. Held(q) /\ hand'[q] = hand[q]
        BY <2>1, <2>6, <3>2 DEF Held
      <4>2. seq + 1 - hand[q].seq < Buffer
        BY <2>3, <4>1
      <4> QED
        BY <1>b, <2>1, <4>1, <4>2
    <3> QED
      BY <3>1, <3>2
  <2>7. ASSUME NEW i \in 1 .. Len(chan'), chan'[i].seq # 0 PROVE seq' - chan'[i].seq < Buffer
    <3>1. chan'[i] = chan[i] /\ i \in 1 .. Len(chan)
      BY <2>1, <2>7
    <3>2. seq + 1 - chan[i].seq < Buffer
      BY <2>4, <2>7, <3>1
    <3> QED
      BY <1>b, <1>d, <2>1, <3>1, <3>2
  <2> QED
    BY <2>6, <2>7
<1>2. ASSUME NEW p \in Producers, StampFails(p) \/ Push(p) \/ PushFails(p)
      PROVE  /\ \A q \in Producers : Held(q)' => seq' - hand'[q].seq < Buffer
             /\ \A i \in 1 .. Len(chan') : chan'[i].seq # 0 => seq' - chan'[i].seq < Buffer
  <2>1. /\ StampFails(p) => /\ UNCHANGED <<seq, chan>> /\ hand'[p].seq = 0
                            /\ \A q \in Producers : q # p => hand'[q] = hand[q]
        /\ PushFails(p) => /\ UNCHANGED <<seq, chan>> /\ hand'[p].seq = 0
                            /\ \A q \in Producers : q # p => hand'[q] = hand[q]
    BY StampFailsIs, PushFailsIs
  <2>2. Push(p) => /\ UNCHANGED <<seq, chan>> /\ Held(p) /\ hand'[p].seq = hand[p].seq
                   /\ \A q \in Producers : q # p => hand'[q] = hand[q]
    BY PushIs DEF Held, Connection
  <2>3. CASE Push(p)
    <3>1. UNCHANGED <<seq, chan>> /\ \A q \in Producers : (Held(q)' => Held(q)) /\ hand'[q].seq = hand[q].seq
      BY <1>c, <2>2, <2>3
    <3> QED
      BY <1>a, <3>1
  <2>4. CASE StampFails(p) \/ PushFails(p)
    <3>1. UNCHANGED <<seq, chan>> /\ \A q \in Producers : Held(q)' => Held(q) /\ hand'[q].seq = hand[q].seq
      BY <1>c, <2>1, <2>4 DEF Held
    <3> QED
      BY <1>a, <3>1
  <2> QED
    BY <1>2, <2>3, <2>4
<1>3. ASSUME NEW p \in Producers, Send(p)
      PROVE  /\ \A q \in Producers : Held(q)' => seq' - hand'[q].seq < Buffer
             /\ \A i \in 1 .. Len(chan') : chan'[i].seq # 0 => seq' - chan'[i].seq < Buffer
  <2> DEFINE f == Carried(p)
  <2> HIDE DEF f
  <2>1. /\ hand[p].stage = "ready" /\ f.seq = hand[p].seq /\ f \in Frame
        /\ hand'[p] = NoEvent /\ (\A q \in Producers : q # p => hand'[q] = hand[q])
        /\ (chan' = Append(chan, f) \/ chan' = chan)
    BY <1>3, SendIs DEF f
  <2>2. UNCHANGED seq
    BY <1>3 DEF Send
  <2>3. \A q \in Producers : Held(q)' => Held(q) /\ hand'[q] = hand[q]
    BY <1>c, <2>1 DEF Held, NoEvent
  <2>4. f.seq # 0 => seq - f.seq < Buffer
    BY <1>a, <2>1 DEF Held
  <2>5. \A i \in 1 .. Len(chan') : chan'[i] = f \/ (i \in 1 .. Len(chan) /\ chan'[i] = chan[i])
    BY <1>b, <2>1
  <2> QED
    BY <1>a, <2>2, <2>3, <2>4, <2>5
<1>4. ASSUME UNCHANGED <<seq, hand>>,
             \A i \in 1 .. Len(chan') : \E j \in 1 .. Len(chan) : chan'[i] = chan[j]
      PROVE  /\ \A q \in Producers : Held(q)' => seq' - hand'[q].seq < Buffer
             /\ \A i \in 1 .. Len(chan') : chan'[i].seq # 0 => seq' - chan'[i].seq < Buffer
  BY <1>a, <1>c, <1>4
<1>5. Connect \/ Replay \/ Receive => UNCHANGED <<seq, hand, chan>>
  BY DEF Connect, Replay, Receive
<1>6. Drop \/ Leave => UNCHANGED <<seq, hand>> /\ chan' = <<>>
  BY DEF Drop, Leave
<1>7. ThreadEvent => UNCHANGED <<seq, hand>> /\ \A i \in 1 .. Len(chan') : \E j \in 1 .. Len(chan) : chan'[i] = chan[j]
  <2> SUFFICES ASSUME ThreadEvent
               PROVE  UNCHANGED <<seq, hand>> /\ \A i \in 1 .. Len(chan') : \E j \in 1 .. Len(chan) : chan'[i] = chan[j]
    OBVIOUS
  <2>1. UNCHANGED <<seq, hand>> /\ chan # <<>> /\ chan' = Tail(chan)
    BY DEF ThreadEvent
  <2>2. /\ Len(chan') = Len(chan) - 1 /\ Len(chan) \in Nat
        /\ \A i \in 1 .. Len(chan) - 1 : chan'[i] = chan[i + 1]
    BY <1>b, <2>1, RangeOfTail
  <2>3. \A i \in 1 .. Len(chan') : i + 1 \in 1 .. Len(chan) /\ chan'[i] = chan[i + 1]
    BY <2>2
  <2> QED
    BY <2>1, <2>3
<1>8. Tick => /\ chan' = <<>> /\ \A q \in Producers : ~Held(q)'
  BY TickIs DEF Held, NoEvent
<1>9. (chan' = <<>> /\ \A q \in Producers : ~Held(q)') =>
         /\ \A q \in Producers : Held(q)' => seq' - hand'[q].seq < Buffer
         /\ \A i \in 1 .. Len(chan') : chan'[i].seq # 0 => seq' - chan'[i].seq < Buffer
  OBVIOUS
<1> QED
  BY <1>1, <1>2, <1>3, <1>4, <1>5, <1>6, <1>7, <1>8, <1>9 DEF Next, Produce, View

\* Entries of the log are in order, give or take less than its size.
LEMMA LogNear ==
  ASSUME TypeOK, Connection, Numbering, Near, Next
  PROVE  \A i, j \in 1 .. Len(log') : i < j => log'[i].seq - log'[j].seq < Buffer
<1> USE DEF redis, feed, server, browser, history
<1>a. \A i, j \in 1 .. Len(log) : i < j => log[i].seq - log[j].seq < Buffer
  BY DEF Near
<1>b. log \in Seq(Frame) /\ Len(log) \in Nat /\ seq \in Nat /\ Buffer \in Nat \ {0}
  BY SizesAssumption DEF TypeOK
<1>1. CASE log' = log
  BY <1>a, <1>1
<1>2. CASE log' = <<>>
  BY <1>2
<1>3. ASSUME NEW p \in Producers, hand[p].stage = "stamped", Pipeline(p)
      PROVE  \A i, j \in 1 .. Len(log') : i < j => log'[i].seq - log'[j].seq < Buffer
  <2> DEFINE f == Carried(p)
  <2>1. f.seq = hand[p].seq /\ f.seq \in Nat /\ seq - f.seq < Buffer
    BY <1>3, NumberedAreFrames DEF Held, Near, Connection
  <2> HIDE DEF f
  <2>2. PICK d \in {0, 1} :
           /\ Len(log') = Len(log) + 1 - d
           /\ \A i \in 1 .. Len(log) - d : log'[i] = log[i + d]
    BY <1>3, PipelineIs
  <2>3. log'[Len(log')] = f
    BY <1>3, PipelineIs DEF f
  <2>4. \A i \in 1 .. Len(log) : log[i].seq \in Nat /\ log[i].seq <= seq
    BY <1>b, FramesOf, NumberedAreFrames DEF Numbering
  <2>5. ASSUME NEW i \in 1 .. Len(log'), i # Len(log')
        PROVE  i + d \in 1 .. Len(log) /\ log'[i] = log[i + d]
    <3>1. i \in 1 .. Len(log) - d
      BY <1>b, <2>2, <2>5
    <3> QED
      BY <1>b, <2>2, <3>1
  <2>6. ASSUME NEW i \in 1 .. Len(log'), NEW j \in 1 .. Len(log'), i < j
        PROVE  log'[i].seq - log'[j].seq < Buffer
    <3>1. i + d \in 1 .. Len(log) /\ log'[i] = log[i + d]
      BY <1>b, <2>2, <2>5, <2>6
    <3>2. CASE j = Len(log')
      <4>1. log'[i].seq \in Nat /\ log'[i].seq <= seq /\ log'[j] = f
        BY <2>3, <2>4, <3>1, <3>2
      <4> QED
        BY <1>b, <2>1, <4>1
    <3>3. CASE j # Len(log')
      <4>1. j + d \in 1 .. Len(log) /\ log'[j] = log[j + d]
        BY <2>5, <3>3
      <4>2. i + d < j + d
        BY <2>6
      <4> QED
        BY <1>a, <3>1, <4>1, <4>2
    <3> QED
      BY <3>2, <3>3
  <2> QED
    BY <2>6
<1>4. ASSUME NEW p \in Producers, Produce(p)
      PROVE  log' = log \/ \E q \in Producers : hand[q].stage = "stamped" /\ Pipeline(q)
  BY <1>4, StampIs, StampFailsIs, PushIs, PushFailsIs DEF Produce, Send, Piped
<1>5. View => log' = log
  BY ViewNumbers
<1>6. Tick => log' = log \/ log' = <<>>
  BY TickIs
<1> QED
  BY <1>1, <1>2, <1>3, <1>4, <1>5, <1>6 DEF Next

\* What a reconnect replays: a part of the log, all of it ahead of the cursor.
LEMMA ReplayIs ==
  ASSUME TypeOK, Connection, Replay
  PROVE  /\ conn = "joined" /\ since = cursor /\ conn' = "open" /\ wire = <<>>
         /\ wire' \in Seq(Frame) /\ Len(wire') \in Nat
         /\ gap' = (gap \/ OutOfReach(cursor))
         /\ UNCHANGED <<redis, feed, since, chan, browser, owed, blame, stale, floor, sent>>
         /\ cursor = 0 => wire' = <<>>
         /\ \E at \in [1 .. Len(wire') -> 1 .. Len(log)] :
              /\ \A j \in 1 .. Len(wire') : wire'[j] = log[at[j]] /\ wire'[j].seq > cursor
              /\ \A i, j \in 1 .. Len(wire') : i < j => at[i] < at[j]
              /\ cursor # 0 => \A b \in 1 .. Len(log) : log[b].seq > cursor => \E j \in 1 .. Len(wire') : at[j] = b
<1>1. /\ conn = "joined" /\ conn' = "open" /\ gap' = (gap \/ OutOfReach(since))
      /\ wire' = (IF since = 0 THEN <<>> ELSE ReplaySince(since))
      /\ UNCHANGED <<redis, feed, since, chan, browser, owed, blame, stale, floor, sent>>
  BY DEF Replay
<1>2. since = cursor /\ wire = <<>> /\ cursor \in Nat /\ log \in Seq(Frame)
  BY <1>1 DEF Connection, TypeOK
<1>3. CASE cursor = 0
  <2> DEFINE none == [j \in 1 .. 0 |-> 1]
  <2>1. wire' = <<>> /\ wire' \in Seq(Frame) /\ Len(wire') = 0
    BY <1>1, <1>2, <1>3
  <2>2. none \in [1 .. Len(wire') -> 1 .. Len(log)]
    BY <2>1
  <2> HIDE DEF none
  <2>3. /\ \A j \in 1 .. Len(wire') : wire'[j] = log[none[j]] /\ wire'[j].seq > cursor
        /\ \A i, j \in 1 .. Len(wire') : i < j => none[i] < none[j]
        /\ cursor # 0 => \A b \in 1 .. Len(log) : log[b].seq > cursor => \E j \in 1 .. Len(wire') : none[j] = b
    BY <1>3, <2>1
  <2> QED
    BY <1>1, <1>2, <1>3, <2>1, <2>2, <2>3
<1>4. CASE cursor # 0
  <2>1. wire' = ReplaySince(cursor)
    BY <1>1, <1>2, <1>4
  <2>2. ReplayedFrom(cursor)
    BY <1>2, ReplayIsTheTail
  <2>3. /\ wire' \in Seq(Frame) /\ Len(wire') \in Nat
        /\ \E at \in [1 .. Len(wire') -> 1 .. Len(log)] :
              /\ \A j \in 1 .. Len(wire') : wire'[j] = log[at[j]] /\ wire'[j].seq > cursor
              /\ \A i, j \in 1 .. Len(wire') : i < j => at[i] < at[j]
              /\ \A b \in 1 .. Len(log) : log[b].seq > cursor => \E j \in 1 .. Len(wire') : at[j] = b
    BY <2>1, <2>2 DEF ReplayedFrom
  <2> QED
    BY <1>1, <1>2, <1>4, <2>3
<1> QED
  BY <1>3, <1>4

\* Who is behind on the socket is so by less than the size of the buffer.
LEMMA WireNear ==
  ASSUME TypeOK, Connection, Numbering, Near, Next
  PROVE  /\ \A i, j \in 1 .. Len(wire') : i < j /\ wire'[j].seq # 0 => wire'[i].seq - wire'[j].seq < Buffer
         /\ ~stale' => \A i \in 1 .. Len(wire') : wire'[i].seq # 0 => cursor' - wire'[i].seq < Buffer
<1> USE DEF redis, feed, server, browser, history
<1> DEFINE Goal == /\ \A i, j \in 1 .. Len(wire') : i < j /\ wire'[j].seq # 0 => wire'[i].seq - wire'[j].seq < Buffer
                   /\ ~stale' => \A i \in 1 .. Len(wire') : wire'[i].seq # 0 => cursor' - wire'[i].seq < Buffer
<1>a. /\ \A i, j \in 1 .. Len(wire) : i < j /\ wire[j].seq # 0 => wire[i].seq - wire[j].seq < Buffer
      /\ ~stale => \A i \in 1 .. Len(wire) : wire[i].seq # 0 => cursor - wire[i].seq < Buffer
      /\ \A i \in 1 .. Len(chan) : chan[i].seq # 0 => seq - chan[i].seq < Buffer
  BY DEF Near
<1>b. /\ wire \in Seq(Frame) /\ chan \in Seq(Frame) /\ log \in Seq(Frame)
      /\ seq \in Nat /\ cursor \in Nat /\ Buffer \in Nat \ {0} /\ Len(wire) \in Nat
  BY SizesAssumption DEF TypeOK
<1>c. /\ \A i \in 1 .. Len(wire) : wire[i].seq \in Nat /\ wire[i].seq <= seq
      /\ \A i \in 1 .. Len(chan) : chan[i].seq \in Nat /\ chan[i].seq <= seq
  <2>1. \A f \in Range(Pending) : f.seq \in Nat /\ f.seq <= seq
    BY <1>b, NumberedAreFrames DEF Numbering
  <2> QED
    BY <1>b, <2>1, PendingIs, FramesOf
<1>1. CASE UNCHANGED <<wire, cursor, stale>>
  BY <1>a, <1>1
<1>2. CASE wire' = <<>>
  BY <1>2
<1>3. CASE Replay
  <2>1. PICK at \in [1 .. Len(wire') -> 1 .. Len(log)] :
              /\ \A j \in 1 .. Len(wire') : wire'[j] = log[at[j]] /\ wire'[j].seq > cursor
              /\ \A i, j \in 1 .. Len(wire') : i < j => at[i] < at[j]
    BY <1>3, ReplayIs
  <2>2. cursor' = cursor /\ wire' \in Seq(Frame)
    BY <1>3, ReplayIs
  <2>3. \A j \in 1 .. Len(wire') : wire'[j].seq \in Nat
    BY <2>2, FramesOf
  <2>4. \A i, j \in 1 .. Len(wire') : i < j => wire'[i].seq - wire'[j].seq < Buffer
    BY <2>1 DEF Near
  <2>5. \A i \in 1 .. Len(wire') : cursor' - wire'[i].seq < Buffer
    BY <1>b, <2>1, <2>2, <2>3
  <2> QED
    BY <2>4, <2>5
<1>4. CASE ThreadEvent
  <2> DEFINE f == Head(chan)
  <2>1. f = chan[1] /\ 1 \in 1 .. Len(chan) /\ wire' = Append(wire, f) /\ UNCHANGED <<cursor, stale>>
    BY <1>4, <1>b, RangeOfTail DEF ThreadEvent
  <2> HIDE DEF f
  <2>2. /\ Len(wire') = Len(wire) + 1 /\ wire'[Len(wire) + 1] = f
        /\ \A i \in 1 .. Len(wire) : wire'[i] = wire[i]
        /\ \A i \in 1 .. Len(wire') : i \in 1 .. Len(wire) \/ i = Len(wire) + 1
    BY <1>b, <2>1
  <2>3. f.seq \in Nat /\ (f.seq # 0 => seq - f.seq < Buffer)
    BY <1>a, <1>c, <2>1
  <2>4. ASSUME NEW i \in 1 .. Len(wire'), NEW j \in 1 .. Len(wire'), i < j, wire'[j].seq # 0
        PROVE  wire'[i].seq - wire'[j].seq < Buffer
    <3>1. i \in 1 .. Len(wire) /\ wire'[i] = wire[i]
      BY <1>b, <2>2, <2>4
    <3>2. CASE j = Len(wire) + 1
      <4>1. wire[i].seq \in Nat /\ wire[i].seq <= seq
        BY <1>c, <3>1
      <4> QED
        BY <1>b, <2>2, <2>3, <2>4, <3>1, <3>2, <4>1
    <3>3. CASE j \in 1 .. Len(wire)
      BY <1>a, <2>2, <2>4, <3>1, <3>3
    <3> QED
      BY <2>2, <3>2, <3>3
  <2>5. ASSUME ~stale', NEW i \in 1 .. Len(wire'), wire'[i].seq # 0 PROVE cursor' - wire'[i].seq < Buffer
    <3>1. cursor <= seq /\ cursor' = cursor /\ ~stale
      BY <2>1, <2>5 DEF Numbering
    <3>2. CASE i = Len(wire) + 1
      BY <1>b, <2>2, <2>3, <2>5, <3>1, <3>2
    <3>3. CASE i \in 1 .. Len(wire)
      BY <1>a, <2>2, <2>5, <3>1, <3>3
    <3> QED
      BY <2>2, <3>2, <3>3
  <2> QED
    BY <2>4, <2>5
<1>5. CASE Receive
  <2> DEFINE f == Head(wire)
  <2>1. /\ f = wire[1] /\ Len(wire') = Len(wire) - 1 /\ Len(wire) \in Nat \ {0}
        /\ \A i \in 1 .. Len(wire) - 1 : wire'[i] = wire[i + 1]
    BY <1>5, ReceiveIs
  <2>2. UNCHANGED <<cursor, stale>> \/ (cursor' = f.seq /\ stale' = FALSE)
    BY <1>5 DEF Receive, Advance
  <2> HIDE DEF f
  <2>3. \A i \in 1 .. Len(wire') : wire'[i] = wire[i + 1] /\ i + 1 \in 1 .. Len(wire) /\ 1 < i + 1 /\ 1 \in 1 .. Len(wire)
    BY <2>1
  <2>4. \A i, j \in 1 .. Len(wire') : i < j /\ wire'[j].seq # 0 => wire'[i].seq - wire'[j].seq < Buffer
    <3>1. \A i, j \in 1 .. Len(wire') : i < j => i + 1 < j + 1
      OBVIOUS
    <3> QED
      BY <1>a, <2>3, <3>1
  <2>5. ASSUME ~stale', NEW i \in 1 .. Len(wire'), wire'[i].seq # 0 PROVE cursor' - wire'[i].seq < Buffer
    BY <1>a, <2>1, <2>2, <2>3, <2>5
  <2> QED
    BY <2>4, <2>5
<1>6. Drop \/ Leave \/ Tick => wire' = <<>>
  BY TickIs DEF Drop, Leave
<1>7. ASSUME NEW p \in Producers, Produce(p) PROVE UNCHANGED <<wire, cursor, stale>>
  BY <1>7, StampIs, StampFailsIs, PushIs, PushFailsIs DEF Produce, Send
<1>8. Connect => UNCHANGED <<wire, cursor, stale>>
  BY DEF Connect
<1> QED
  BY <1>1, <1>2, <1>3, <1>4, <1>5, <1>6, <1>7, <1>8 DEF Next, View

\* Once time has passed, what is on its way is ahead of the cursor.
LEMMA IdleNear ==
  ASSUME TypeOK, Connection, Numbering, Near, Next
  PROVE  ~stale' /\ idle' > 0 =>
           /\ \A q \in Producers : Held(q)' => cursor' < hand'[q].seq
           /\ \A f \in Range(Pending') : f.seq # 0 => cursor' < f.seq
<1> SUFFICES ASSUME ~stale', idle' > 0
             PROVE  /\ \A q \in Producers : Held(q)' => cursor' < hand'[q].seq
                    /\ \A f \in Range(Pending') : f.seq # 0 => cursor' < f.seq
  OBVIOUS
<1> USE DEF redis, feed, server, browser, history
<1>a. ~stale /\ idle > 0 =>
        /\ \A q \in Producers : Held(q) => cursor < hand[q].seq
        /\ \A f \in Range(Pending) : f.seq # 0 => cursor < f.seq
  BY DEF Near
<1>b. cursor \in Nat /\ seq \in Nat /\ (~stale => cursor <= seq)
  BY DEF TypeOK, Numbering
<1>c. \A q \in Producers : hand'[q] = hand[q] => (Held(q)' <=> Held(q))
  BY DEF Held
<1>1. ASSUME NEW p \in Producers, Stamp(p)
      PROVE  /\ \A q \in Producers : Held(q)' => cursor' < hand'[q].seq
             /\ \A f \in Range(Pending') : f.seq # 0 => cursor' < f.seq
  <2>1. /\ UNCHANGED <<cursor, stale, idle, wire, chan>> /\ hand'[p].seq = seq + 1
        /\ \A q \in Producers : q # p => hand'[q] = hand[q]
    BY <1>1, StampIs
  <2>2. Pending' = Pending
    BY <2>1 DEF Pending
  <2>3. cursor < seq + 1
    BY <1>b, <2>1
  <2> QED
    BY <1>a, <1>c, <2>1, <2>2, <2>3
<1>2. ASSUME NEW p \in Producers, StampFails(p) \/ Push(p) \/ PushFails(p)
      PROVE  /\ \A q \in Producers : Held(q)' => cursor' < hand'[q].seq
             /\ \A f \in Range(Pending') : f.seq # 0 => cursor' < f.seq
  <2>1. /\ UNCHANGED <<cursor, stale, idle, wire, chan>>
        /\ hand'[p].seq = 0 \/ (hand'[p].seq = hand[p].seq /\ Held(p))
        /\ \A q \in Producers : q # p => hand'[q] = hand[q]
    <3>1. CASE StampFails(p)
      BY <3>1, StampFailsIs
    <3>2. CASE Push(p)
      BY <3>2, PushIs DEF Held, Connection
    <3>3. CASE PushFails(p)
      BY <3>3, PushFailsIs
    <3> QED
      BY <1>2, <3>1, <3>2, <3>3
  <2>2. Pending' = Pending
    BY <2>1 DEF Pending
  <2>3. \A q \in Producers : Held(q)' => Held(q) /\ hand'[q].seq = hand[q].seq
    BY <1>c, <2>1 DEF Held
  <2> QED
    BY <1>a, <2>1, <2>2, <2>3
<1>3. ASSUME NEW p \in Producers, Send(p)
      PROVE  /\ \A q \in Producers : Held(q)' => cursor' < hand'[q].seq
             /\ \A f \in Range(Pending') : f.seq # 0 => cursor' < f.seq
  <2> DEFINE f == Carried(p)
  <2> HIDE DEF f
  <2>1. /\ hand[p].stage = "ready" /\ f.seq = hand[p].seq
        /\ hand'[p] = NoEvent /\ (\A q \in Producers : q # p => hand'[q] = hand[q])
        /\ (Pending' = Append(Pending, f) \/ Pending' = Pending)
    BY <1>3, SendIs DEF f
  <2>2. UNCHANGED <<cursor, stale, idle>>
    BY <1>3 DEF Send
  <2>3. Range(Pending') \subseteq Range(Pending) \cup {f}
    BY <2>1, PendingIs, RangeOfAppend
  <2>4. \A q \in Producers : Held(q)' => Held(q) /\ hand'[q] = hand[q]
    BY <1>c, <2>1 DEF Held, NoEvent
  <2>5. f.seq # 0 => cursor < f.seq
    BY <1>a, <2>1, <2>2 DEF Held
  <2> QED
    BY <1>a, <2>2, <2>3, <2>4, <2>5
<1>4. ASSUME UNCHANGED <<cursor, stale, idle, hand>>, Range(Pending') \subseteq Range(Pending)
      PROVE  /\ \A q \in Producers : Held(q)' => cursor' < hand'[q].seq
             /\ \A f \in Range(Pending') : f.seq # 0 => cursor' < f.seq
  BY <1>a, <1>c, <1>4
<1>5. Connect => UNCHANGED <<cursor, stale, idle, hand>> /\ Pending' = Pending
  BY DEF Connect, Pending
<1>6. CASE Replay
  <2>1. /\ UNCHANGED <<cursor, stale, idle, hand, chan>> /\ wire' \in Seq(Frame)
        /\ \A j \in 1 .. Len(wire') : wire'[j].seq > cursor
    BY <1>6, ReplayIs
  <2>2. Range(Pending') = Range(wire') \cup Range(chan')
    <3>1. wire' \in Seq(Frame) /\ chan' \in Seq(Frame)
      BY <2>1 DEF TypeOK
    <3> QED
      BY <3>1, FramesJoined DEF Pending
  <2>3. \A f \in Range(wire') : f.seq > cursor /\ f.seq \in Nat
    BY <2>1, FramesOf
  <2>4. \A f \in Range(chan') : f \in Range(Pending)
    BY <2>1, PendingIs
  <2> QED
    BY <1>a, <1>b, <1>c, <2>1, <2>2, <2>3, <2>4
<1>7. ThreadEvent => UNCHANGED <<cursor, stale, idle, hand>> /\ Pending' = Pending
  BY ThreadEventIs
<1>8. Drop => UNCHANGED <<cursor, stale, idle, hand>> /\ Range(Pending') = {}
  BY DEF Drop, Pending, Range
<1>9. Receive => UNCHANGED <<cursor, stale, idle, hand>> /\ Range(Pending') \subseteq Range(Pending)
  <2> SUFFICES ASSUME Receive PROVE UNCHANGED <<cursor, stale, idle, hand>> /\ Range(Pending') \subseteq Range(Pending)
    OBVIOUS
  <2>1. UNCHANGED <<cursor, stale, idle>> \/ idle' = 0
    BY DEF Receive, Advance
  <2> QED
    BY <2>1, ReceiveIs
<1>10. ~Leave
  BY DEF Leave
<1>11. CASE Tick
  <2>1. Range(Pending') = {} /\ \A q \in Producers : ~Held(q)'
    <3>1. /\ chan' = <<>> /\ wire' = <<>> /\ \A q \in Producers : hand'[q] = NoEvent
      BY <1>11, TickIs
    <3> QED
      BY <3>1 DEF Pending, Range, Held, NoEvent
  <2> QED
    BY <2>1
<1> QED
  BY <1>1, <1>2, <1>3, <1>4, <1>5, <1>6, <1>7, <1>8, <1>9, <1>10, <1>11 DEF Next, Produce, View

\* Every step keeps what is under way within a buffer of the counter.
LEMMA NearKeeps == TypeOK /\ Connection /\ Numbering /\ Near /\ Next => Near'
<1> SUFFICES ASSUME TypeOK, Connection, Numbering, Near, Next PROVE Near'
  OBVIOUS
<1> QED
  BY HandsNear, LogNear, WireNear, IdleNear DEF Near

-----------------------------------------------------------------------------
(* The log.                                                                *)

\* Distinct seqs do not fit into a range that is too narrow for them.
LEMMA TooMany ==
  ASSUME NEW n \in Nat \ {0}, NEW q, \A i \in 1 .. n : q[i] \in Nat,
         \A i, j \in 1 .. n : q[i] = q[j] => i = j,
         NEW top \in Nat, \A i \in 1 .. n : q[i] < top /\ top - q[i] < n
  PROVE  FALSE
<1> DEFINE f == [i \in 1 .. n |-> top - q[i]]
<1>1. f \in [1 .. n -> 1 .. n - 1]
  OBVIOUS
<1>2. \A i, j \in 1 .. n : f[i] = f[j] => i = j
  OBVIOUS
<1> HIDE DEF f
<1>4. /\ IsFiniteSet(1 .. n) /\ IsFiniteSet(1 .. n - 1)
      /\ Cardinality(1 .. n) = n /\ Cardinality(1 .. n - 1) = n - 1
  BY FS_Interval
<1>5. Cardinality(1 .. n - 1) < Cardinality(1 .. n)
  BY <1>4
<1>6. \E i, j \in 1 .. n : i # j /\ f[i] = f[j]
  <2> DEFINE S == 1 .. n
  <2> DEFINE T == 1 .. n - 1
  <2>1. IsFiniteSet(S) /\ IsFiniteSet(T) /\ Cardinality(T) < Cardinality(S) /\ f \in [S -> T]
    BY <1>1, <1>4, <1>5
  <2> HIDE DEF S, T
  <2>2. \E x, y \in S : x # y /\ f[x] = f[y]
    BY <2>1, FS_PigeonHole
  <2> QED
    BY <2>2 DEF S
<1> QED
  BY <1>2, <1>6

\* The pipeline shifts the log by the entries that it trims.
LEMMA PipelineAt ==
  ASSUME TypeOK, Connection, NEW p \in Producers, hand[p].stage # "idle", Pipeline(p)
  PROVE  \E d \in {0, 1} :
            /\ \A i \in 1 .. Len(log') : i = Len(log') \/ (i + d \in 1 .. Len(log) /\ log'[i] = log[i + d])
            /\ log'[Len(log')] = Carried(p) /\ Len(log') \in 1 .. Buffer /\ Len(log) \in Nat
            /\ \A i \in 1 .. Len(log) : \/ i - d \in 1 .. Len(log') - 1 /\ log'[i - d] = log[i]
                                        \/ d = 1 /\ i = 1 /\ Len(log') = Buffer
<1>1. /\ log' \in Seq(Frame) /\ Len(log') <= Buffer
      /\ Len(log) \in Nat /\ Len(log') \in Nat \ {0} /\ log'[Len(log')] = Carried(p)
  BY PipelineIs
<1>2. PICK d \in {0, 1} :
         /\ Len(log') = Len(log) + 1 - d
         /\ \A i \in 1 .. Len(log) - d : log'[i] = log[i + d]
         /\ d = 1 => Len(log) = Buffer
  BY PipelineIs
<1>a. Buffer \in Nat
  BY SizesAssumption
<1>3. ASSUME NEW i \in 1 .. Len(log'), i # Len(log') PROVE i + d \in 1 .. Len(log) /\ log'[i] = log[i + d]
  <2>1. i \in 1 .. Len(log) - d /\ i + d \in 1 .. Len(log)
    BY <1>1, <1>2, <1>3
  <2> QED
    BY <1>2, <2>1
<1>4. ASSUME NEW i \in 1 .. Len(log)
      PROVE  \/ i - d \in 1 .. Len(log') - 1 /\ log'[i - d] = log[i]
             \/ d = 1 /\ i = 1 /\ Len(log') = Buffer
  <2>1. CASE d = 1 /\ i = 1
    BY <1>1, <1>2, <2>1
  <2>2. CASE ~(d = 1 /\ i = 1)
    <3>1. i - d \in 1 .. Len(log) - d /\ i - d \in 1 .. Len(log') - 1 /\ (i - d) + d = i
      BY <1>1, <1>2, <2>2
    <3>2. log'[i - d] = log[(i - d) + d]
      BY <1>2, <3>1
    <3> QED
      BY <3>1, <3>2
  <2> QED
    BY <2>1, <2>2
<1>5. Len(log') \in 1 .. Buffer
  BY <1>1, <1>a
<1> QED
  BY <1>1, <1>3, <1>4, <1>5

\* A producer that touches the log has a stamp.
LEMMA PipelineOf ==
  ASSUME TypeOK, Connection, NEW p \in Producers, StampFails(p) \/ Push(p) \/ PushFails(p) \/ Send(p)
  PROVE  \/ UNCHANGED <<log, floor>>
         \/ /\ hand[p].stage = "stamped" /\ Pipeline(p) /\ (Push(p) \/ PushFails(p))
            /\ hand[p].seq # 0 /\ hand[p].seq \in Nat /\ Held(p) /\ Carried(p).seq = hand[p].seq
<1> USE DEF redis, history
<1>1. CASE StampFails(p) \/ Send(p)
  BY <1>1, StampFailsIs DEF Send
<1>2. CASE Push(p) \/ PushFails(p)
  <2>1. hand[p].stage = "stamped" /\ (Pipeline(p) \/ UNCHANGED <<log, floor>>)
    BY <1>2, PushIs, PushFailsIs DEF Piped
  <2>2. hand[p].seq # 0 /\ hand[p].seq \in Nat /\ Held(p) /\ Carried(p).seq = hand[p].seq
    BY <2>1, CarriedIsFrame DEF Connection, Held
  <2> QED
    BY <1>2, <2>1, <2>2
<1> QED
  BY <1>1, <1>2

\* Who touches the log: a producer with a stamp, or the expiry of the keys.
LEMMA LogChanges ==
  ASSUME TypeOK, Connection, Next
  PROVE  \/ UNCHANGED <<log, floor>>
         \/ log' = <<>> /\ floor' = 0 /\ Tick
         \/ \E p \in Producers : /\ hand[p].stage = "stamped" /\ Pipeline(p) /\ (Push(p) \/ PushFails(p))
                                 /\ hand[p].seq # 0 /\ hand[p].seq \in Nat /\ Held(p) /\ Carried(p).seq = hand[p].seq
<1> USE DEF redis, feed, server, browser, history
<1>2. ASSUME NEW p \in Producers, Stamp(p) PROVE UNCHANGED <<log, floor>>
  BY <1>2, StampIs
<1>3. View => UNCHANGED <<log, floor>>
  BY DEF View, Connect, Replay, ThreadEvent, Drop, Receive, Leave
<1>4. Tick => UNCHANGED <<log, floor>> \/ (log' = <<>> /\ floor' = 0)
  BY TickIs
<1> QED
  BY <1>2, <1>3, <1>4, PipelineOf DEF Next, Produce

\* Every entry has a seq of its own.
LEMMA LoggedOnceKeeps ==
  ASSUME TypeOK, Connection, LoggedOnce, NotYetLogged, Next
  PROVE  LoggedOnce'
<1>1. CASE UNCHANGED <<log, floor>>
  BY <1>1 DEF LoggedOnce
<1>2. CASE log' = <<>>
  BY <1>2 DEF LoggedOnce
<1>3. ASSUME NEW p \in Producers, hand[p].stage = "stamped", Pipeline(p), hand[p].seq # 0, Carried(p).seq = hand[p].seq
      PROVE  LoggedOnce'
  <2> DEFINE new == Carried(p)
  <2> HIDE DEF new
  <2>1. PICK d \in {0, 1} :
            /\ \A i \in 1 .. Len(log') : i = Len(log') \/ (i + d \in 1 .. Len(log) /\ log'[i] = log[i + d])
            /\ log'[Len(log')] = new /\ Len(log') \in 1 .. Buffer
    BY <1>3, PipelineAt DEF new
  <2>2. new.seq # 0 /\ \A i \in 1 .. Len(log) : log[i].seq # new.seq
    BY <1>3, FramesOf DEF NotYetLogged, TypeOK, new
  <2>3. ASSUME NEW i \in 1 .. Len(log'), NEW j \in 1 .. Len(log'), log'[i].seq = log'[j].seq PROVE i = j
    <3>1. CASE i = Len(log') \/ j = Len(log')
      BY <2>1, <2>2, <2>3, <3>1
    <3>2. CASE i # Len(log') /\ j # Len(log')
      <4>1. i + d = j + d
        BY <2>1, <2>3, <3>2 DEF LoggedOnce
      <4> QED
        BY <4>1
    <3> QED
      BY <3>1, <3>2
  <2>4. \A i \in 1 .. Len(log') : log'[i].seq # 0
    BY <2>1, <2>2 DEF LoggedOnce
  <2> QED
    BY <2>3, <2>4 DEF LoggedOnce
<1> QED
  BY <1>1, <1>2, <1>3, LogChanges

\* What is pushed is reached and stays so.
LEMMA ReachKeeps ==
  ASSUME TypeOK, Connection, Next, ~Tick
  PROVE  /\ \A s \in Nat : Reached(s) => Reached(s)'
         /\ \A f \in Range(log) : f \in Range(log') \/ f.seq <= floor'
         /\ \A f \in Range(log') : f \in Range(log) \/ \E p \in Producers : f = Carried(p) /\ hand[p].stage = "stamped"
         /\ floor <= floor'
<1>1. CASE UNCHANGED <<log, floor>>
  BY <1>1 DEF Reached, TypeOK
<1>2. ASSUME NEW p \in Producers, hand[p].stage = "stamped", Pipeline(p)
      PROVE  /\ \A s \in Nat : Reached(s) => Reached(s)'
             /\ \A f \in Range(log) : f \in Range(log') \/ f.seq <= floor'
             /\ \A f \in Range(log') : f \in Range(log) \/ f = Carried(p)
             /\ floor <= floor'
  <2>1. /\ Range(log') \subseteq Range(log) \cup {Carried(p)}
        /\ \A f \in Range(log) : f \in Range(log') \/ f.seq <= floor'
        /\ floor <= floor'
    BY <1>2, PipelineKeeps
  <2>2. floor' \in Nat /\ floor \in Nat /\ \A f \in Range(log) : f.seq \in Nat
    BY <1>2, PipelineIs, FramesOf DEF TypeOK
  <2>3. ASSUME NEW s \in Nat, Reached(s) PROVE Reached(s)'
    <3>1. CASE s <= floor
      BY <2>1, <2>2, <3>1 DEF Reached
    <3>2. ASSUME NEW f \in Range(log), s <= f.seq PROVE Reached(s)'
      BY <2>1, <2>2, <3>2 DEF Reached
    <3> QED
      BY <2>3, <3>1, <3>2 DEF Reached
  <2> QED
    BY <2>1, <2>3
<1> QED
  BY <1>1, <1>2, LogChanges

\* What has only its seq is not in the log, and if the log has passed it by then
\* a later event is still there: the log is too long for all of it to lie between
\* the event and the later one.
LEMMA NotYetLoggedKeeps ==
  ASSUME TypeOK, Connection, Numbering, Near, LoggedOnce, NotYetLogged, LoggedOnce', Next
  PROVE  NotYetLogged'
<1> DEFINE Awaited(q) ==
       /\ floor # hand[q].seq /\ \A f \in Range(log) : f.seq # hand[q].seq
       /\ floor > hand[q].seq => \E f \in Range(log) : f.seq > hand[q].seq
<1> DEFINE Stamped(q) == hand[q].stage = "stamped"
<1>a. /\ \A q \in Producers : Stamped(q) => Awaited(q)
      /\ NotYetLogged' <=> \A q \in Producers : Stamped(q)' => Awaited(q)'
  BY DEF NotYetLogged
<1>b. /\ log \in Seq(Frame) /\ seq \in Nat /\ floor \in Nat /\ Buffer \in Nat \ {0} /\ floor <= seq
      /\ \A q \in Producers : hand[q].seq \in Nat
  BY SizesAssumption DEF TypeOK, Numbering
<1>c. /\ Len(log) \in Nat /\ \A i \in 1 .. Len(log) : log[i].seq \in Nat /\ log[i] \in Range(log)
      /\ \A f \in Range(log) : f.seq \in Nat /\ \E i \in 1 .. Len(log) : log[i] = f
  BY <1>b, FramesOf
<1>d. \A f \in Range(log) : f.seq <= seq
  <2>1. \A f \in Range(log) : f.seq # 0 => f \in Numbered
    BY NumberedIs
  <2> QED
    BY <1>b, <1>c, <2>1 DEF Numbering
<1> HIDE DEF Awaited, Stamped
<1>1. ASSUME NEW p \in Producers, hand[p].stage = "stamped", Pipeline(p), hand[p].seq # 0, Held(p),
             Carried(p).seq = hand[p].seq, NEW q \in Producers, q # p, Stamped(q), hand'[q] = hand[q]
      PROVE  Awaited(q)'
  <2> DEFINE new == Carried(p)
  <2> DEFINE s == hand[q].seq
  <2>1. Held(q) /\ s # hand[p].seq /\ new.seq = hand[p].seq /\ s # 0
    BY <1>1 DEF Stamped, Held, Connection, Numbering
  <2>2. /\ floor # s /\ \A f \in Range(log) : f.seq # s
        /\ floor > s => \E f \in Range(log) : f.seq > s
    BY <1>a, <1>1 DEF Awaited
  <2> HIDE DEF new
  <2>3. /\ Range(log') \subseteq Range(log) \cup {new} /\ new \in Range(log')
        /\ floor <= floor'
        /\ floor' # floor => \E f \in Range(log) : f.seq = floor'
    BY <1>1, PipelineKeeps DEF new
  <2>4. floor' # s /\ \A f \in Range(log') : f.seq # s
    BY <2>1, <2>2, <2>3
  <2>5. ASSUME floor' > s PROVE \E f \in Range(log') : f.seq > s
    <3>1. \E f \in Range(log) : f.seq > s
      BY <2>2, <2>3, <2>5
    <3>2. PICK i \in 1 .. Len(log) : log[i].seq > s
      BY <1>c, <3>1
    <3>3. /\ log' \in Seq(Frame) /\ Len(log') \in Nat
          /\ \A k \in 1 .. Len(log') : log'[k].seq \in Nat /\ log'[k] \in Range(log')
      BY <1>1, PipelineIs, FramesOf
    <3>4. PICK d \in {0, 1} :
            /\ \A k \in 1 .. Len(log') : k = Len(log') \/ (k + d \in 1 .. Len(log) /\ log'[k] = log[k + d])
            /\ log'[Len(log')] = new /\ Len(log') \in 1 .. Buffer
            /\ \A k \in 1 .. Len(log) : \/ k - d \in 1 .. Len(log') - 1 /\ log'[k - d] = log[k]
                                        \/ d = 1 /\ k = 1 /\ Len(log') = Buffer
      BY <1>1, PipelineAt DEF new
    <3>5. CASE i - d \in 1 .. Len(log') - 1 /\ log'[i - d] = log[i]
      <4>1. i - d \in 1 .. Len(log')
        BY <3>3, <3>5
      <4> QED
        BY <3>2, <3>3, <3>5, <4>1
    <3>6. CASE d = 1 /\ i = 1 /\ Len(log') = Buffer
      <4> DEFINE top == log[1].seq
      <4>1. top \in Nat /\ top > s /\ top <= seq /\ 1 \in 1 .. Len(log)
        BY <1>c, <1>d, <3>2, <3>6
      <4> HIDE DEF top
      <4>2. SUFFICES ASSUME \A f \in Range(log') : ~(f.seq > s) PROVE FALSE
        OBVIOUS
      <4>3. \A k \in 1 .. Len(log') : log'[k].seq < top
        BY <1>b, <2>4, <3>3, <4>1, <4>2
      <4>4. ASSUME NEW k \in 1 .. Len(log') PROVE top - log'[k].seq < Buffer
        <5>1. CASE k = Len(log')
          <6>1. seq - new.seq < Buffer /\ new.seq \in Nat
            BY <1>1, <1>b, <2>1 DEF Near
          <6> QED
            BY <1>b, <3>4, <4>1, <5>1, <6>1
        <5>2. CASE k # Len(log')
          <6>1. k + 1 \in 1 .. Len(log) /\ log'[k] = log[k + 1] /\ 1 < k + 1
            BY <3>4, <3>6, <5>2
          <6>2. log[1].seq - log[k + 1].seq < Buffer
            BY <4>1, <6>1 DEF Near
          <6> QED
            BY <6>1, <6>2 DEF top
        <5> QED
          BY <5>1, <5>2
      <4>5. \A k, l \in 1 .. Len(log') : log'[k].seq = log'[l].seq => k = l
        BY DEF LoggedOnce
      <4> DEFINE seqs == [k \in 1 .. Len(log') |-> log'[k].seq]
      <4>6. /\ \A k \in 1 .. Buffer : seqs[k] \in Nat /\ seqs[k] < top /\ top - seqs[k] < Buffer
            /\ \A k, l \in 1 .. Buffer : seqs[k] = seqs[l] => k = l
        BY <3>3, <3>6, <4>3, <4>4, <4>5
      <4> HIDE DEF seqs
      <4> QED
        BY <1>b, <4>1, <4>6, TooMany
    <3> QED
      BY <3>4, <3>5, <3>6
  <2> QED
    BY <1>1, <2>4, <2>5 DEF Awaited
<1>2. ASSUME UNCHANGED <<log, floor>>, NEW q \in Producers, Stamped(q), hand'[q] = hand[q] PROVE Awaited(q)'
  BY <1>a, <1>2 DEF Awaited
<1>3. ASSUME NEW p \in Producers, Stamp(p) PROVE \A q \in Producers : Stamped(q)' => Awaited(q)'
  <2>1. /\ UNCHANGED <<log, floor>> /\ hand'[p].seq = seq + 1
        /\ \A q \in Producers : q # p => hand'[q] = hand[q]
    BY <1>3, StampIs DEF history
  <2>2. Awaited(p)'
    BY <1>b, <1>c, <1>d, <2>1 DEF Awaited
  <2>3. ASSUME NEW q \in Producers, q # p, Stamped(q)' PROVE Awaited(q)'
    BY <1>2, <2>1, <2>3 DEF Stamped
  <2> QED
    BY <2>2, <2>3
<1>4. ASSUME NEW p \in Producers, StampFails(p) \/ Push(p) \/ PushFails(p) \/ Send(p)
      PROVE \A q \in Producers : Stamped(q)' => Awaited(q)'
  <2>1. ~Stamped(p)' /\ \A q \in Producers : q # p => hand'[q] = hand[q]
    <3>1. CASE Send(p)
      <4>1. hand'[p] = NoEvent /\ \A q \in Producers : q # p => hand'[q] = hand[q]
        BY <3>1, SendIs
      <4> QED
        BY <4>1 DEF Stamped, NoEvent
    <3> QED
      BY <1>4, <3>1, StampFailsIs, PushIs, PushFailsIs DEF Stamped
  <2>2. \A q \in Producers : Stamped(q)' => q # p /\ Stamped(q) /\ hand'[q] = hand[q]
    BY <2>1 DEF Stamped
  <2>3. CASE UNCHANGED <<log, floor>>
    BY <1>2, <2>2, <2>3
  <2>4. CASE /\ hand[p].stage = "stamped" /\ Pipeline(p)
             /\ hand[p].seq # 0 /\ Held(p) /\ Carried(p).seq = hand[p].seq
    BY <1>1, <2>2, <2>4
  <2>5. \/ UNCHANGED <<log, floor>>
        \/ /\ hand[p].stage = "stamped" /\ Pipeline(p)
           /\ hand[p].seq # 0 /\ Held(p) /\ Carried(p).seq = hand[p].seq
    BY <1>4, PipelineOf
  <2> QED
    BY <2>3, <2>4, <2>5
<1>5. View => UNCHANGED <<log, floor, hand>>
  BY DEF View, Connect, Replay, ThreadEvent, Drop, Receive, Leave, redis, feed, history
<1>6. Tick => \A q \in Producers : ~Stamped(q)'
  BY TickIs DEF feed, NoEvent, Stamped
<1>7. View => \A q \in Producers : Stamped(q)' => Awaited(q)'
  BY <1>2, <1>5 DEF Stamped
<1> QED
  BY <1>a, <1>3, <1>4, <1>6, <1>7 DEF Next, Produce

\* What is pending after a step was pending, is in the log or was in a producer's
\* hand.
LEMMA PendingGrows ==
  ASSUME TypeOK, Connection, Next
  PROVE  /\ \A f \in Range(Pending') :
               \/ f \in Range(Pending)
               \/ f \in Range(log) /\ Replay
               \/ \E p \in Producers : Send(p) /\ f = Carried(p) /\ hand[p].stage = "ready" /\ f.seq = hand[p].seq
         /\ Tick => Range(Pending') = {} /\ \A p \in Producers : ~Held(p)'
<1> USE DEF redis, feed, server, browser, history
<1>1. ASSUME NEW p \in Producers, Send(p)
      PROVE  \A f \in Range(Pending') :
               f \in Range(Pending) \/ (f = Carried(p) /\ hand[p].stage = "ready" /\ f.seq = hand[p].seq)
  <2> DEFINE new == Carried(p)
  <2> HIDE DEF new
  <2>1. /\ hand[p].stage = "ready" /\ new.seq = hand[p].seq
        /\ (Pending' = Append(Pending, new) \/ Pending' = Pending)
    BY <1>1, SendIs DEF new
  <2>2. Range(Pending') \subseteq Range(Pending) \cup {new}
    BY <2>1, PendingIs, RangeOfAppend
  <2> QED
    BY <2>1, <2>2 DEF new
<1>2. ASSUME NEW p \in Producers, Stamp(p) \/ StampFails(p) \/ Push(p) \/ PushFails(p) PROVE Pending' = Pending
  BY <1>2, StampIs, StampFailsIs, PushIs, PushFailsIs DEF Pending
<1>3. ASSUME Replay PROVE Range(Pending') \subseteq Range(log) \cup Range(Pending)
  <2>1. /\ chan' = chan /\ wire' \in Seq(Frame) /\ Len(wire') \in Nat
        /\ \E at \in [1 .. Len(wire') -> 1 .. Len(log)] : \A j \in 1 .. Len(wire') : wire'[j] = log[at[j]]
    BY <1>3, ReplayIs
  <2>2. Range(Pending') = Range(wire') \cup Range(chan)
    <3>1. wire' \in Seq(Frame) /\ chan' \in Seq(Frame)
      BY <2>1 DEF TypeOK
    <3>2. Range(Pending') = Range(wire') \cup Range(chan')
      BY <3>1, FramesJoined DEF Pending
    <3> QED
      BY <2>1, <3>2
  <2>3. \A j \in 1 .. Len(wire') : wire'[j] \in Range(log)
    BY <2>1, FramesOf DEF TypeOK
  <2>4. Range(wire') \subseteq Range(log)
    BY <2>1, <2>3, FramesOf
  <2>5. Range(chan) \subseteq Range(Pending)
    BY PendingIs
  <2> QED
    BY <1>3, <2>2, <2>4, <2>5
<1>4. Connect => Pending' = Pending
  BY DEF Connect, Pending
<1>5. Drop \/ Leave => Range(Pending') = {}
  BY DEF Drop, Leave, Pending, Range
<1>6. Tick => Range(Pending') = {} /\ \A p \in Producers : ~Held(p)'
  <2> SUFFICES ASSUME Tick PROVE Range(Pending') = {} /\ \A p \in Producers : ~Held(p)'
    OBVIOUS
  <2>1. /\ chan' = <<>> /\ wire' = <<>> /\ \A q \in Producers : hand'[q] = NoEvent
    BY TickIs
  <2> QED
    BY <2>1 DEF Pending, Range, Held, NoEvent
<1>7. ThreadEvent => Pending' = Pending
  BY ThreadEventIs
<1>8. Receive => Range(Pending') \subseteq Range(Pending)
  BY ReceiveIs
<1> QED
  BY <1>1, <1>2, <1>3, <1>4, <1>5, <1>6, <1>7, <1>8 DEF Next, Produce, View

\* A producer's payload becomes ready with its seq by a push, and by nothing else;
\* it gets its seq by a stamp.
LEMMA HandChanges ==
  ASSUME TypeOK, Connection, Next, NEW q \in Producers, Held(q)', hand'[q] # hand[q]
  PROVE  /\ hand'[q].stage = "ready" => Push(q)
         /\ hand'[q].stage = "stamped" => Stamp(q)
<1> USE DEF redis, feed, server, browser, history
<1>1. CASE View
  BY <1>1 DEF View, Connect, Replay, ThreadEvent, Drop, Receive, Leave
<1>2. CASE Tick
  BY <1>2, PendingGrows
<1>3. ASSUME NEW p \in Producers, Produce(p)
      PROVE /\ hand'[q].stage = "ready" => Push(q)
            /\ hand'[q].stage = "stamped" => Stamp(q)
  <2>1. CASE Stamp(p)
    <3>1. q = p /\ hand'[p].stage = "stamped"
      BY <2>1, StampIs
    <3> QED
      BY <2>1, <3>1
  <2>2. CASE StampFails(p)
    BY <2>2, StampFailsIs DEF Held
  <2>3. CASE Push(p)
    <3>1. q = p /\ hand'[p].stage = "ready"
      BY <2>3, PushIs
    <3> QED
      BY <2>3, <3>1
  <2>4. CASE PushFails(p)
    BY <2>4, PushFailsIs DEF Held
  <2>5. CASE Send(p)
    <3>1. hand'[p] = NoEvent /\ \A r \in Producers : r # p => hand'[r] = hand[r]
      BY <2>5, SendIs
    <3> QED
      BY <3>1 DEF Held, NoEvent
  <2> QED
    BY <1>3, <2>1, <2>2, <2>3, <2>4, <2>5 DEF Produce
<1> QED
  BY <1>1, <1>2, <1>3 DEF Next

\* What is broadcast has been pushed before.
LEMMA LoggedFirstKeeps ==
  ASSUME TypeOK, Connection, LoggedFirst, Next
  PROVE  LoggedFirst'
<1> USE DEF redis, feed, server, browser, history
<1> DEFINE In(f) == f \in Range(log) \/ f.seq <= floor
<1> DEFINE NowIn(f) == f \in Range(log') \/ f.seq <= floor'
<1>a. /\ \A f \in Range(Pending) : f.seq # 0 => In(f)
      /\ \A q \in Producers : Held(q) /\ hand[q].stage = "ready" => In(Carried(q))
  BY CarriedIsFrame DEF LoggedFirst, Held
<1>b. floor \in Nat /\ floor' \in Nat /\ (\A f \in Range(log) : f.seq \in Nat)
      /\ \A f \in Range(Pending) : f.seq \in Nat
  BY TypeKeeps, FramesOf, PendingIs DEF TypeOK
<1>c. ~Tick => \A f : f.seq \in Nat /\ In(f) => NowIn(f)
  BY <1>b, ReachKeeps
<1> HIDE DEF In, NowIn
<1>1. \A f \in Range(Pending') : f.seq # 0 => NowIn(f)
  <2>1. CASE Tick
    BY <2>1, PendingGrows
  <2>2. CASE ~Tick
    <3>1. \A f \in Range(Pending) : f.seq # 0 => NowIn(f)
      BY <1>a, <1>b, <1>c, <2>2
    <3>2. \A f \in Range(log) : NowIn(f)
      BY <1>b, <1>c, <2>2 DEF In, NowIn
    <3>3. ASSUME NEW p \in Producers, hand[p].stage = "ready", hand[p].seq # 0 PROVE NowIn(Carried(p))
      <4>1. In(Carried(p)) /\ Carried(p).seq \in Nat
        BY <1>a, <3>3, CarriedIsFrame DEF Held
      <4> QED
        BY <1>c, <2>2, <4>1
    <3>4. ASSUME NEW f \in Range(Pending'), f.seq # 0 PROVE NowIn(f)
      <4>1. CASE f \in Range(Pending) \/ f \in Range(log)
        BY <3>1, <3>2, <3>4, <4>1
      <4>2. ASSUME NEW p \in Producers, f = Carried(p), hand[p].stage = "ready", f.seq = hand[p].seq PROVE NowIn(f)
        BY <3>3, <3>4, <4>2
      <4> QED
        BY <4>1, <4>2, PendingGrows
    <3> QED
      BY <3>4
  <2> QED
    BY <2>1, <2>2
<1>2. ASSUME NEW q \in Producers, Held(q)', hand'[q].stage = "ready" PROVE NowIn(Carried(q)')
  <2>1. ~Tick
    BY <1>2, PendingGrows
  <2>2. CASE hand'[q] = hand[q]
    <3>1. Held(q) /\ hand[q].stage = "ready" /\ Carried(q)' = Carried(q)
      BY <1>2, <2>2 DEF Held, Carried, Current
    <3>2. In(Carried(q)) /\ Carried(q).seq \in Nat
      BY <1>a, <3>1, CarriedIsFrame DEF Held
    <3>3. \A f : f.seq \in Nat /\ In(f) => f \in Range(log') \/ f.seq <= floor'
      BY <1>c, <2>1 DEF In, NowIn
    <3>4. Carried(q) \in Range(log') \/ Carried(q).seq <= floor'
      BY <3>2, <3>3
    <3> QED
      BY <3>1, <3>4 DEF In, NowIn
  <2>3. CASE hand'[q] # hand[q]
    <3>1. Push(q)
      BY <1>2, <2>3, HandChanges
    <3>2. Carried(q)' = Carried(q) /\ Pipeline(q) /\ hand[q].stage = "stamped"
      BY <3>1, PushIs DEF Carried, Current
    <3>3. Carried(q) \in Range(log')
      BY <3>2, PipelineKeeps
    <3> QED
      BY <3>2, <3>3 DEF In, NowIn
  <2> QED
    BY <2>2, <2>3
<1>3. ASSUME NEW q \in Producers, Held(q)', hand'[q].stage = "ready"
      PROVE  Carried(q)' \in Range(log') \/ hand'[q].seq <= floor'
  BY <1>2, <1>3 DEF NowIn, Carried
<1> QED
  BY <1>1, <1>3 DEF NowIn, LoggedFirst

\* An entry behind a later one is blamed for it.
LEMMA LateIsBlamedKeeps ==
  ASSUME TypeOK, Connection, LateIsBlamed, Next
  PROVE  LateIsBlamed'
<1> DEFINE BlamedNext(e) == \E why \in Obstacles : e \in blame'[why]
<1>a. \A e : Blamed(e) => BlamedNext(e)
  BY SettledKeeps DEF Blamed
<1>1. CASE UNCHANGED <<log, floor>>
  BY <1>1, <1>a DEF LateIsBlamed, Blamed
<1>2. CASE log' = <<>>
  BY <1>2 DEF LateIsBlamed
<1>3. ASSUME NEW p \in Producers, hand[p].stage = "stamped", Pipeline(p), Push(p) \/ PushFails(p)
      PROVE  LateIsBlamed'
  <2> DEFINE new == Carried(p)
  <2> DEFINE e == Current(p)
  <2>a. new.seq = hand[p].seq /\ new.id = e
    BY DEF Carried
  <2>b. "overtaken" \in Obstacles /\ "unstamped" \in Obstacles
    BY DEF Obstacles
  <2> HIDE DEF new, e, BlamedNext
  <2>1. PICK d \in {0, 1} :
            /\ \A i \in 1 .. Len(log') : i = Len(log') \/ (i + d \in 1 .. Len(log) /\ log'[i] = log[i + d])
            /\ log'[Len(log')] = new /\ Len(log') \in 1 .. Buffer
    BY <1>3, PipelineAt DEF new
  <2>2. ASSUME NEW f \in Range(log), f.seq > hand[p].seq PROVE BlamedNext(e)
    <3>1. e \in blame'["overtaken"] \/ e \in blame'["unstamped"]
      BY <1>3, <2>2, PushIs, PushFailsIs DEF e
    <3> QED
      BY <2>b, <3>1 DEF BlamedNext
  <2>3. ASSUME NEW i \in 1 .. Len(log'), NEW j \in 1 .. Len(log'), i < j, log'[i].seq > log'[j].seq
        PROVE  BlamedNext(log'[j].id)
    <3>1. i + d \in 1 .. Len(log) /\ log'[i] = log[i + d]
      BY <2>1, <2>3
    <3>2. CASE j = Len(log')
      <4>1. log[i + d] \in Range(log) /\ log[i + d].seq > hand[p].seq /\ log'[j].id = e
        BY <2>1, <2>3, <2>a, <3>1, <3>2, FramesOf DEF TypeOK
      <4>2. BlamedNext(e)
        BY <2>2, <4>1
      <4> QED
        BY <4>1, <4>2
    <3>3. CASE j # Len(log')
      <4>1. j + d \in 1 .. Len(log) /\ log'[j] = log[j + d] /\ i + d < j + d
        BY <2>1, <2>3, <3>3
      <4>2. Blamed(log[j + d].id)
        BY <2>3, <3>1, <4>1 DEF LateIsBlamed
      <4> QED
        BY <1>a, <4>1, <4>2
    <3> QED
      BY <3>2, <3>3
  <2>4. LateIsBlamed' <=> \A i, j \in 1 .. Len(log') : i < j /\ log'[i].seq > log'[j].seq => BlamedNext(log'[j].id)
    BY DEF LateIsBlamed, Blamed, BlamedNext
  <2> QED
    BY <2>3, <2>4
<1> QED
  BY <1>1, <1>2, <1>3, LogChanges

\* Only a broadcast moves the mark of what has been broadcast.
LEMMA SentChanges ==
  ASSUME TypeOK, Connection, Next, ~Tick
  PROVE  UNCHANGED sent \/ \E p \in Producers : Send(p)
<1>1. ASSUME NEW p \in Producers, Stamp(p) \/ StampFails(p) \/ Push(p) \/ PushFails(p) PROVE UNCHANGED sent
  BY <1>1, StampIs, StampFailsIs, PushIs, PushFailsIs DEF history
<1>2. View => UNCHANGED sent
  BY DEF View, Connect, Replay, ThreadEvent, Drop, Receive, Leave, history
<1> QED
  BY <1>1, <1>2 DEF Next, Produce

\* The cursor moves to a frame that the page accepts, or is forgotten.
LEMMA CursorChanges ==
  ASSUME TypeOK, Connection, Next, ~Tick
  PROVE  \/ UNCHANGED <<cursor, stale>>
         \/ Receive /\ cursor' = Head(wire).seq /\ cursor' # 0 /\ ~stale'
         \/ Leave /\ cursor' = 0
<1> USE DEF redis, feed, server, browser, history
<1>1. ASSUME NEW p \in Producers, Produce(p) PROVE UNCHANGED <<cursor, stale>>
  BY <1>1, StampIs, StampFailsIs, PushIs, PushFailsIs DEF Produce, Send
<1>2. Connect \/ Replay \/ ThreadEvent \/ Drop => UNCHANGED <<cursor, stale>>
  BY DEF Connect, Replay, ThreadEvent, Drop
<1>3. Receive => UNCHANGED <<cursor, stale>> \/ (cursor' = Head(wire).seq /\ cursor' # 0 /\ ~stale')
  BY DEF Receive, Advance
<1>4. Leave => cursor' = 0
  BY DEF Leave
<1> QED
  BY <1>1, <1>2, <1>3, <1>4 DEF Next, View

\* The log stays what has been pushed, less what was trimmed.
LEMMA LoggedKeeps ==
  ASSUME TypeOK, Connection, Numbering, Near, Logged, Next
  PROVE  Logged'
<1> USE DEF redis, feed, server, browser, history
<1>1. LoggedOnce' /\ LoggedFirst' /\ LateIsBlamed'
  BY LoggedOnceKeeps, LoggedFirstKeeps, LateIsBlamedKeeps DEF Logged
<1>2. NotYetLogged'
  BY <1>1, NotYetLoggedKeeps DEF Logged
<1>a. /\ Reached(sent) /\ (~stale => Reached(cursor)) /\ sent \in Nat /\ cursor \in Nat /\ floor \in Nat
      /\ \A f \in Range(log) : f.seq \in Nat
  BY FramesOf DEF Logged, TypeOK
<1>3. CASE Tick
  <2>1. CASE sent' = 0 /\ floor' = 0 /\ stale' = (cursor # 0)
    <3>1. ~stale' => cursor' = 0
      <4>1. cursor' = cursor
        BY <1>3, TickIs
      <4>2. cursor # 0 => stale'
        BY <2>1
      <4> QED
        BY <4>1, <4>2
    <3> QED
      BY <1>1, <1>2, <2>1, <3>1 DEF Logged, Reached
  <2>2. CASE UNCHANGED <<log, floor, sent, stale>>
    <3>1. cursor' = cursor
      BY <1>3, TickIs
    <3> QED
      BY <1>1, <1>2, <1>a, <2>2, <3>1 DEF Logged, Reached
  <2> QED
    BY <1>3, <2>1, <2>2, TickIs
<1>4. CASE ~Tick
  <2> DEFINE Now(s) == s <= floor' \/ \E f \in Range(log') : s <= f.seq
  <2>a. \A s \in Nat : Reached(s) => Now(s)
    BY <1>4, ReachKeeps DEF Reached
  <2>b. \A f : f.seq \in Nat /\ (f \in Range(log) \/ f.seq <= floor) => Reached(f.seq)
    BY <1>a DEF Reached
  <2> HIDE DEF Now
  <2>1. Now(sent')
    <3>1. ASSUME NEW p \in Producers, Send(p) PROVE Now(sent')
      <4> DEFINE new == Carried(p)
      <4> HIDE DEF new
      <4>1. sent' \in {sent, new.seq} /\ new.seq \in Nat /\ hand[p].stage = "ready" /\ new.seq = hand[p].seq
        <5>1. /\ hand[p].stage = "ready" /\ new.seq = hand[p].seq /\ sent' \in {sent, new.seq}
          BY <3>1, SendIs DEF new
        <5>2. hand[p].seq \in Nat
          BY <5>1, CarriedIsFrame
        <5> QED
          BY <5>1, <5>2
      <4>2. Reached(new.seq)
        <5>1. CASE new.seq = 0
          BY <1>a, <5>1 DEF Reached
        <5>2. CASE new.seq # 0
          <6>1. new \in Range(log) \/ new.seq <= floor
            BY <4>1, <5>2 DEF Logged, LoggedFirst, Held, new
          <6> QED
            BY <2>b, <4>1, <6>1
        <5> QED
          BY <5>1, <5>2
      <4> QED
        BY <1>a, <2>a, <4>1, <4>2
    <3>2. CASE UNCHANGED sent
      BY <1>a, <2>a, <3>2
    <3> QED
      BY <1>4, <3>1, <3>2, SentChanges
  <2>2. ~stale' => Now(cursor')
    <3>1. CASE UNCHANGED <<cursor, stale>>
      BY <1>a, <2>a, <3>1
    <3>2. CASE cursor' = 0
      <4>1. Reached(0)
        BY <1>a DEF Reached
      <4> QED
        BY <2>a, <3>2, <4>1
    <3>3. CASE Receive /\ cursor' = Head(wire).seq /\ cursor' # 0
      <4> DEFINE f == Head(wire)
      <4> HIDE DEF f
      <4>1. f \in Range(Pending) /\ f.seq \in Nat /\ cursor' = f.seq /\ f.seq # 0
        BY <3>3, ReceiveIs DEF f
      <4>2. Reached(f.seq)
        BY <2>b, <4>1 DEF Logged, LoggedFirst
      <4> QED
        BY <2>a, <4>1, <4>2
    <3> QED
      BY <1>4, <3>1, <3>2, <3>3, CursorChanges
  <2> QED
    BY <1>1, <1>2, <2>1, <2>2 DEF Logged, Reached, Now
<1> QED
  BY <1>3, <1>4

-----------------------------------------------------------------------------
(* Overtaking.                                                             *)

\* Settled after a step.
SettledNext(e) == e \in Range(got') \/ \E why \in Obstacles : e \in blame'[why]

\* What Overtaking says after a step.
LEMMA OvertakingNext ==
  ASSUME \A i, j \in 1 .. Len(Pending') : i < j /\ Pending'[j].seq # 0 /\ Pending'[i].seq > Pending'[j].seq =>
            SettledNext(Pending'[j].id) \/ \E k \in 1 .. i - 1 : Pending'[k] = Pending'[j],
         ~stale' => \A f \in Range(Pending') : f.seq # 0 /\ f.seq <= cursor' => SettledNext(f.id),
         \A p \in Producers :
            Held(p)' /\ hand'[p].stage = "ready" /\ ~(sent' > hand'[p].seq) /\ ~SettledNext(Current(p)') =>
            /\ stale' \/ cursor' < hand'[p].seq
            /\ \A i \in 1 .. Len(Pending') : Pending'[i].seq > hand'[p].seq =>
                  \E k \in 1 .. i - 1 : Pending'[k] = Carried(p)'
  PROVE  Overtaking'
BY DEF Overtaking, PendingInOrder, CursorBehind, ReadyInOrder, Settled, Blamed, SettledNext

\* Steps that leave what is pending, the cursor and the mark alone.
LEMMA QuietOvertaking ==
  ASSUME TypeOK, Connection, Overtaking, UNCHANGED <<Pending, cursor, stale, sent>>,
         \A e : Settled(e) => SettledNext(e),
         \A p \in Producers : Held(p)' /\ hand'[p].stage = "ready" => hand'[p] = hand[p]
  PROVE  Overtaking'
<1>1. \A p \in Producers : Held(p)' /\ hand'[p].stage = "ready" =>
          Held(p) /\ hand'[p] = hand[p] /\ Current(p)' = Current(p) /\ Carried(p)' = Carried(p)
  BY DEF Held, Current, Carried
<1> HIDE DEF SettledNext
<1>2. \A i, j \in 1 .. Len(Pending') : i < j /\ Pending'[j].seq # 0 /\ Pending'[i].seq > Pending'[j].seq =>
            SettledNext(Pending'[j].id) \/ \E k \in 1 .. i - 1 : Pending'[k] = Pending'[j]
  BY DEF Overtaking, PendingInOrder
<1>3. ~stale' => \A f \in Range(Pending') : f.seq # 0 /\ f.seq <= cursor' => SettledNext(f.id)
  BY DEF Overtaking, CursorBehind
<1>4. ASSUME NEW p \in Producers, Held(p)', hand'[p].stage = "ready", ~(sent' > hand'[p].seq),
             ~SettledNext(Current(p)')
      PROVE  /\ stale' \/ cursor' < hand'[p].seq
             /\ \A i \in 1 .. Len(Pending') : Pending'[i].seq > hand'[p].seq =>
                   \E k \in 1 .. i - 1 : Pending'[k] = Carried(p)'
  <2>1. /\ Held(p) /\ hand[p].stage = "ready" /\ hand'[p] = hand[p] /\ Carried(p)' = Carried(p)
        /\ ~(sent > hand[p].seq) /\ ~Settled(Current(p))
    BY <1>1, <1>4
  <2> QED
    BY <2>1 DEF Overtaking, ReadyInOrder
<1> QED
  BY <1>2, <1>3, <1>4, OvertakingNext

\* With nothing pending, and the cursor forgotten or what it was.
LEMMA EmptyOvertaking ==
  ASSUME TypeOK, Connection, Pending' = <<>>, Connection', TypeOK',
         \/ cursor' = 0
         \/ Overtaking /\ UNCHANGED <<cursor, stale, sent, hand>> /\ \A e : Settled(e) => SettledNext(e)
         \/ \A p \in Producers : ~Held(p)'
  PROVE  Overtaking'
<1>1. Range(Pending') = {} /\ Len(Pending') = 0
  BY DEF Range
<1>2. ASSUME NEW p \in Producers, Held(p)', hand'[p].stage = "ready", ~(sent' > hand'[p].seq),
             ~SettledNext(Current(p)')
      PROVE  stale' \/ cursor' < hand'[p].seq
  <2>1. hand'[p].seq \in Nat /\ hand'[p].seq # 0
    BY <1>2 DEF TypeOK, Held
  <2>2. CASE Overtaking /\ UNCHANGED <<cursor, stale, sent, hand>> /\ \A e : Settled(e) => SettledNext(e)
    <3>1. Held(p) /\ hand[p].stage = "ready" /\ ~(sent > hand[p].seq) /\ ~Settled(Current(p))
      BY <1>2, <2>2 DEF Held, Current
    <3> QED
      BY <2>2, <3>1 DEF Overtaking, ReadyInOrder
  <2> QED
    BY <1>2, <2>1, <2>2
<1> QED
  BY <1>1, <1>2, OvertakingNext

\* A push blames an event that comes behind a later one.
LEMMA PushOvertaking ==
  ASSUME TypeOK, Connection, Logged, Overtaking, NEW p \in Producers, Push(p),
         \A e : Settled(e) => SettledNext(e)
  PROVE  Overtaking'
<1> USE DEF redis, feed, server, browser, history
<1> DEFINE h == hand[p].seq
<1> DEFINE new == Carried(p)
<1>1. /\ hand[p].stage = "stamped" /\ hand'[p].seq = h /\ Current(p)' = Current(p)
      /\ UNCHANGED <<cursor, stale, sent, wire, chan>>
      /\ \A q \in Producers : q # p => hand'[q] = hand[q]
      /\ \A f \in Range(log) : f.seq > h => Current(p) \in blame'["overtaken"]
  BY PushIs DEF Current
<1>2. Pending' = Pending
  BY <1>1 DEF Pending
<1>a. /\ h \in Nat /\ floor \in Nat /\ cursor \in Nat /\ (\A f \in Range(log) : f.seq \in Nat)
      /\ \A i \in 1 .. Len(Pending) : Pending[i] \in Range(Pending) /\ Pending[i].seq \in Nat
  BY <1>1, CarriedIsFrame, PendingIs, FramesOf DEF TypeOK
<1>3. ASSUME ~SettledNext(Current(p))
      PROVE  floor < h /\ (\A f \in Range(log) : f.seq < h)
  <2>1. \A f \in Range(log) : ~(f.seq > h)
    BY <1>1, <1>3 DEF SettledNext, Obstacles
  <2>2. /\ floor # h /\ \A f \in Range(log) : f.seq # h
        /\ floor > h => \E f \in Range(log) : f.seq > h
    BY <1>1 DEF Logged, NotYetLogged
  <2> QED
    BY <1>a, <2>1, <2>2
<1>4. ~SettledNext(Current(p)) => (stale' \/ cursor' < h) /\ \A i \in 1 .. Len(Pending') : ~(Pending'[i].seq > h)
  <2> SUFFICES ASSUME ~SettledNext(Current(p))
               PROVE  (stale' \/ cursor' < h) /\ \A i \in 1 .. Len(Pending') : ~(Pending'[i].seq > h)
    OBVIOUS
  <2>1. floor < h /\ (\A f \in Range(log) : f.seq < h)
    BY <1>3
  <2>2. ~stale => cursor < h
    BY <1>a, <2>1 DEF Logged, Reached
  <2>3. \A i \in 1 .. Len(Pending) : ~(Pending[i].seq > h)
    BY <1>a, <2>1 DEF Logged, LoggedFirst
  <2> QED
    BY <1>1, <1>2, <2>2, <2>3
<1>5. \A i, j \in 1 .. Len(Pending') : i < j /\ Pending'[j].seq # 0 /\ Pending'[i].seq > Pending'[j].seq =>
            SettledNext(Pending'[j].id) \/ \E k \in 1 .. i - 1 : Pending'[k] = Pending'[j]
  BY <1>2 DEF Overtaking, PendingInOrder
<1>6. ~stale' => \A f \in Range(Pending') : f.seq # 0 /\ f.seq <= cursor' => SettledNext(f.id)
  BY <1>1, <1>2 DEF Overtaking, CursorBehind
<1>7. ASSUME NEW q \in Producers, Held(q)', hand'[q].stage = "ready", ~(sent' > hand'[q].seq),
             ~SettledNext(Current(q)')
      PROVE  /\ stale' \/ cursor' < hand'[q].seq
             /\ \A i \in 1 .. Len(Pending') : Pending'[i].seq > hand'[q].seq =>
                   \E k \in 1 .. i - 1 : Pending'[k] = Carried(q)'
  <2>1. CASE q = p
    BY <1>1, <1>4, <1>7, <2>1
  <2>2. CASE q # p
    <3>1. /\ Held(q) /\ hand[q].stage = "ready" /\ hand'[q] = hand[q] /\ Carried(q)' = Carried(q)
          /\ Current(q)' = Current(q) /\ ~(sent > hand[q].seq)
      BY <1>1, <1>7, <2>2 DEF Held, Carried, Current
    <3>2. ~Settled(Current(q))
      BY <1>7, <3>1
    <3> QED
      BY <1>1, <1>2, <3>1, <3>2 DEF Overtaking, ReadyInOrder
  <2> QED
    BY <2>1, <2>2
<1> QED
  BY <1>5, <1>6, <1>7, OvertakingNext

\* A broadcast blames an event that comes behind a later one.
LEMMA SendOvertaking ==
  ASSUME TypeOK, Connection, Overtaking, NEW p \in Producers, Send(p),
         \A e : Settled(e) => SettledNext(e)
  PROVE  Overtaking'
<1> USE DEF redis, feed, server, browser, history
<1> DEFINE f == Carried(p)
<1> DEFINE e == Current(p)
<1>a. f.id = e /\ f = Carried(p) /\ e = Current(p)
  BY DEF Carried
<1> HIDE DEF f, e
<1>1. /\ hand[p].stage = "ready" /\ f.seq = hand[p].seq /\ hand'[p] = NoEvent
      /\ \A q \in Producers : q # p => hand'[q] = hand[q]
      /\ \/ Pending' = Append(Pending, f)
         \/ Pending' = Pending
      /\ f.seq # 0 /\ f.seq < sent => e \in blame'["overtaken"]
      /\ sent' \in Nat /\ sent <= sent' /\ f.seq <= sent'
  BY <1>a, SendIs
<1>2. UNCHANGED <<cursor, stale>>
  BY DEF Send
<1>b. f.seq \in Nat /\ sent \in Nat /\ cursor \in Nat /\ \A q \in Producers : hand[q].seq \in Nat
  BY <1>1, CarriedIsFrame DEF TypeOK
<1>c. Pending \in Seq(Frame) /\ Len(Pending) \in Nat
  BY PendingIs, FramesOf
<1>3. f.seq # 0 =>
        \/ SettledNext(e)
        \/ /\ stale \/ cursor < f.seq
           /\ \A i \in 1 .. Len(Pending) : Pending[i].seq > f.seq => \E k \in 1 .. i - 1 : Pending[k] = f
  <2>1. CASE f.seq < sent
    BY <1>1, <2>1 DEF SettledNext, Obstacles
  <2>2. CASE ~(f.seq < sent)
    <3>1. f.seq # 0 => Held(p) /\ ~(sent > hand[p].seq)
      BY <1>1, <1>b, <2>2 DEF Held
    <3> HIDE DEF SettledNext
    <3> QED
      BY <1>a, <1>1, <3>1 DEF Overtaking, ReadyInOrder
  <2> QED
    BY <2>1, <2>2
<1> HIDE DEF SettledNext
<1>4. \/ Pending' = Pending
      \/ /\ Len(Pending') = Len(Pending) + 1 /\ Pending'[Len(Pending) + 1] = f
         /\ \A i \in 1 .. Len(Pending) : Pending'[i] = Pending[i]
         /\ Range(Pending') = Range(Pending) \cup {f}
  <2>1. CASE Pending' = Append(Pending, f)
    BY <1>c, <2>1, RangeOfAppend
  <2> QED
    BY <1>1, <2>1
<1>d. \A i \in 1 .. Len(Pending') :
         \/ i \in 1 .. Len(Pending) /\ Pending'[i] = Pending[i]
         \/ i = Len(Pending) + 1 /\ Pending'[i] = f
  <2>1. CASE Pending' = Pending
    BY <2>1
  <2>2. CASE Len(Pending') = Len(Pending) + 1 /\ Pending'[Len(Pending) + 1] = f /\ \A i \in 1 .. Len(Pending) : Pending'[i] = Pending[i]
    BY <1>c, <2>2
  <2> QED
    BY <1>4, <2>1, <2>2
<1>e. \A i \in 1 .. Len(Pending) : \A k \in 1 .. i - 1 : k \in 1 .. Len(Pending) /\ Pending'[k] = Pending[k]
  <2>1. \A i \in 1 .. Len(Pending) : \A k \in 1 .. i - 1 : k \in 1 .. Len(Pending)
    BY <1>c
  <2> QED
    BY <1>4, <2>1
<1>5. ASSUME NEW i \in 1 .. Len(Pending'), NEW j \in 1 .. Len(Pending'), i < j,
             Pending'[j].seq # 0, Pending'[i].seq > Pending'[j].seq, ~SettledNext(Pending'[j].id)
      PROVE  \E k \in 1 .. i - 1 : Pending'[k] = Pending'[j]
  <2>1. i \in 1 .. Len(Pending) /\ Pending'[i] = Pending[i]
    <3>1. CASE i = Len(Pending) + 1
      <4>1. j \in 1 .. Len(Pending) \/ j = Len(Pending) + 1
        BY <1>d
      <4> QED
        BY <1>c, <1>5, <3>1, <4>1
    <3> QED
      BY <1>d, <3>1
  <2>2. CASE j \in 1 .. Len(Pending) /\ Pending'[j] = Pending[j]
    <3>1. PICK k \in 1 .. i - 1 : Pending[k] = Pending[j]
      BY <1>5, <2>1, <2>2 DEF Overtaking, PendingInOrder
    <3> QED
      BY <1>e, <2>1, <2>2, <3>1
  <2>3. CASE Pending'[j] = f
    <3>1. PICK k \in 1 .. i - 1 : Pending[k] = f
      BY <1>3, <1>5, <1>a, <2>1, <2>3
    <3> QED
      BY <1>e, <2>1, <2>3, <3>1
  <2> QED
    BY <1>d, <2>2, <2>3
<1>6. ASSUME ~stale', NEW g \in Range(Pending'), g.seq # 0, g.seq <= cursor' PROVE SettledNext(g.id)
  <2>1. CASE g \in Range(Pending)
    BY <1>2, <1>6, <2>1 DEF Overtaking, CursorBehind
  <2>2. CASE g = f
    BY <1>2, <1>3, <1>6, <1>a, <1>b, <2>2
  <2> QED
    BY <1>4, <2>1, <2>2
<1>7. ASSUME NEW q \in Producers, Held(q)', hand'[q].stage = "ready", ~(sent' > hand'[q].seq),
             ~SettledNext(Current(q)')
      PROVE  /\ stale' \/ cursor' < hand'[q].seq
             /\ \A i \in 1 .. Len(Pending') : Pending'[i].seq > hand'[q].seq =>
                   \E k \in 1 .. i - 1 : Pending'[k] = Carried(q)'
  <2>1. q # p
    BY <1>1, <1>7 DEF NoEvent
  <2>2. /\ Held(q) /\ hand[q].stage = "ready" /\ hand'[q] = hand[q] /\ Carried(q)' = Carried(q)
        /\ Current(q)' = Current(q)
    BY <1>1, <1>7, <2>1 DEF Held, Carried, Current
  <2>3. ~(sent > hand[q].seq) /\ ~(f.seq > hand[q].seq) /\ ~Settled(Current(q))
    BY <1>1, <1>7, <1>b, <2>2
  <2>4. /\ stale \/ cursor < hand[q].seq
        /\ \A i \in 1 .. Len(Pending) : Pending[i].seq > hand[q].seq => \E k \in 1 .. i - 1 : Pending[k] = Carried(q)
    BY <2>2, <2>3 DEF Overtaking, ReadyInOrder
  <2>5. ASSUME NEW i \in 1 .. Len(Pending'), Pending'[i].seq > hand'[q].seq
        PROVE  \E k \in 1 .. i - 1 : Pending'[k] = Carried(q)'
    <3>1. i \in 1 .. Len(Pending) /\ Pending'[i] = Pending[i]
      BY <1>d, <2>2, <2>3, <2>5
    <3>2. PICK k \in 1 .. i - 1 : Pending[k] = Carried(q)
      BY <2>2, <2>4, <2>5, <3>1
    <3> QED
      BY <1>e, <2>2, <3>1, <3>2
  <2> QED
    BY <1>2, <2>2, <2>4, <2>5
<1> QED
  BY <1>5, <1>6, <1>7, OvertakingNext

\* The page takes a frame: it has it then, or will never have it.
LEMMA ReceiveSettles ==
  ASSUME TypeOK, Connection, CursorBehind, Receive, NEW f, f = Head(wire),
         \A e : Settled(e) => SettledNext(e)
  PROVE  /\ SettledNext(f.id)
         /\ UNCHANGED <<cursor, stale>> \/ (cursor' = f.seq /\ f.seq # 0 /\ ~stale')
<1> USE DEF redis, feed, server, browser, history
<1>1. f \in Range(Pending) /\ f.seq \in Nat /\ f.id \in Event
  BY ReceiveIs
<1>2. CASE got' = Append(got, f.id)
  <2>1. f.id \in Range(got')
    BY <1>2, RangeOfAppend DEF TypeOK
  <2> QED
    BY <2>1 DEF SettledNext, Receive, Advance
<1>3. CASE /\ f.seq # 0 /\ ~Fresh(f.seq) /\ UNCHANGED <<browser, stale>>
           /\ Blame("misread", IF stale THEN {f.id} ELSE {})
  <2>1. CASE stale
    <3>1. "misread" \in Obstacles /\ {f.id} \in SUBSET Event
      BY <1>1 DEF Obstacles
    <3>2. Blame("misread", {f.id})
      BY <1>3, <2>1
    <3>3. f.id \in blame'["misread"]
      BY <3>1, <3>2, BlameIs
    <3> QED
      BY <1>3, <3>1, <3>3 DEF SettledNext
  <2>2. CASE ~stale
    <3>1. f.seq <= cursor /\ cursor \in Nat
      BY <1>1, <1>3 DEF Fresh, TypeOK
    <3>2. Settled(f.id)
      BY <1>1, <1>3, <2>2, <3>1 DEF CursorBehind
    <3> QED
      BY <1>3, <3>2
  <2> QED
    BY <2>1, <2>2
<1> QED
  BY <1>2, <1>3 DEF Receive, Dispatch, Advance

\* The page takes a frame, and what the frame overtook is settled.
LEMMA ReceiveOvertaking ==
  ASSUME TypeOK, Connection, Numbering, Overtaking, Receive,
         \A e : Settled(e) => SettledNext(e)
  PROVE  Overtaking'
<1> USE DEF redis, feed, server, browser, history
<1> DEFINE f == Head(wire)
<1> HIDE DEF f
<1>1. /\ f \in Range(Pending) /\ f.seq \in Nat /\ f.id \in Event /\ Pending[1] = f
      /\ Len(Pending) \in Nat \ {0} /\ Len(Pending') = Len(Pending) - 1 /\ Range(Pending) = Range(Pending') \cup {f}
      /\ \A i \in 1 .. Len(Pending) - 1 : Pending'[i] = Pending[i + 1]
      /\ UNCHANGED <<hand, sent>>
  BY ReceiveIs DEF f
<1>2. /\ SettledNext(f.id)
      /\ UNCHANGED <<cursor, stale>> \/ (cursor' = f.seq /\ f.seq # 0 /\ ~stale')
  BY ReceiveSettles DEF Overtaking, f
<1> HIDE DEF SettledNext
<1>3. \A g \in Numbered : f.seq = g.seq /\ f.seq # 0 => f.id = g.id
  <2>1. f.seq # 0 => f \in Numbered
    BY <1>1, NumberedIs
  <2> QED
    BY <2>1 DEF Numbering
<1>a. /\ \A i \in 1 .. Len(Pending') : i + 1 \in 1 .. Len(Pending) /\ Pending'[i] = Pending[i + 1] /\ 1 < i + 1
      /\ 1 \in 1 .. Len(Pending)
  BY <1>1
<1>b. \A i \in 1 .. Len(Pending') : \A k \in 1 .. (i + 1) - 1 :
        k = 1 \/ (k - 1 \in 1 .. i - 1 /\ Pending'[k - 1] = Pending[k])
  <2> TAKE i \in 1 .. Len(Pending')
  <2> TAKE k \in 1 .. (i + 1) - 1
  <2>1. CASE k # 1
    <3>1. k - 1 \in 1 .. i - 1 /\ k - 1 \in 1 .. Len(Pending') /\ (k - 1) + 1 = k
      BY <1>1, <2>1
    <3> QED
      BY <1>a, <3>1
  <2> QED
    BY <2>1
<1>c. \A g \in Range(Pending') : g \in Range(Pending) /\ g.seq \in Nat /\ (g.seq # 0 => g \in Numbered)
                                   /\ \E i \in 1 .. Len(Pending') : g = Pending[i + 1]
  <2>1. Pending \in Seq(Frame)
    BY PendingIs
  <2>2. \A g \in Range(Pending) : g.seq \in Nat /\ (g.seq # 0 => g \in Numbered)
    BY <2>1, FramesOf, NumberedIs
  <2>3. DOMAIN Pending' = 1 .. Len(Pending')
    BY ReceiveIs, FramesOf
  <2>4. \A g \in Range(Pending') : \E i \in 1 .. Len(Pending') : g = Pending'[i]
    BY <2>3 DEF Range
  <2> QED
    BY <1>1, <1>a, <2>2, <2>4
<1>5. ASSUME NEW i \in 1 .. Len(Pending'), NEW j \in 1 .. Len(Pending'), i < j,
             Pending'[j].seq # 0, Pending'[i].seq > Pending'[j].seq, ~SettledNext(Pending'[j].id)
      PROVE  \E k \in 1 .. i - 1 : Pending'[k] = Pending'[j]
  <2>1. i + 1 < j + 1 /\ Pending[j + 1].seq # 0 /\ Pending[i + 1].seq > Pending[j + 1].seq
        /\ ~Settled(Pending[j + 1].id)
    BY <1>5, <1>a
  <2>2. PICK k \in 1 .. (i + 1) - 1 : Pending[k] = Pending[j + 1]
    BY <1>a, <2>1 DEF Overtaking, PendingInOrder
  <2>3. k # 1
    BY <1>1, <1>2, <1>5, <1>a, <2>2
  <2> QED
    BY <1>a, <1>b, <2>2, <2>3
<1>6. ASSUME ~stale', NEW g \in Range(Pending'), g.seq # 0, g.seq <= cursor' PROVE SettledNext(g.id)
  <2>1. CASE UNCHANGED <<cursor, stale>>
    BY <1>6, <1>c, <2>1 DEF Overtaking, CursorBehind
  <2>2. CASE cursor' = f.seq /\ f.seq # 0
    <3>1. CASE g.seq = f.seq
      BY <1>2, <1>3, <1>6, <1>c, <2>2, <3>1
    <3>2. CASE g.seq < f.seq
      <4>1. PICK i \in 1 .. Len(Pending') : g = Pending[i + 1]
        BY <1>c
      <4>2. Settled(g.id) \/ \E k \in 1 .. 1 - 1 : Pending[k] = g
        BY <1>1, <1>6, <1>a, <3>2, <4>1 DEF Overtaking, PendingInOrder
      <4> QED
        BY <4>2
    <3> QED
      BY <1>1, <1>6, <1>c, <2>2, <3>1, <3>2
  <2> QED
    BY <1>2, <2>1, <2>2
<1>7. ASSUME NEW q \in Producers, Held(q)', hand'[q].stage = "ready", ~(sent' > hand'[q].seq),
             ~SettledNext(Current(q)')
      PROVE  /\ stale' \/ cursor' < hand'[q].seq
             /\ \A i \in 1 .. Len(Pending') : Pending'[i].seq > hand'[q].seq =>
                   \E k \in 1 .. i - 1 : Pending'[k] = Carried(q)'
  <2>1. /\ Held(q) /\ hand[q].stage = "ready" /\ hand' = hand /\ Carried(q)' = Carried(q)
        /\ ~(sent > hand[q].seq) /\ ~Settled(Current(q)) /\ Current(q)' = Current(q)
    BY <1>1, <1>7 DEF Held, Current, Carried
  <2>2. /\ stale \/ cursor < hand[q].seq
        /\ \A i \in 1 .. Len(Pending) : Pending[i].seq > hand[q].seq => \E k \in 1 .. i - 1 : Pending[k] = Carried(q)
    BY <2>1 DEF Overtaking, ReadyInOrder
  <2>3. Carried(q) \in Numbered /\ Carried(q).seq = hand[q].seq /\ Carried(q).id = Current(q) /\ hand[q].seq \in Nat
    BY <2>1, NumberedIs, CarriedIsFrame DEF Held
  <2>4. f.id # Current(q)
    BY <1>2, <1>7, <2>1
  <2>5. cursor' = f.seq /\ f.seq # 0 => cursor' < hand'[q].seq
    <3>1. ~(f.seq > hand[q].seq)
      <4>1. \A k \in 1 .. 1 - 1 : FALSE
        OBVIOUS
      <4> QED
        BY <1>1, <1>a, <2>2, <4>1
    <3>2. f.seq # 0 => f.seq # hand[q].seq
      BY <1>3, <2>3, <2>4
    <3> QED
      BY <1>1, <2>1, <2>3, <3>1, <3>2
  <2>6. ASSUME NEW i \in 1 .. Len(Pending'), Pending'[i].seq > hand'[q].seq
        PROVE  \E k \in 1 .. i - 1 : Pending'[k] = Carried(q)'
    <3>1. PICK k \in 1 .. (i + 1) - 1 : Pending[k] = Carried(q)
      BY <1>a, <2>1, <2>2, <2>6
    <3>2. k # 1
      BY <1>1, <2>3, <2>4, <3>1
    <3> QED
      BY <1>b, <2>1, <3>1, <3>2
  <2> QED
    BY <1>2, <2>1, <2>2, <2>5, <2>6
<1> QED
  BY <1>5, <1>6, <1>7, OvertakingNext

\* A replay that reaches back to the cursor brings back, in the order of the log,
\* what the log holds above it; the queue follows.
LEMMA ReplayOvertaking ==
  ASSUME TypeOK, Connection, Logged, Overtaking, Replay, ~gap',
         \A e : Settled(e) => SettledNext(e)
  PROVE  Overtaking'
<1> USE DEF redis, feed, server, browser, history
<1> DEFINE W == Len(wire')
<1>1. /\ conn = "joined" /\ wire = <<>> /\ wire' \in Seq(Frame) /\ W \in Nat
      /\ UNCHANGED <<hand, log, floor, sent, chan, cursor, stale, blame>>
      /\ cursor = 0 => wire' = <<>>
      /\ gap' = (gap \/ OutOfReach(cursor))
  BY ReplayIs
<1>2. PICK at \in [1 .. W -> 1 .. Len(log)] :
         /\ \A j \in 1 .. W : wire'[j] = log[at[j]] /\ wire'[j].seq > cursor
         /\ \A i, j \in 1 .. W : i < j => at[i] < at[j]
         /\ cursor # 0 => \A b \in 1 .. Len(log) : log[b].seq > cursor => \E j \in 1 .. W : at[j] = b
  BY ReplayIs
<1>a. /\ cursor \in Nat /\ floor \in Nat /\ log \in Seq(Frame) /\ chan \in Seq(Frame)
      /\ \A q \in Producers : hand[q].seq \in Nat
  BY DEF TypeOK
<1>3. cursor # 0 => ~stale /\ floor <= cursor
  <2>1. ~OutOfReach(cursor)
    BY <1>1
  <2> QED
    BY <1>a, <2>1 DEF OutOfReach
<1>4. Pending = chan /\ Pending' = wire' \o chan
  <2> HIDE DEF Frame
  <2> QED
    BY <1>1, <1>a DEF Pending
<1>5. /\ Pending' \in Seq(Frame) /\ Len(Pending') = W + Len(chan) /\ Len(chan) \in Nat
      /\ \A i \in 1 .. W : Pending'[i] = wire'[i]
      /\ \A i \in 1 .. Len(chan) : Pending'[W + i] = chan[i]
      /\ \A i \in 1 .. Len(Pending') : i \in 1 .. W \/ (i - W \in 1 .. Len(chan) /\ Pending'[i] = chan[i - W])
      /\ Range(Pending') = Range(wire') \cup Range(chan)
  <2>1. wire' \in Seq(Frame) /\ chan' \in Seq(Frame) /\ Pending' = wire' \o chan'
    BY <1>1, <1>a DEF Pending
  <2>2. /\ Pending' \in Seq(Frame) /\ Len(Pending') = Len(wire') + Len(chan') /\ Len(chan') \in Nat
        /\ \A i \in 1 .. Len(wire') : Pending'[i] = wire'[i]
        /\ \A i \in 1 .. Len(chan') : Pending'[Len(wire') + i] = chan'[i]
        /\ \A i \in 1 .. Len(Pending') : i \in 1 .. Len(wire')
                    \/ (i - Len(wire') \in 1 .. Len(chan') /\ Pending'[i] = chan'[i - Len(wire')])
        /\ Range(Pending') = Range(wire') \cup Range(chan')
    <3>1. /\ Pending' \in Seq(Frame) /\ Len(Pending') = Len(wire') + Len(chan') /\ Len(chan') \in Nat
          /\ \A i \in 1 .. Len(wire') : Pending'[i] = wire'[i]
      BY <2>1, FramesJoined
    <3>2. \A i \in 1 .. Len(chan') : Pending'[Len(wire') + i] = chan'[i]
      BY <2>1, FramesJoined
    <3>3. \A i \in 1 .. Len(Pending') :
             i \in 1 .. Len(wire') \/ (i - Len(wire') \in 1 .. Len(chan') /\ Pending'[i] = chan'[i - Len(wire')])
      BY <2>1, FramesJoined
    <3>4. Range(Pending') = Range(wire') \cup Range(chan')
      BY <2>1, FramesJoined
    <3> QED
      BY <3>1, <3>2, <3>3, <3>4
  <2>3. chan' = chan
    BY <1>1
  <2> QED
    BY <2>2, <2>3
<1>b. /\ \A i \in 1 .. W : wire'[i].seq \in Nat
      /\ \A i \in 1 .. Len(log) : log[i].seq \in Nat /\ log[i] \in Range(log)
      /\ \A i \in 1 .. Len(chan) : chan[i].seq \in Nat /\ chan[i] \in Range(chan)
      /\ \A f \in Range(log) : \E b \in 1 .. Len(log) : log[b] = f
  BY <1>1, <1>a, FramesOf
<1>c. \A i \in 1 .. W : at[i] \in 1 .. Len(log) /\ cursor # 0
  <2>1. \A i \in 1 .. W : wire' # <<>>
    <3>1. wire' = <<>> => W = 0
      OBVIOUS
    <3> QED
      BY <3>1
  <2> QED
    BY <1>1, <1>2, <2>1
<1>6. \A i, j \in 1 .. W : i < j /\ wire'[i].seq > wire'[j].seq => Blamed(wire'[j].id)
  BY <1>2, <1>c DEF Logged, LateIsBlamed
<1>7. \A e : Blamed(e) => SettledNext(e)
  <2>1. \A e : Blamed(e) => Settled(e)
    BY DEF Settled
  <2> QED
    BY <2>1
<1> HIDE DEF SettledNext, W
<1>8. ASSUME NEW f, f.seq \in Nat, f.seq > cursor, f \in Range(log) \/ f.seq <= floor, cursor # 0
      PROVE  \E k \in 1 .. W : wire'[k] = f
  <2>1. f \in Range(log)
    BY <1>3, <1>8, <1>a
  <2>2. PICK b \in 1 .. Len(log) : log[b] = f
    BY <1>b, <2>1
  <2>3. PICK k \in 1 .. W : at[k] = b
    BY <1>2, <1>8, <2>2
  <2> QED
    BY <1>2, <2>2, <2>3
<1>9. ASSUME NEW i \in 1 .. W, NEW k \in 1 .. W, wire'[i].seq > wire'[k].seq, ~SettledNext(wire'[k].id)
      PROVE  k \in 1 .. i - 1 /\ Pending'[k] = wire'[k]
  <2>1. ~(i < k)
    BY <1>6, <1>7, <1>9
  <2>2. i # k
    BY <1>9, <1>b
  <2> QED
    BY <1>1, <1>5, <2>1, <2>2 DEF W
<1>10. ASSUME NEW i \in 1 .. Len(Pending'), NEW j \in 1 .. Len(Pending'), i < j,
             Pending'[j].seq # 0, Pending'[i].seq > Pending'[j].seq, ~SettledNext(Pending'[j].id)
      PROVE  \E k \in 1 .. i - 1 : Pending'[k] = Pending'[j]
  <2> DEFINE f == Pending'[j]
  <2>0. W \in Nat
    BY <1>1 DEF W
  <2>1. CASE i \in 1 .. W /\ j \in 1 .. W
    <3>1. Pending'[i] = wire'[i] /\ Pending'[j] = wire'[j]
      BY <1>5, <2>1
    <3>2. Blamed(wire'[j].id)
      BY <1>6, <1>10, <2>1, <3>1
    <3> QED
      BY <1>7, <1>10, <3>1, <3>2
  <2>2. CASE i \in 1 .. W /\ j \notin 1 .. W
    <3>1. j - W \in 1 .. Len(chan) /\ f = chan[j - W] /\ f \in Range(Pending) /\ f.seq \in Nat
          /\ Pending'[i] = wire'[i] /\ cursor # 0
      BY <1>4, <1>5, <1>b, <1>c, <2>2
    <3>2. f.seq > cursor
      <4>1. ~(f.seq <= cursor)
        BY <1>3, <1>10, <3>1 DEF Overtaking, CursorBehind
      <4> QED
        BY <1>a, <3>1, <4>1
    <3>3. f \in Range(log) \/ f.seq <= floor
      BY <1>10, <3>1 DEF Logged, LoggedFirst
    <3> HIDE DEF f
    <3>4. PICK k \in 1 .. W : wire'[k] = f
      BY <1>8, <3>1, <3>2, <3>3
    <3>5. k \in 1 .. i - 1 /\ Pending'[k] = f
      BY <1>9, <1>10, <2>2, <3>1, <3>4 DEF f
    <3> QED
      BY <3>5 DEF f
  <2>3. CASE i \notin 1 .. W
    <3>1. i - W \in 1 .. Len(chan) /\ j - W \in 1 .. Len(chan) /\ i - W < j - W
      BY <1>5, <1>10, <2>0, <2>3
    <3>2. Pending'[i] = chan[i - W] /\ Pending'[j] = chan[j - W]
      BY <1>5, <1>10, <2>0, <2>3
    <3> DEFINE a == i - W
    <3> DEFINE b == j - W
    <3>a. a \in 1 .. Len(chan) /\ b \in 1 .. Len(chan) /\ a < b
          /\ chan[b].seq # 0 /\ chan[a].seq > chan[b].seq /\ ~Settled(chan[b].id)
      BY <1>10, <3>1, <3>2
    <3> HIDE DEF a, b
    <3>b. PICK k \in 1 .. a - 1 : chan[k] = chan[b]
      BY <1>4, <3>a DEF Overtaking, PendingInOrder
    <3>3. k \in 1 .. (i - W) - 1 /\ chan[k] = chan[j - W]
      BY <3>b DEF a, b
    <3>4. W + k \in 1 .. i - 1 /\ k \in 1 .. Len(chan)
      BY <1>5, <2>0, <3>1, <3>3
    <3> QED
      BY <1>5, <3>2, <3>3, <3>4
  <2> QED
    BY <2>1, <2>2, <2>3
<1>11. ASSUME ~stale', NEW g \in Range(Pending'), g.seq # 0, g.seq <= cursor' PROVE SettledNext(g.id)
  <2>1. CASE g \in Range(chan)
    BY <1>1, <1>4, <1>11, <2>1 DEF Overtaking, CursorBehind
  <2>2. CASE g \in Range(wire')
    <3>1. PICK i \in 1 .. W : g = wire'[i]
      BY <1>1, <2>2, FramesOf DEF W
    <3> QED
      BY <1>1, <1>2, <1>11, <1>a, <1>b, <3>1
  <2> QED
    BY <1>5, <1>11, <2>1, <2>2
<1>12. ASSUME NEW q \in Producers, Held(q)', hand'[q].stage = "ready", ~(sent' > hand'[q].seq),
             ~SettledNext(Current(q)')
      PROVE  /\ stale' \/ cursor' < hand'[q].seq
             /\ \A i \in 1 .. Len(Pending') : Pending'[i].seq > hand'[q].seq =>
                   \E k \in 1 .. i - 1 : Pending'[k] = Carried(q)'
  <2> DEFINE f == Carried(q)
  <2>0. W \in Nat
    BY <1>1 DEF W
  <2>1. /\ Held(q) /\ hand[q].stage = "ready" /\ hand' = hand /\ f' = f
        /\ ~(sent > hand[q].seq) /\ ~Settled(Current(q)) /\ Current(q)' = Current(q)
    BY <1>1, <1>12 DEF Held, Current, Carried
  <2>2. f.seq = hand[q].seq /\ f.id = Current(q) /\ f.seq \in Nat
    BY <2>1, CarriedIsFrame
  <2>3. /\ stale \/ cursor < hand[q].seq
        /\ \A i \in 1 .. Len(Pending) : Pending[i].seq > hand[q].seq => \E k \in 1 .. i - 1 : Pending[k] = f
    BY <2>1 DEF Overtaking, ReadyInOrder
  <2>4. f \in Range(log) \/ f.seq <= floor
    BY <2>1, <2>2 DEF Logged, LoggedFirst
  <2> HIDE DEF f
  <2>5. ASSUME NEW i \in 1 .. Len(Pending'), Pending'[i].seq > hand'[q].seq
        PROVE  \E k \in 1 .. i - 1 : Pending'[k] = f
    <3>1. CASE i \in 1 .. W
      <4>1. Pending'[i] = wire'[i] /\ cursor # 0
        BY <1>5, <1>c, <3>1
      <4>2. f.seq > cursor
        BY <1>3, <2>2, <2>3, <4>1
      <4>3. PICK k \in 1 .. W : wire'[k] = f
        BY <1>8, <2>2, <2>4, <4>1, <4>2
      <4> QED
        BY <1>9, <1>12, <2>1, <2>2, <2>5, <3>1, <4>1, <4>3
    <3>2. CASE i \notin 1 .. W
      <4>1. i - W \in 1 .. Len(chan) /\ Pending'[i] = chan[i - W]
        BY <1>5, <3>2
      <4>2. PICK k \in 1 .. (i - W) - 1 : chan[k] = f
        BY <1>4, <2>1, <2>3, <2>5, <4>1
      <4>3. W + k \in 1 .. i - 1 /\ k \in 1 .. Len(chan)
        BY <1>5, <2>0, <4>1
      <4> QED
        BY <1>5, <4>2, <4>3
    <3> QED
      BY <3>1, <3>2
  <2> QED
    BY <1>1, <2>1, <2>3, <2>5 DEF f
<1> QED
  BY <1>10, <1>11, <1>12, OvertakingNext

\* Short of leaving, a viewer who has missed nothing had missed nothing before.
LEMMA GapKeeps ==
  ASSUME TypeOK, Connection, Next, ~Leave, ~gap'
  PROVE  ~gap /\ \A e : Settled(e) => SettledNext(e)
<1> USE DEF redis, feed, server, browser, history
<1>1. ASSUME NEW p \in Producers, Produce(p) PROVE ~gap
  BY <1>1, StampIs, StampFailsIs, PushIs, PushFailsIs DEF Produce, Send
<1>2. Replay => ~gap
  BY ReplayIs
<1>3. Connect \/ ThreadEvent \/ Drop \/ Receive => ~gap
  BY DEF Connect, ThreadEvent, Drop, Receive
<1>4. Tick => ~gap
  BY TickIs
<1>5. \A e : Settled(e) => SettledNext(e)
  BY SettledKeeps DEF Settled, Blamed, SettledNext
<1> QED
  BY <1>1, <1>2, <1>3, <1>4, <1>5 DEF Next, View

\* Overtaking is kept by every step, or the viewer knows of a gap.
LEMMA OvertakingKeeps ==
  ASSUME TypeOK, Connection, Numbering, Logged, ~gap => Overtaking, Next, ~gap'
  PROVE  Overtaking'
<1> USE DEF redis, feed, server, browser, history
<1>a. TypeOK' /\ Connection'
  BY TypeKeeps, ConnectionKeeps
<1>1. CASE Leave
  <2>1. Pending' = <<>> /\ cursor' = 0
    BY <1>1 DEF Leave, Pending
  <2> QED
    BY <1>a, <2>1, EmptyOvertaking
<1>2. CASE ~Leave
  <2>a. Overtaking /\ \A e : Settled(e) => SettledNext(e)
    BY <1>2, GapKeeps
  <2>1. ASSUME NEW p \in Producers, Produce(p) PROVE Overtaking'
    <3>1. CASE Push(p)
      BY <2>a, <3>1, PushOvertaking
    <3>2. CASE Send(p)
      BY <2>a, <3>2, SendOvertaking
    <3>3. CASE Stamp(p) \/ StampFails(p) \/ PushFails(p)
      <4>1. UNCHANGED <<wire, chan, cursor, stale, sent>>
        BY <3>3, StampIs, StampFailsIs, PushFailsIs
      <4>2. UNCHANGED <<Pending, cursor, stale, sent>>
        BY <4>1 DEF Pending
      <4>3. \A q \in Producers : q # p => hand'[q] = hand[q]
        BY <3>3, StampIs, StampFailsIs, PushFailsIs
      <4>4. ~(Held(p)' /\ hand'[p].stage = "ready")
        BY <3>3, StampIs, StampFailsIs, PushFailsIs DEF Held
      <4> QED
        BY <2>a, <4>2, <4>3, <4>4, QuietOvertaking
    <3> QED
      BY <2>1, <3>1, <3>2, <3>3 DEF Produce
  <2>2. CASE Replay
    BY <2>a, <2>2, ReplayOvertaking
  <2>3. CASE Receive
    BY <2>a, <2>3, ReceiveOvertaking
  <2>4. CASE Connect \/ ThreadEvent
    <3>1. UNCHANGED <<Pending, cursor, stale, sent, hand>>
      <4>1. Connect => UNCHANGED <<Pending, cursor, stale, sent, hand>>
        BY DEF Connect, Pending
      <4>2. ThreadEvent => UNCHANGED <<Pending, cursor, stale, sent, hand>>
        BY ThreadEventIs
      <4> QED
        BY <2>4, <4>1, <4>2
    <3> QED
      BY <2>a, <3>1, QuietOvertaking
  <2>5. CASE Drop
    <3>1. Pending' = <<>> /\ UNCHANGED <<cursor, stale, sent, hand>>
      BY <2>5 DEF Drop, Pending
    <3> QED
      BY <1>a, <2>a, <3>1, EmptyOvertaking
  <2>6. CASE Tick
    <3>1. Pending' = <<>>
      BY <2>6, TickIs DEF Pending
    <3>2. \A p \in Producers : ~Held(p)'
      BY <2>6, PendingGrows
    <3> QED
      BY <1>a, <3>1, <3>2, EmptyOvertaking
  <2> QED
    BY <1>2, <2>1, <2>2, <2>3, <2>4, <2>5, <2>6 DEF Next, View
<1> QED
  BY <1>1, <1>2

-----------------------------------------------------------------------------
(* What is owed.                                                           *)

\* An event that is owed stays on its way until it is settled, or a reconnect
\* will notice that it is out of reach.
LEMMA UnderwayKeeps ==
  ASSUME TypeOK, Connection, Numbering, Unstamped, Logged, ~gap => Overtaking /\ Underway, Next, ~gap'
  PROVE  Underway'
<1> USE DEF redis, feed, server, browser, history
<1> DEFINE Coming(e) ==
       \/ conn # "closed" /\ \E f \in Range(Pending) : f.id = e
       \/ conn # "open" /\ cursor # 0 /\ Replayable(e)
<1> DEFINE NowComing(e) ==
       \/ conn' # "closed" /\ \E f \in Range(Pending') : f.id = e
       \/ conn' # "open" /\ cursor' # 0 /\ (\/ stale' \/ floor' > cursor'
                                            \/ \E f \in Range(log') : f.id = e /\ f.seq > cursor')
<1>0. SUFFICES ASSUME NEW e \in owed', ~SettledNext(e), conn' # "closed" \/ cursor' # 0
               PROVE  NowComing(e)
  BY DEF Underway, Replayable, Settled, Blamed, SettledNext
<1>1. ~Leave
  BY <1>0 DEF Leave
<1>2. Overtaking /\ Underway /\ ~Settled(e)
  BY <1>0, <1>1, GapKeeps
<1>3. ASSUME e \in owed, conn # "closed" \/ cursor # 0 PROVE Coming(e)
  BY <1>2, <1>3 DEF Underway
<1>a. /\ cursor \in Nat /\ floor \in Nat /\ floor' \in Nat /\ \A f \in Range(log) : f.seq \in Nat
      /\ \A f \in Range(Pending) : f.seq \in Nat
  BY TypeKeeps, FramesOf, PendingIs DEF TypeOK
<1>b. ASSUME ~Tick, conn # "open", cursor # 0, Replayable(e), UNCHANGED <<conn, cursor, stale>> PROVE NowComing(e)
  <2>1. /\ floor <= floor'
        /\ \A f \in Range(log) : f \in Range(log') \/ f.seq <= floor'
    BY <1>b, ReachKeeps
  <2> QED
    BY <1>a, <1>b, <2>1 DEF Replayable
<1>4. ASSUME NEW p \in Producers, Stamp(p) \/ StampFails(p) \/ Push(p) \/ PushFails(p), ~Tick PROVE NowComing(e)
  <2>1. UNCHANGED <<conn, cursor, stale, wire, chan, owed>>
    BY <1>4, StampIs, StampFailsIs, PushIs, PushFailsIs
  <2>2. Pending' = Pending
    BY <2>1 DEF Pending
  <2>3. Coming(e)
    BY <1>0, <1>3, <2>1
  <2> QED
    BY <1>4, <1>b, <2>1, <2>2, <2>3
<1>5. ASSUME NEW p \in Producers, Send(p), ~Tick PROVE NowComing(e)
  <2> DEFINE f == Carried(p)
  <2>a. f.id = Current(p) /\ f = Carried(p)
    BY DEF Carried
  <2> HIDE DEF f
  <2>1. /\ hand[p].stage = "ready" /\ f.seq = hand[p].seq
        /\ \/ Pending' = Append(Pending, f) /\ conn # "closed"
           \/ Pending' = Pending /\ (conn # "closed" => Current(p) \in blame'["crowded"])
        /\ f.seq # 0 /\ f.seq < sent => Current(p) \in blame'["overtaken"]
        /\ owed' = IF conn # "closed" \/ cursor # 0 THEN owed \cup {Current(p)} ELSE owed
    BY <1>5, <2>a, SendIs
  <2>2. UNCHANGED <<conn, cursor, stale, floor, log>>
    BY <1>5 DEF Send
  <2>3. Range(Pending) \subseteq Range(Pending')
    <3>1. Pending' = Append(Pending, f) => Range(Pending') = Range(Pending) \cup {f}
      BY PendingIs, RangeOfAppend
    <3> QED
      BY <2>1, <3>1
  <2>4. CASE e \in owed
    <3>1. Coming(e)
      BY <1>0, <1>3, <2>2, <2>4
    <3> QED
      BY <1>5, <1>b, <2>2, <2>3, <3>1
  <2>5. CASE e = Current(p)
    <3>1. CASE Pending' = Append(Pending, f) /\ conn # "closed"
      <4>1. f \in Range(Pending')
        BY <3>1, PendingIs, RangeOfAppend
      <4> QED
        BY <2>2, <2>5, <2>a, <3>1, <4>1
    <3>2. CASE conn = "closed"
      <4>1. cursor # 0
        BY <1>0, <2>2, <3>2
      <4>2. f.seq # 0 /\ ~(f.seq < sent)
        <5>1. e \notin blame'["unstamped"] /\ e \notin blame["unstamped"] /\ e \notin blame'["overtaken"]
          BY <1>0, <1>2 DEF SettledNext, Settled, Blamed, Obstacles
        <5>2. f.seq # 0
          BY <2>1, <2>5, <5>1 DEF Unstamped
        <5> QED
          BY <2>1, <2>5, <5>1, <5>2
      <4>3. Held(p) /\ ~(sent > hand[p].seq)
        <5>1. f.seq \in Nat /\ sent \in Nat
          BY <2>1, CarriedIsFrame DEF TypeOK
        <5> QED
          BY <2>1, <4>2, <5>1 DEF Held
      <4>4. stale \/ cursor < f.seq
        BY <1>2, <2>1, <2>5, <4>3 DEF Overtaking, ReadyInOrder
      <4>5. f \in Range(log) \/ f.seq <= floor
        BY <2>1, <2>a, <4>3 DEF Logged, LoggedFirst
      <4>6. f.seq \in Nat
        BY <2>1, CarriedIsFrame
      <4>7. stale \/ floor > cursor \/ \E g \in Range(log) : g.id = e /\ g.seq > cursor
        BY <1>a, <2>5, <2>a, <4>4, <4>5, <4>6
      <4> QED
        BY <2>2, <3>2, <4>1, <4>7
    <3>3. CASE conn # "closed" /\ Current(p) \in blame'["crowded"]
      BY <1>0, <2>5, <3>3 DEF SettledNext, Obstacles
    <3> QED
      BY <2>1, <3>1, <3>2, <3>3
  <2> QED
    BY <1>0, <2>1, <2>4, <2>5
<1>6. CASE Connect
  <2>1. conn = "closed" /\ conn' = "joined" /\ owed' = (IF cursor = 0 THEN {} ELSE owed)
        /\ UNCHANGED <<cursor, stale, floor, log>>
    BY <1>6 DEF Connect
  <2>2. cursor # 0 /\ e \in owed
    BY <1>0, <2>1
  <2>3. Coming(e)
    BY <1>3, <2>2
  <2> QED
    BY <2>1, <2>3 DEF Replayable
<1>7. CASE Replay
  <2>1. /\ conn = "joined" /\ conn' = "open" /\ wire = <<>> /\ gap' = (gap \/ OutOfReach(cursor))
        /\ UNCHANGED <<chan, owed, cursor, log>> /\ wire' \in Seq(Frame) /\ Len(wire') \in Nat
        /\ \E at \in [1 .. Len(wire') -> 1 .. Len(log)] :
              /\ \A j \in 1 .. Len(wire') : wire'[j] = log[at[j]]
              /\ cursor # 0 => \A b \in 1 .. Len(log) : log[b].seq > cursor => \E j \in 1 .. Len(wire') : at[j] = b
    BY <1>7, ReplayIs
  <2>2. Coming(e)
    BY <1>0, <1>3, <2>1
  <2>3. Range(Pending') = Range(wire') \cup Range(chan') /\ Range(Pending) = Range(wire) \cup Range(chan) /\ Range(wire) = {}
    <3>1. wire' \in Seq(Frame) /\ chan' \in Seq(Frame)
      BY <2>1 DEF TypeOK
    <3>2. Range(Pending') = Range(wire') \cup Range(chan')
      BY <3>1, FramesJoined DEF Pending
    <3>3. Range(Pending) = Range(wire) \cup Range(chan) /\ Range(wire) = {}
      BY <2>1, PendingIs DEF Range
    <3> QED
      BY <3>2, <3>3
  <2>4. CASE \E f \in Range(Pending) : f.id = e
    BY <2>1, <2>3, <2>4
  <2>5. CASE cursor # 0 /\ Replayable(e)
    <3>1. ~stale /\ ~(floor > cursor)
      <4>1. ~OutOfReach(cursor)
        BY <2>1
      <4> QED
        BY <2>5, <4>1 DEF OutOfReach
    <3>2. PICK f \in Range(log) : f.id = e /\ f.seq > cursor
      BY <2>5, <3>1 DEF Replayable
    <3>3. PICK b \in 1 .. Len(log) : log[b] = f
      BY FramesOf DEF TypeOK
    <3>4. PICK j \in 1 .. Len(wire') : wire'[j] = f
      BY <2>1, <2>5, <3>2, <3>3
    <3>5. f \in Range(wire')
      BY <2>1, <3>4, FramesOf
    <3> QED
      BY <2>1, <2>3, <3>2, <3>5
  <2> QED
    BY <2>2, <2>4, <2>5
<1>8. CASE ThreadEvent
  <2>1. Pending' = Pending /\ conn = "open" /\ UNCHANGED <<conn, owed>>
    BY <1>8, ThreadEventIs
  <2>2. Coming(e)
    BY <1>0, <1>3, <2>1
  <2> QED
    BY <2>1, <2>2
<1>9. CASE Drop
  <2>1. conn # "closed" /\ conn' = "closed" /\ UNCHANGED <<cursor, stale, floor, log, owed>>
    BY <1>9 DEF Drop
  <2>2. Coming(e) /\ cursor # 0
    BY <1>0, <1>3, <2>1
  <2>3. ASSUME NEW f \in Range(Pending), f.id = e
        PROVE  stale \/ floor > cursor \/ \E g \in Range(log) : g.id = e /\ g.seq > cursor
    <3>1. f.seq # 0
      BY <1>2, <2>3 DEF Unstamped, Settled, Blamed, Obstacles
    <3>2. ~stale => f.seq > cursor
      <4>1. ~stale => ~(f.seq <= cursor)
        BY <1>2, <2>3, <3>1 DEF Overtaking, CursorBehind
      <4> QED
        BY <1>a, <4>1
    <3>3. f \in Range(log) \/ f.seq <= floor
      BY <3>1 DEF Logged, LoggedFirst
    <3> QED
      BY <1>a, <2>3, <3>2, <3>3
  <2> QED
    BY <2>1, <2>2, <2>3 DEF Replayable
<1>10. CASE Receive
  <2> DEFINE f == Head(wire)
  <2> HIDE DEF f
  <2>1. Range(Pending) = Range(Pending') \cup {f} /\ wire # <<>> /\ UNCHANGED <<conn, owed>>
    BY <1>10, ReceiveIs DEF f
  <2>2. conn = "open"
    BY <2>1 DEF Connection
  <2>3. Coming(e)
    BY <1>0, <1>3, <2>1, <2>2
  <2>4. f.id # e
    <3>1. SettledNext(f.id)
      BY <1>1, <1>2, <1>10, GapKeeps, ReceiveSettles DEF Overtaking, f
    <3> QED
      BY <1>0, <3>1
  <2> QED
    BY <2>1, <2>2, <2>3, <2>4
<1>11. CASE Tick
  <2>1. /\ conn # "joined" /\ chan = <<>> /\ wire = <<>> /\ UNCHANGED <<conn, cursor, owed>>
        /\ \/ floor' = 0 /\ stale' = (cursor # 0)
           \/ UNCHANGED <<log, floor, stale>>
    BY <1>11, TickIs
  <2>2. Range(Pending) = {}
    BY <2>1 DEF Pending, Range
  <2>3. conn # "open" /\ cursor # 0 /\ Replayable(e)
    BY <1>0, <1>3, <2>1, <2>2
  <2>4. CASE stale' = (cursor # 0)
    BY <2>1, <2>3, <2>4
  <2>5. CASE UNCHANGED <<log, floor, stale>>
    BY <2>1, <2>3, <2>5 DEF Replayable
  <2> QED
    BY <2>1, <2>4, <2>5
<1> QED
  BY <1>1, <1>4, <1>5, <1>6, <1>7, <1>8, <1>9, <1>10, <1>11 DEF Next, Produce, View

-----------------------------------------------------------------------------
(* The theorems.                                                           *)

\* The invariant is kept.
LEMMA EventsKeep == EventInv /\ [Next]_vars => EventInv'
<1> SUFFICES ASSUME EventInv, [Next]_vars PROVE EventInv'
  OBVIOUS
<1>1. CASE Next
  <2>1. /\ TypeOK /\ Connection /\ Numbering /\ Unstamped /\ Ordered /\ Near /\ Logged
        /\ ~gap => Overtaking /\ Underway
    BY DEF EventInv
  <2>2. TypeOK' /\ Connection'
    BY <1>1, <2>1, TypeKeeps, ConnectionKeeps
  <2>3. Numbering' /\ Unstamped'
    BY <1>1, <2>1, NumberingKeeps, UnstampedKeeps
  <2>4. Ordered' /\ Near'
    BY <1>1, <2>1, OrderedKeeps, NearKeeps
  <2>5. Logged'
    BY <1>1, <2>1, LoggedKeeps
  <2>6. ~gap' => Overtaking'
    BY <1>1, <2>1, OvertakingKeeps
  <2>7. ~gap' => Underway'
    BY <1>1, <2>1, UnderwayKeeps
  <2> QED
    BY <2>2, <2>3, <2>4, <2>5, <2>6, <2>7 DEF EventInv
<1>2. CASE UNCHANGED vars
  <2> USE <1>2 DEF vars, redis, feed, server, browser, history
  <2>1. TypeOK' /\ Connection'
    BY DEF EventInv, TypeOK, Connection
  <2>2. Numbering' /\ Unstamped' /\ Ordered'
    BY DEF EventInv, Numbering, Unstamped, Ordered, Numbered, Pending, Held, Carried, Current
  <2>3. Near' /\ Logged'
    BY DEF EventInv, Near, Logged, LoggedOnce, LoggedFirst, NotYetLogged, LateIsBlamed, Blamed, Reached,
           Pending, Held, Carried, Current
  <2>4. ~gap' => Overtaking'
    <3>1. UNCHANGED <<Pending, cursor, stale, sent, hand, gap>> /\ \A e : Settled(e) => SettledNext(e)
      BY DEF Pending, Settled, SettledNext, Blamed
    <3> QED
      BY <3>1, QuietOvertaking DEF EventInv
  <2>5. ~gap' => Underway'
    BY DEF EventInv, Underway, Replayable, Settled, Blamed, Pending
  <2> QED
    BY <2>1, <2>2, <2>3, <2>4, <2>5 DEF EventInv
<1> QED
  BY <1>1, <1>2

\* The invariant holds in every reachable state.
LEMMA EventsHold == Spec => []EventInv
BY InitEvents, EventsKeep, PTL DEF Spec

\* The variables keep their types, and the buffer and the queue their sizes.
THEOREM EventLogTypes == Spec => []TypeOK
<1>1. EventInv => TypeOK
  BY DEF EventInv
<1> QED
  BY <1>1, EventsHold, PTL

\* The events of a producer reach the page in the order it sent them.
THEOREM PageInOrder == Spec => []RunOrder
<1>1. EventInv => RunOrder
  <2> SUFFICES ASSUME EventInv PROVE RunOrder
    OBVIOUS
  <2>1. DOMAIN got = 1 .. Len(got)
    BY DEF EventInv, TypeOK
  <2> QED
    BY <2>1 DEF EventInv, Ordered, RunOrder
<1> QED
  BY <1>1, EventsHold, PTL

\* No event reaches the page twice.
THEOREM NoDoubleDispatch == Spec => []DispatchedOnce
<1>1. EventInv => DispatchedOnce
  <2> SUFFICES ASSUME EventInv PROVE DispatchedOnce
    OBVIOUS
  <2>1. got \in Seq(Event) /\ DOMAIN got = 1 .. Len(got) /\ Len(got) \in Nat
    BY DEF EventInv, TypeOK
  <2>2. \A i \in 1 .. Len(got) : got[i][2] \in Nat
    BY <2>1, SizesAssumption DEF Event
  <2>3. ASSUME NEW i \in 1 .. Len(got), NEW j \in 1 .. Len(got), got[i] = got[j], got[i] \notin blame["unstamped"],
               i < j
        PROVE  FALSE
    BY <2>2, <2>3 DEF EventInv, Ordered
  <2>4. \A i, j \in 1 .. Len(got) : i < j \/ j < i \/ i = j
    BY <2>1
  <2>5. ASSUME NEW i \in 1 .. Len(got), NEW j \in 1 .. Len(got), got[i] = got[j], got[i] \notin blame["unstamped"]
        PROVE  i = j
    BY <2>3, <2>4, <2>5
  <2> QED
    BY <2>1, <2>5 DEF DispatchedOnce
<1> QED
  BY <1>1, EventsHold, PTL

\* A viewer that is connected and caught up misses nothing but what met an obstacle.
THEOREM NothingMissing == Spec => []CaughtUp
<1>1. EventInv => CaughtUp
  <2> SUFFICES ASSUME EventInv, Quiet, ~gap PROVE Missing(Obstacles) = {}
    BY DEF CaughtUp
  <2>1. Underway /\ conn = "open" /\ Range(Pending) = {}
    BY DEF EventInv, Quiet, Pending, Range
  <2>2. \A e \in owed : Settled(e)
    BY <2>1 DEF Underway
  <2> QED
    BY <2>2 DEF Missing, Settled, Blamed
<1> QED
  BY <1>1, EventsHold, PTL
==============================================================================
