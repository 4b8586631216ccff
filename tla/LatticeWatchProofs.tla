-------------------------- MODULE LatticeWatchProofs --------------------------
(***************************************************************************)
(* Proofs about LatticeWatch for any names, watches, requests and any      *)
(* capacity of the channel.                                                *)
(***************************************************************************)
EXTENDS LatticeWatch, SequenceTheorems, TLAPS

-----------------------------------------------------------------------------
(* Sequences: what a step of the pipeline does to them. *)

LEMMA AppendType ==
  ASSUME NEW S, NEW s \in Seq(S), NEW e \in S
  PROVE  /\ Append(s, e) \in Seq(S)
         /\ Len(Append(s, e)) = Len(s) + 1
         /\ DOMAIN Append(s, e) = DOMAIN s \cup {Len(s) + 1}
         /\ \A k \in DOMAIN s : Append(s, e)[k] = s[k]
         /\ Append(s, e)[Len(s) + 1] = e
OBVIOUS

LEMMA TailType ==
  ASSUME NEW S, NEW s \in Seq(S), s # <<>>
  PROVE  /\ Head(s) \in S /\ 1 \in DOMAIN s /\ Head(s) = s[1]
         /\ Tail(s) \in Seq(S)
         /\ Len(Tail(s)) = Len(s) - 1
         /\ \A k \in DOMAIN Tail(s) : k + 1 \in DOMAIN s /\ 1 < k + 1 /\ Tail(s)[k] = s[k + 1]
OBVIOUS

LEMMA ReplaceType ==
  ASSUME NEW S, NEW s \in Seq(S), NEW i \in DOMAIN s, NEW e \in S
  PROVE  /\ [s EXCEPT ![i] = e] \in Seq(S)
         /\ DOMAIN [s EXCEPT ![i] = e] = DOMAIN s
         /\ [s EXCEPT ![i] = e][i] = e
         /\ \A j \in DOMAIN s : j # i => [s EXCEPT ![i] = e][j] = s[j]
OBVIOUS

LEMMA ConstantSeq ==
  ASSUME NEW S, NEW T, NEW s \in Seq(T), NEW e \in S
  PROVE  [k \in DOMAIN s |-> e] \in Seq(S)
<1>1. PICK n \in Nat : DOMAIN s = 1..n
  BY LenProperties
<1>. QED  BY <1>1

-----------------------------------------------------------------------------
(* Type correctness *)

\* A key that was written has a message; its revision was given out.
Revised(n) == kv[n].rev <= seq /\ (kv[n].rev # 0 => kv[n].op # "none")

WatchTypes ==
  /\ TypeOK
  /\ \A n \in Names : Revised(n)
  /\ \A w \in Watches : task[w] = "sending" => item[w] \in Messages

LEMMA TypesInit == Init => WatchTypes
BY WatchAssumption DEF Init, BucketInit, NoEntry, WatchTypes, Revised, TypeOK, Entry

\* What a stream delivers is a message.
LEMMA SentIsMessage ==
  ASSUME WatchTypes, NEW w \in Watches, NEW i \in DOMAIN streams[w], NEW n \in Unsent(w, i)
  PROVE  /\ n \in Names /\ n \in streams[w][i]
         /\ kv[n].rev \in 1..MaxSeq
         /\ MessageOf(n) \in Messages
<1>1. streams[w] \in Seq(SUBSET Names)
  BY WatchAssumption DEF WatchTypes, TypeOK
<1>2. n \in Names /\ n \in streams[w][i] /\ kv[n].rev > cursor[w][i]
  BY <1>1 DEF Unsent
<1>3. cursor[w][i] \in 0..MaxSeq
  <2>1. cursor[w] \in Seq(0..MaxSeq) /\ i \in DOMAIN cursor[w]
    BY DEF WatchTypes, TypeOK
  <2>2. cursor[w] \in [DOMAIN cursor[w] -> 0..MaxSeq]
    BY <2>1, LenProperties
  <2>. QED  BY <2>1, <2>2
<1>4. /\ kv[n] \in Entry({}) /\ Revised(n)
      /\ seq \in 0..MaxSeq /\ MaxSeq \in Nat
  BY <1>2, WatchAssumption DEF WatchTypes, TypeOK
<1>5. kv[n].rev \in 1..MaxSeq /\ kv[n].op \in {"put", "delete"}
  BY <1>2, <1>3, <1>4 DEF Entry, Revised
<1>. QED  BY <1>2, <1>5 DEF MessageOf, Messages

LEMMA TypesStep == WatchTypes /\ [Next]_vars => WatchTypes'
<1>. SUFFICES ASSUME WatchTypes, [Next]_vars PROVE WatchTypes'
  OBVIOUS
<1>. USE DEF WatchTypes, TypeOK, Revised
<1>1. ASSUME NEW n \in Names, Write(n) PROVE WatchTypes'
  <2>1. /\ seq' = seq + 1 /\ seq \in 0..MaxSeq /\ seq < MaxSeq /\ MaxSeq \in Nat
        /\ UNCHANGED watchVars
    BY <1>1, WatchAssumption DEF Write, Put, Delete
  <2>2. PICK op \in {"put", "delete"} :
          kv' = [kv EXCEPT ![n] = [rev |-> seq + 1, op |-> op, val |-> Nothing]]
    BY <1>1 DEF Write, Put, Delete, Message
  <2>3. [rev |-> seq + 1, op |-> op, val |-> Nothing] \in Entry({})
    BY <2>1 DEF Entry
  <2>4. kv' \in [Names -> Entry({})] /\ seq' \in 0..MaxSeq
    BY <2>1, <2>2, <2>3
  <2>5. \A m \in Names : Revised(m)'
    BY <2>1, <2>2 DEF Revised, Entry
  <2>. QED  BY <2>1, <2>4, <2>5 DEF watchVars
<1>2. ASSUME NEW w \in Watches, NEW filters \in Requests, Watch(w, filters) PROVE WatchTypes'
  <2>1. filters \in Seq(SUBSET Names)
    BY WatchAssumption
  <2>2. [i \in DOMAIN filters |-> 0] \in Seq(0..MaxSeq)
    BY <2>1, ConstantSeq, WatchAssumption
  <2>3. [i \in DOMAIN filters |-> <<>>] \in Seq(Seq(Messages))
    <3>1. <<>> \in Seq(Messages)
      OBVIOUS
    <3>. QED  BY <2>1, <3>1, ConstantSeq
  <2>. QED  BY <1>2, <2>1, <2>2, <2>3 DEF Watch
<1>3. ASSUME NEW w \in Watches, NEW i \in DOMAIN streams[w], ServerSends(w, i) PROVE WatchTypes'
  <2>1. PICK n \in Unsent(w, i) :
          /\ cursor' = [cursor EXCEPT ![w] = [cursor[w] EXCEPT ![i] = kv[n].rev]]
          /\ buf' = [buf EXCEPT ![w] = [buf[w] EXCEPT ![i] = Append(buf[w][i], MessageOf(n))]]
    BY <1>3 DEF ServerSends
  <2>2. kv[n].rev \in 0..MaxSeq /\ MessageOf(n) \in Messages
    BY SentIsMessage
  <2>3. /\ [cursor[w] EXCEPT ![i] = kv[n].rev] \in Seq(0..MaxSeq)
        /\ DOMAIN [cursor[w] EXCEPT ![i] = kv[n].rev] = DOMAIN streams[w]
    BY <2>2, ReplaceType
  <2>4. Append(buf[w][i], MessageOf(n)) \in Seq(Messages)
    BY <2>2, AppendType
  <2>5. /\ [buf[w] EXCEPT ![i] = Append(buf[w][i], MessageOf(n))] \in Seq(Seq(Messages))
        /\ DOMAIN [buf[w] EXCEPT ![i] = Append(buf[w][i], MessageOf(n))] = DOMAIN streams[w]
    BY <2>4, ReplaceType
  <2>. QED  BY <1>3, <2>1, <2>3, <2>5 DEF ServerSends
<1>4. ASSUME NEW w \in Watches, NEW i \in DOMAIN streams[w], Poll(w, i),
             task' \in {[task EXCEPT ![w] = "sending"], [task EXCEPT ![w] = "ended"]}
      PROVE  WatchTypes'
  <2>1. buf[w][i] \in Seq(Messages) /\ buf[w][i] # <<>>
    BY <1>4 DEF Poll
  <2>2. Head(buf[w][i]) \in Messages /\ Tail(buf[w][i]) \in Seq(Messages)
    BY <2>1, TailType
  <2>3. buf' = [buf EXCEPT ![w] = [buf[w] EXCEPT ![i] = Tail(buf[w][i])]]
    BY <1>4 DEF Poll
  <2>4. /\ [buf[w] EXCEPT ![i] = Tail(buf[w][i])] \in Seq(Seq(Messages))
        /\ DOMAIN [buf[w] EXCEPT ![i] = Tail(buf[w][i])] = DOMAIN streams[w]
    BY <2>2, ReplaceType
  <2>. QED  BY <1>4, <2>2, <2>3, <2>4 DEF Poll
<1>5. ASSUME NEW w \in Watches, Send(w) PROVE WatchTypes'
  <2>1. /\ Append(chan[w], item[w]) \in Seq(Messages)
        /\ Len(Append(chan[w], item[w])) <= Cap
    BY <1>5, AppendType, WatchAssumption DEF Send
  <2>. QED  BY <1>5, <2>1 DEF Send
<1>6. ASSUME NEW w \in Watches, SendClosed(w) \/ NothingToWatch(w) PROVE WatchTypes'
  BY <1>6 DEF SendClosed, NothingToWatch
<1>7. ASSUME NEW w \in Watches, Receive(w) PROVE WatchTypes'
  <2>1. /\ Head(chan[w]) \in Messages /\ Tail(chan[w]) \in Seq(Messages)
        /\ Len(Tail(chan[w])) <= Cap
    BY <1>7, TailType, WatchAssumption DEF Receive
  <2>2. Append(got[w], Head(chan[w])) \in Seq(Messages)
    BY <2>1, AppendType
  <2>. QED  BY <1>7, <2>1, <2>2 DEF Receive
<1>8. ASSUME NEW w \in Watches, Hangup(w) PROVE WatchTypes'
  BY <1>8, WatchAssumption DEF Hangup
<1>9. CASE UNCHANGED vars
  BY <1>9 DEF vars, watchVars
<1>. QED
  BY <1>1, <1>2, <1>3, <1>4, <1>5, <1>6, <1>7, <1>8, <1>9
     DEF Next, TaskStep, ServerStep, PollLattice, PollMarker

-----------------------------------------------------------------------------
(* The pipeline of a stream: what the client got, the channel, the message in *)
(* the task's hands, what waits in the stream.                                *)

\* The messages of some names come in the order of their revisions within s, ...
Sorted(names, s) ==
  \A j, k \in DOMAIN s :
    j < k /\ s[j].name \in names /\ s[k].name \in names => s[j].rev < s[k].rev

\* ... all those in s before those in t, ...
Precede(names, s, t) ==
  \A j \in DOMAIN s, k \in DOMAIN t :
    s[j].name \in names /\ t[k].name \in names => s[j].rev < t[k].rev

\* ... and none after revision r.
UpTo(names, s, r) == \A j \in DOMAIN s : s[j].name \in names => s[j].rev <= r

Line(names, g, c, h, b, r) ==
  /\ Sorted(names, g) /\ Sorted(names, c) /\ Sorted(names, h) /\ Sorted(names, b)
  /\ Precede(names, g, c) /\ Precede(names, g, h) /\ Precede(names, g, b)
  /\ Precede(names, c, h) /\ Precede(names, c, b) /\ Precede(names, h, b)
  /\ UpTo(names, g, r) /\ UpTo(names, c, r) /\ UpTo(names, h, r) /\ UpTo(names, b, r)

\* The head of t moves to the end of s.
LEMMA Move ==
  ASSUME NEW names, NEW s \in Seq(Messages), NEW t \in Seq(Messages), t # <<>>,
         Sorted(names, s), Sorted(names, t), Precede(names, s, t)
  PROVE  /\ Sorted(names, Append(s, Head(t)))
         /\ Sorted(names, Tail(t))
         /\ Precede(names, Append(s, Head(t)), Tail(t))
<1>1. /\ DOMAIN Append(s, Head(t)) = DOMAIN s \cup {Len(s) + 1}
      /\ \A k \in DOMAIN s : Append(s, Head(t))[k] = s[k] /\ k \in Nat /\ k < Len(s) + 1
      /\ Append(s, Head(t))[Len(s) + 1] = t[1]
      /\ Len(s) \in Nat
  BY AppendType, TailType
<1>2. /\ 1 \in DOMAIN t
      /\ \A k \in DOMAIN Tail(t) : /\ k \in Nat /\ k + 1 \in DOMAIN t /\ 1 < k + 1
                                   /\ Tail(t)[k] = t[k + 1]
  BY TailType
<1>3. Sorted(names, Append(s, Head(t)))
  BY <1>1, <1>2 DEF Sorted, Precede
<1>4. Sorted(names, Tail(t))
  BY <1>2 DEF Sorted
<1>5. Precede(names, Append(s, Head(t)), Tail(t))
  BY <1>1, <1>2 DEF Sorted, Precede
<1>. QED  BY <1>3, <1>4, <1>5

\* What came before both, or after both, still does.
LEMMA MoveBetween ==
  ASSUME NEW names, NEW s \in Seq(Messages), NEW t \in Seq(Messages), t # <<>>,
         NEW u \in Seq(Messages), NEW r
  PROVE  /\ Precede(names, u, s) /\ Precede(names, u, t) =>
              Precede(names, u, Append(s, Head(t))) /\ Precede(names, u, Tail(t))
         /\ Precede(names, s, u) /\ Precede(names, t, u) =>
              Precede(names, Append(s, Head(t)), u) /\ Precede(names, Tail(t), u)
         /\ UpTo(names, s, r) /\ UpTo(names, t, r) =>
              UpTo(names, Append(s, Head(t)), r) /\ UpTo(names, Tail(t), r)
<1>1. /\ DOMAIN Append(s, Head(t)) = DOMAIN s \cup {Len(s) + 1}
      /\ \A k \in DOMAIN s : Append(s, Head(t))[k] = s[k]
      /\ Append(s, Head(t))[Len(s) + 1] = t[1]
  BY AppendType, TailType
<1>2. /\ 1 \in DOMAIN t
      /\ \A k \in DOMAIN Tail(t) : k + 1 \in DOMAIN t /\ Tail(t)[k] = t[k + 1]
  BY TailType
<1>3. Precede(names, u, s) /\ Precede(names, u, t) =>
        Precede(names, u, Append(s, Head(t))) /\ Precede(names, u, Tail(t))
  BY <1>1, <1>2 DEF Precede
<1>4. Precede(names, s, u) /\ Precede(names, t, u) =>
        Precede(names, Append(s, Head(t)), u) /\ Precede(names, Tail(t), u)
  BY <1>1, <1>2 DEF Precede
<1>5. UpTo(names, s, r) /\ UpTo(names, t, r) =>
        UpTo(names, Append(s, Head(t)), r) /\ UpTo(names, Tail(t), r)
  BY <1>1, <1>2 DEF UpTo
<1>. QED  BY <1>3, <1>4, <1>5

\* The steps of the pipeline keep the order of the names of a stream.
LEMMA LineSteps ==
  ASSUME NEW names, NEW g \in Seq(Messages), NEW c \in Seq(Messages),
         NEW h \in Seq(Messages), NEW b \in Seq(Messages), NEW r \in Nat,
         Line(names, g, c, h, b, r)
  PROVE  /\ c # <<>> => Line(names, Append(g, Head(c)), Tail(c), h, b, r)
         /\ h # <<>> => Line(names, g, Append(c, Head(h)), Tail(h), b, r)
         /\ b # <<>> => Line(names, g, c, Append(h, Head(b)), Tail(b), r)
         /\ b # <<>> => Line(names, g, c, h, Tail(b), r)
         /\ Line(names, g, <<>>, h, b, r)
         /\ Line(names, g, c, <<>>, b, r)
<1>1. c # <<>> => Line(names, Append(g, Head(c)), Tail(c), h, b, r)
  BY Move, MoveBetween DEF Line
<1>2. h # <<>> => Line(names, g, Append(c, Head(h)), Tail(h), b, r)
  BY Move, MoveBetween DEF Line
<1>3. b # <<>> => Line(names, g, c, Append(h, Head(b)), Tail(b), r)
  BY Move, MoveBetween DEF Line
<1>4. b # <<>> => Line(names, g, c, h, Tail(b), r)
  BY Move, MoveBetween DEF Line
<1>5. Line(names, g, <<>>, h, b, r) /\ Line(names, g, c, <<>>, b, r)
  BY DEF Line, Sorted, Precede, UpTo
<1>. QED  BY <1>1, <1>2, <1>3, <1>4, <1>5

\* The server sends a newer message.
LEMMA LineGrows ==
  ASSUME NEW names, NEW g \in Seq(Messages), NEW c \in Seq(Messages),
         NEW h \in Seq(Messages), NEW b \in Seq(Messages), NEW r \in Nat,
         Line(names, g, c, h, b, r), NEW m \in Messages, r < m.rev
  PROVE  Line(names, g, c, h, Append(b, m), m.rev)
<1>1. /\ DOMAIN Append(b, m) = DOMAIN b \cup {Len(b) + 1}
      /\ \A k \in DOMAIN b : Append(b, m)[k] = b[k] /\ k \in Nat /\ k < Len(b) + 1
      /\ Append(b, m)[Len(b) + 1] = m
      /\ Len(b) \in Nat
  BY AppendType
<1>2. \A u \in Seq(Messages) : \A k \in DOMAIN u : u[k].rev \in Nat
  <2>1. Messages \subseteq [name : Names, rev : Nat, op : {"put", "delete"}]
    BY WatchAssumption DEF Messages
  <2>2. ASSUME NEW u \in Seq(Messages), NEW k \in DOMAIN u PROVE u[k] \in Messages
    BY <2>2, LenProperties
  <2>. QED  BY <2>1, <2>2
<1>3. m.rev \in Nat
  BY WatchAssumption DEF Messages
<1>4. \A u \in Seq(Messages) :
        UpTo(names, u, r) => UpTo(names, u, m.rev)
  BY <1>2, <1>3 DEF UpTo
<1>5. \A u \in Seq(Messages) :
        Precede(names, u, b) /\ UpTo(names, u, r) => Precede(names, u, Append(b, m))
  BY <1>1, <1>2, <1>3 DEF Precede, UpTo
<1>6. Sorted(names, Append(b, m))
  BY <1>1, <1>2, <1>3 DEF Line, Sorted, UpTo
<1>7. UpTo(names, Append(b, m), m.rev)
  BY <1>1, <1>2, <1>3, <1>4 DEF Line, UpTo
<1>. QED  BY <1>4, <1>5, <1>6, <1>7 DEF Line

\* The task takes a message of another stream.
LEMMA LineOther ==
  ASSUME NEW names, NEW g, NEW c, NEW b, NEW r, NEW m,
         Line(names, g, c, <<>>, b, r), m.name \notin names
  PROVE  Line(names, g, c, <<m>>, b, r)
BY DEF Line, Sorted, Precede, UpTo

-----------------------------------------------------------------------------
(* The order in which a client sees the lattices. *)

\* The message the task waits to send.
Held(w) == IF task[w] = "sending" THEN <<item[w]>> ELSE <<>>

StreamInv(w, i) ==
  /\ \A k \in DOMAIN buf[w][i] : buf[w][i][k].name \in streams[w][i]
  /\ Alone(w, i) =>
       Line(streams[w][i], got[w], chan[w], Held(w), buf[w][i], cursor[w][i])

OrderInv ==
  /\ \A w \in Watches :
       task[w] = "none" =>
         streams[w] = <<>> /\ got[w] = <<>> /\ chan[w] = <<>> /\ ~rx[w]
  /\ \A w \in Watches : \A i \in DOMAIN streams[w] : StreamInv(w, i)
  /\ EndsOnlyAtDeletion

LEMMA OrderInit == Init => OrderInv
BY DEF Init, OrderInv, EndsOnlyAtDeletion

\* A watch of which nothing changes.
LEMMA SameWatch ==
  ASSUME NEW w \in Watches,
         task'[w] = task[w], streams'[w] = streams[w], cursor'[w] = cursor[w],
         buf'[w] = buf[w], item'[w] = item[w], chan'[w] = chan[w], got'[w] = got[w],
         NEW i \in DOMAIN streams[w], StreamInv(w, i)
  PROVE  StreamInv(w, i)'
BY DEF StreamInv, Alone, Held

\* What the lemmas about lines ask for.
LEMMA LineTypes ==
  ASSUME WatchTypes, NEW w \in Watches, NEW i \in DOMAIN streams[w]
  PROVE  /\ got[w] \in Seq(Messages) /\ chan[w] \in Seq(Messages)
         /\ Held(w) \in Seq(Messages)
         /\ buf[w][i] \in Seq(Messages)
         /\ cursor[w][i] \in Nat
<1>1. /\ got[w] \in Seq(Messages) /\ chan[w] \in Seq(Messages)
      /\ task[w] = "sending" => item[w] \in Messages
      /\ buf[w] \in Seq(Seq(Messages)) /\ i \in DOMAIN buf[w]
      /\ cursor[w] \in Seq(0..MaxSeq) /\ i \in DOMAIN cursor[w]
  BY DEF WatchTypes, TypeOK
<1>2. Held(w) \in Seq(Messages)
  BY <1>1 DEF Held
<1>3. buf[w] \in [DOMAIN buf[w] -> Seq(Messages)] /\ cursor[w] \in [DOMAIN cursor[w] -> 0..MaxSeq]
  BY <1>1, LenProperties
<1>. QED  BY <1>1, <1>2, <1>3, WatchAssumption

\* One watch moves, and its streams stay in order.
LEMMA OneWatchMoves ==
  ASSUME OrderInv, NEW w \in Watches,
         \A v \in Watches \ {w} :
           /\ task'[v] = task[v] /\ streams'[v] = streams[v] /\ cursor'[v] = cursor[v]
           /\ buf'[v] = buf[v] /\ item'[v] = item[v] /\ chan'[v] = chan[v]
           /\ got'[v] = got[v] /\ rx'[v] = rx[v],
         task'[w] # "none",
         \A i \in DOMAIN streams'[w] : StreamInv(w, i)',
         task'[w] = "ended" /\ rx'[w] /\ streams'[w] # <<>> => item'[w].op = "delete"
  PROVE  OrderInv'
<1>1. ASSUME NEW v \in Watches, v # w, NEW i \in DOMAIN streams'[v] PROVE StreamInv(v, i)'
  BY <1>1, SameWatch DEF OrderInv
<1>2. EndsOnlyAtDeletion'
  BY DEF OrderInv, EndsOnlyAtDeletion
<1>. QED  BY <1>1, <1>2 DEF OrderInv

LEMMA WatchStep ==
  ASSUME WatchTypes, OrderInv, NEW w \in Watches, NEW filters \in Requests, Watch(w, filters)
  PROVE  OrderInv'
<1>1. got[w] = <<>> /\ chan[w] = <<>>
  BY DEF OrderInv, Watch
<1>2. /\ task'[w] = "polling" /\ streams'[w] = filters
      /\ cursor'[w] = [i \in DOMAIN filters |-> 0]
      /\ buf'[w] = [i \in DOMAIN filters |-> <<>>]
      /\ got'[w] = <<>> /\ chan'[w] = <<>>
  BY <1>1 DEF Watch, WatchTypes, TypeOK
<1>3. ASSUME NEW i \in DOMAIN filters PROVE StreamInv(w, i)'
  <2>1. /\ streams'[w][i] = filters[i] /\ buf'[w][i] = <<>> /\ cursor'[w][i] = 0
        /\ Held(w)' = <<>>
    BY <1>2 DEF Held
  <2>2. Line(filters[i], <<>>, <<>>, <<>>, <<>>, 0)
    BY DEF Line, Sorted, Precede, UpTo
  <2>. QED  BY <1>2, <2>1, <2>2 DEF StreamInv
<1>4. \A v \in Watches \ {w} :
        /\ task'[v] = task[v] /\ streams'[v] = streams[v] /\ cursor'[v] = cursor[v]
        /\ buf'[v] = buf[v] /\ item'[v] = item[v] /\ chan'[v] = chan[v]
        /\ got'[v] = got[v] /\ rx'[v] = rx[v]
  BY DEF Watch, WatchTypes, TypeOK
<1>. QED  BY <1>2, <1>3, <1>4, OneWatchMoves

LEMMA SendsStep ==
  ASSUME WatchTypes, OrderInv, NEW w \in Watches, NEW i \in DOMAIN streams[w], ServerSends(w, i)
  PROVE  OrderInv'
<1>1. PICK n \in Unsent(w, i) :
        /\ cursor' = [cursor EXCEPT ![w] = [cursor[w] EXCEPT ![i] = kv[n].rev]]
        /\ buf' = [buf EXCEPT ![w] = [buf[w] EXCEPT ![i] = Append(buf[w][i], MessageOf(n))]]
  BY DEF ServerSends
<1>2. n \in streams[w][i] /\ MessageOf(n) \in Messages /\ cursor[w][i] < kv[n].rev
  BY SentIsMessage DEF Unsent
<1>3. MessageOf(n).name = n /\ MessageOf(n).rev = kv[n].rev
  BY DEF MessageOf
<1>4. /\ i \in DOMAIN buf[w] /\ i \in DOMAIN cursor[w]
      /\ w \in DOMAIN buf /\ w \in DOMAIN cursor
  BY DEF WatchTypes, TypeOK
<1>5. /\ buf'[w][i] = Append(buf[w][i], MessageOf(n)) /\ cursor'[w][i] = kv[n].rev
      /\ \A j \in DOMAIN streams[w] : j # i => buf'[w][j] = buf[w][j] /\ cursor'[w][j] = cursor[w][j]
  BY <1>1, <1>4 DEF WatchTypes, TypeOK
<1>6. UNCHANGED <<task, streams, item, chan, rx, got>>
  BY DEF ServerSends
<1>7. ASSUME NEW j \in DOMAIN streams[w] PROVE StreamInv(w, j)'
  <2>1. StreamInv(w, j)
    BY DEF OrderInv
  <2>2. CASE j # i
    BY <1>5, <1>6, <2>1, <2>2 DEF StreamInv, Alone, Held
  <2>3. CASE j = i
    <3>1. \A k \in DOMAIN buf'[w][i] : buf'[w][i][k].name \in streams[w][i]
      <4>1. buf[w][i] \in Seq(Messages)
        BY LineTypes
      <4>2. /\ DOMAIN buf'[w][i] = DOMAIN buf[w][i] \cup {Len(buf[w][i]) + 1}
            /\ \A k \in DOMAIN buf[w][i] : buf'[w][i][k] = buf[w][i][k]
            /\ buf'[w][i][Len(buf[w][i]) + 1] = MessageOf(n)
        BY <1>2, <1>5, <4>1, AppendType
      <4>. QED  BY <1>2, <1>3, <2>1, <2>3, <4>2 DEF StreamInv
    <3>2. ASSUME Alone(w, i)
          PROVE  Line(streams[w][i], got[w], chan[w], Held(w),
                      Append(buf[w][i], MessageOf(n)), MessageOf(n).rev)
      <4>1. Line(streams[w][i], got[w], chan[w], Held(w), buf[w][i], cursor[w][i])
        BY <2>1, <2>3, <3>2 DEF StreamInv
      <4>. QED  BY <1>2, <1>3, <4>1, LineTypes, LineGrows
    <3>. QED
      BY <1>3, <1>5, <1>6, <2>3, <3>1, <3>2 DEF StreamInv, Alone, Held
  <2>. QED  BY <2>2, <2>3
<1>8. \A v \in Watches \ {w} : cursor'[v] = cursor[v] /\ buf'[v] = buf[v]
  BY <1>1 DEF WatchTypes, TypeOK
<1>9. task[w] # "none"
  BY DEF ServerSends
<1>. QED
  BY <1>6, <1>7, <1>8, <1>9, OneWatchMoves DEF ServerSends

LEMMA PollStep ==
  ASSUME WatchTypes, OrderInv, NEW w \in Watches, NEW i \in DOMAIN streams[w],
         PollLattice(w, i) \/ PollMarker(w, i)
  PROVE  OrderInv'
<1>1. /\ task[w] = "polling" /\ buf[w][i] # <<>> /\ item'[w] = Head(buf[w][i])
      /\ buf' = [buf EXCEPT ![w] = [buf[w] EXCEPT ![i] = Tail(buf[w][i])]]
      /\ UNCHANGED <<streams, cursor, chan, rx, got>>
      /\ \A v \in Watches \ {w} : task'[v] = task[v] /\ item'[v] = item[v]
      /\ \/ task'[w] = "sending"
         \/ task'[w] = "ended" /\ Head(buf[w][i]).op = "delete"
  BY DEF PollLattice, PollMarker, Poll, WatchTypes, TypeOK
<1>2. i \in DOMAIN buf[w] /\ w \in DOMAIN buf
  BY DEF WatchTypes, TypeOK
<1>3. /\ buf'[w][i] = Tail(buf[w][i])
      /\ \A j \in DOMAIN streams[w] : j # i => buf'[w][j] = buf[w][j]
      /\ \A v \in Watches \ {w} : buf'[v] = buf[v]
  BY <1>1, <1>2 DEF WatchTypes, TypeOK
<1>4. buf[w][i] \in Seq(Messages) /\ Held(w) = <<>> /\ StreamInv(w, i)
  BY <1>1, LineTypes DEF Held, OrderInv
<1>5. /\ 1 \in DOMAIN buf[w][i] /\ Head(buf[w][i]) = buf[w][i][1]
      /\ \A k \in DOMAIN Tail(buf[w][i]) :
           k + 1 \in DOMAIN buf[w][i] /\ Tail(buf[w][i])[k] = buf[w][i][k + 1]
  BY <1>1, <1>4, TailType
<1>6. Held(w)' = <<Head(buf[w][i])>> \/ Held(w)' = <<>>
  BY <1>1 DEF Held
<1>7. ASSUME NEW j \in DOMAIN streams[w] PROVE StreamInv(w, j)'
  <2>1. StreamInv(w, j)
    BY DEF OrderInv
  <2>2. CASE j = i
    <3>1. \A k \in DOMAIN buf'[w][i] : buf'[w][i][k].name \in streams[w][i]
      BY <1>3, <1>4, <1>5 DEF StreamInv
    <3>2. ASSUME Alone(w, i)
          PROVE  Line(streams[w][i], got[w], chan[w], Held(w)', Tail(buf[w][i]), cursor[w][i])
      <4>1. Line(streams[w][i], got[w], chan[w], <<>>, buf[w][i], cursor[w][i])
        BY <1>4, <3>2 DEF StreamInv
      <4>2. Append(<<>>, Head(buf[w][i])) = <<Head(buf[w][i])>>
        BY <1>1, <1>4, TailType
      <4>3. <<>> \in Seq(Messages)
        OBVIOUS
      <4>4. /\ Line(streams[w][i], got[w], chan[w], Append(<<>>, Head(buf[w][i])), Tail(buf[w][i]), cursor[w][i])
            /\ Line(streams[w][i], got[w], chan[w], <<>>, Tail(buf[w][i]), cursor[w][i])
        BY <1>1, <4>1, <4>3, LineTypes, LineSteps
      <4>. QED  BY <1>6, <4>2, <4>4
    <3>. QED  BY <1>1, <1>3, <2>2, <3>1, <3>2 DEF StreamInv, Alone
  <2>3. CASE j # i
    <3>1. ASSUME Alone(w, j)
          PROVE  Line(streams[w][j], got[w], chan[w], Held(w)', buf[w][j], cursor[w][j])
      <4>1. Line(streams[w][j], got[w], chan[w], <<>>, buf[w][j], cursor[w][j])
        BY <1>4, <2>1, <3>1 DEF StreamInv
      <4>2. Head(buf[w][i]).name \notin streams[w][j]
        BY <1>4, <1>5, <2>3, <3>1 DEF StreamInv, Alone
      <4>. QED  BY <1>6, <4>1, <4>2, LineOther
    <3>. QED  BY <1>1, <1>3, <2>1, <2>3, <3>1 DEF StreamInv, Alone
  <2>. QED  BY <2>2, <2>3
<1>. QED  BY <1>1, <1>3, <1>7, OneWatchMoves

\* A step of the task or of the client that leaves the streams alone.
LEMMA PipelineMoves ==
  ASSUME WatchTypes, OrderInv, NEW w \in Watches, task[w] # "none",
         UNCHANGED <<streams, cursor, buf>>,
         \A v \in Watches \ {w} :
           /\ task'[v] = task[v] /\ item'[v] = item[v] /\ chan'[v] = chan[v]
           /\ got'[v] = got[v] /\ rx'[v] = rx[v],
         task'[w] # "none",
         task'[w] = "ended" /\ rx'[w] /\ streams[w] # <<>> => item'[w].op = "delete",
         \A names : \A b \in Seq(Messages), r \in Nat :
           Line(names, got[w], chan[w], Held(w), b, r) =>
             Line(names, got'[w], chan'[w], Held(w)', b, r)
  PROVE  OrderInv'
<1>1. ASSUME NEW i \in DOMAIN streams[w] PROVE StreamInv(w, i)'
  <2>1. StreamInv(w, i)
    BY DEF OrderInv
  <2>2. buf[w][i] \in Seq(Messages) /\ cursor[w][i] \in Nat
    BY LineTypes
  <2>3. ASSUME Alone(w, i)
        PROVE  Line(streams[w][i], got'[w], chan'[w], Held(w)', buf[w][i], cursor[w][i])
    BY <2>1, <2>2, <2>3 DEF StreamInv
  <2>. QED  BY <2>1, <2>3 DEF StreamInv, Alone
<1>. QED  BY <1>1, OneWatchMoves

LEMMA HeldType ==
  ASSUME WatchTypes, NEW w \in Watches
  PROVE  got[w] \in Seq(Messages) /\ chan[w] \in Seq(Messages) /\ Held(w) \in Seq(Messages)
<1>1. task[w] = "sending" => item[w] \in Messages
  BY DEF WatchTypes
<1>. QED  BY <1>1 DEF WatchTypes, TypeOK, Held

LEMMA SendStep ==
  ASSUME WatchTypes, OrderInv, NEW w \in Watches, Send(w)
  PROVE  OrderInv'
<1>1. /\ task[w] = "sending" /\ task'[w] = "polling"
      /\ Held(w) = <<item[w]>> /\ Held(w)' = <<>>
      /\ got'[w] = got[w] /\ chan'[w] = Append(chan[w], item[w])
  BY DEF Send, Held, WatchTypes, TypeOK
<1>2. Held(w) # <<>> /\ Head(Held(w)) = item[w] /\ Tail(Held(w)) = <<>>
  BY <1>1, HeldType
<1>3. ASSUME NEW names, NEW b \in Seq(Messages), NEW r \in Nat,
             Line(names, got[w], chan[w], Held(w), b, r)
      PROVE  Line(names, got'[w], chan'[w], Held(w)', b, r)
  <2>1. Line(names, got[w], Append(chan[w], Head(Held(w))), Tail(Held(w)), b, r)
    BY <1>2, <1>3, HeldType, LineSteps
  <2>. QED  BY <1>1, <1>2, <2>1
<1>4. \A v \in Watches \ {w} :
        /\ task'[v] = task[v] /\ item'[v] = item[v] /\ chan'[v] = chan[v]
        /\ got'[v] = got[v] /\ rx'[v] = rx[v]
  BY DEF Send, WatchTypes, TypeOK
<1>5. UNCHANGED <<streams, cursor, buf>>
  BY DEF Send
<1>. QED  BY <1>1, <1>3, <1>4, <1>5, PipelineMoves

LEMMA EndStep ==
  ASSUME WatchTypes, OrderInv, NEW w \in Watches, SendClosed(w) \/ NothingToWatch(w)
  PROVE  OrderInv'
<1>1. /\ task[w] # "none" /\ task'[w] = "ended" /\ Held(w)' = <<>>
      /\ ~rx[w] \/ streams[w] = <<>>
      /\ UNCHANGED <<streams, cursor, buf, item, chan, rx, got>>
      /\ \A v \in Watches \ {w} : task'[v] = task[v]
  BY DEF SendClosed, NothingToWatch, Held, WatchTypes, TypeOK
<1>2. ASSUME NEW names, NEW b \in Seq(Messages), NEW r \in Nat,
             Line(names, got[w], chan[w], Held(w), b, r)
      PROVE  Line(names, got'[w], chan'[w], Held(w)', b, r)
  BY <1>1, <1>2, HeldType, LineSteps
<1>. QED  BY <1>1, <1>2, PipelineMoves

LEMMA ReceiveStep ==
  ASSUME WatchTypes, OrderInv, NEW w \in Watches, Receive(w)
  PROVE  OrderInv'
<1>1. /\ rx[w] /\ chan[w] # <<>>
      /\ got'[w] = Append(got[w], Head(chan[w])) /\ chan'[w] = Tail(chan[w])
      /\ UNCHANGED <<task, streams, cursor, buf, item, rx>>
      /\ \A v \in Watches \ {w} : got'[v] = got[v] /\ chan'[v] = chan[v]
  BY DEF Receive, WatchTypes, TypeOK
<1>2. task[w] # "none" /\ Held(w)' = Held(w)
  BY <1>1 DEF OrderInv, Held
<1>3. ASSUME NEW names, NEW b \in Seq(Messages), NEW r \in Nat,
             Line(names, got[w], chan[w], Held(w), b, r)
      PROVE  Line(names, got'[w], chan'[w], Held(w)', b, r)
  <2>1. Line(names, Append(got[w], Head(chan[w])), Tail(chan[w]), Held(w), b, r)
    BY <1>1, <1>3, HeldType, LineSteps
  <2>. QED  BY <1>1, <1>2, <2>1
<1>4. task[w] = "ended" /\ rx[w] /\ streams[w] # <<>> => item[w].op = "delete"
  BY DEF OrderInv, EndsOnlyAtDeletion
<1>. QED  BY <1>1, <1>2, <1>3, <1>4, PipelineMoves

LEMMA HangupStep ==
  ASSUME WatchTypes, OrderInv, NEW w \in Watches, Hangup(w)
  PROVE  OrderInv'
<1>1. /\ rx[w] /\ rx'[w] = FALSE /\ chan'[w] = <<>>
      /\ UNCHANGED <<task, streams, cursor, buf, item, got>>
      /\ \A v \in Watches \ {w} : rx'[v] = rx[v] /\ chan'[v] = chan[v]
  BY DEF Hangup, WatchTypes, TypeOK
<1>2. task[w] # "none" /\ Held(w)' = Held(w)
  BY <1>1 DEF OrderInv, Held
<1>3. ASSUME NEW names, NEW b \in Seq(Messages), NEW r \in Nat,
             Line(names, got[w], chan[w], Held(w), b, r)
      PROVE  Line(names, got'[w], chan'[w], Held(w)', b, r)
  <2>1. Line(names, got[w], <<>>, Held(w), b, r)
    BY <1>3, HeldType, LineSteps
  <2>. QED  BY <1>1, <1>2, <2>1
<1>. QED  BY <1>1, <1>2, <1>3, PipelineMoves

LEMMA OrderStep == WatchTypes /\ OrderInv /\ [Next]_vars => OrderInv'
<1>. SUFFICES ASSUME WatchTypes, OrderInv, [Next]_vars PROVE OrderInv'
  OBVIOUS
<1>1. CASE UNCHANGED watchVars
  <2>1. \A w \in Watches : \A i \in DOMAIN streams'[w] : StreamInv(w, i)'
    BY <1>1, SameWatch DEF watchVars, OrderInv
  <2>. QED  BY <1>1, <2>1 DEF watchVars, OrderInv, EndsOnlyAtDeletion
<1>2. ASSUME NEW n \in Names, Write(n) PROVE OrderInv'
  BY <1>1, <1>2 DEF Write
<1>3. CASE UNCHANGED vars
  BY <1>1, <1>3 DEF vars
<1>. QED
  BY <1>2, <1>3, WatchStep, SendsStep, PollStep, SendStep, EndStep, ReceiveStep, HangupStep
     DEF Next, TaskStep, ServerStep

-----------------------------------------------------------------------------
(* Nothing is lost between the bucket and the client. *)

Has(s, m) == \E k \in DOMAIN s : s[k] = m

\* Message m is somewhere between the server and the client, or with the client.
InPipe(w, m) ==
  \/ Has(got[w], m) \/ Has(chan[w], m) \/ Has(Held(w), m)
  \/ \E i \in DOMAIN streams[w] : Has(buf[w][i], m)

\* The last message of n was sent on stream i and is still there.
Sent(w, i, n) ==
  \/ Has(got[w], MessageOf(n)) \/ Has(chan[w], MessageOf(n))
  \/ Has(Held(w), MessageOf(n)) \/ Has(buf[w][i], MessageOf(n))

KeptInv(w) ==
  /\ \A i \in DOMAIN streams[w] : cursor[w][i] <= seq
  /\ \A m \in Messages : InPipe(w, m) => m.rev <= kv[m.name].rev
  /\ task[w] \in {"polling", "sending"} /\ rx[w] =>
       \A i \in DOMAIN streams[w] : \A n \in streams[w][i] :
         kv[n].rev \in 1 .. cursor[w][i] => Sent(w, i, n)

LossInv ==
  /\ \A m, n \in Names : kv[m].rev = kv[n].rev /\ kv[n].rev # 0 => m = n
  /\ \A n \in Names : Live(n) => kv[n].rev # 0
  /\ \A w \in Watches : KeptInv(w)

LEMMA AppendHas ==
  ASSUME NEW s \in Seq(Messages), NEW e \in Messages, NEW m
  PROVE  Has(Append(s, e), m) <=> Has(s, m) \/ m = e
BY AppendType DEF Has

LEMMA TailHas ==
  ASSUME NEW s \in Seq(Messages), s # <<>>, NEW m
  PROVE  Has(s, m) <=> m = Head(s) \/ Has(Tail(s), m)
<1>1. /\ 1 \in DOMAIN s /\ Head(s) = s[1]
      /\ \A k \in DOMAIN Tail(s) : k + 1 \in DOMAIN s /\ Tail(s)[k] = s[k + 1]
  BY TailType
<1>2. ASSUME NEW k \in DOMAIN s, k # 1 PROVE k - 1 \in DOMAIN Tail(s) /\ Tail(s)[k - 1] = s[k]
  BY <1>2
<1>. QED  BY <1>1, <1>2 DEF Has

LEMMA HasNothing == \A m : ~Has(<<>>, m)
BY DEF Has

LEMMA HasOne == \A e, m : Has(<<e>>, m) <=> m = e
BY DEF Has

LEMMA LossInit == Init => LossInv
<1>. SUFFICES ASSUME Init PROVE LossInv
  OBVIOUS
<1>1. \A w \in Watches : KeptInv(w)
  BY DEF Init, KeptInv, InPipe, Held, Has
<1>. QED  BY <1>1 DEF Init, BucketInit, NoEntry, Live, LossInv

\* A watch of which nothing changes, nor anything in the bucket.
LEMMA SameKept ==
  ASSUME UNCHANGED <<kv, seq>>, NEW w \in Watches, KeptInv(w),
         task'[w] = task[w], streams'[w] = streams[w], cursor'[w] = cursor[w],
         buf'[w] = buf[w], item'[w] = item[w], chan'[w] = chan[w], got'[w] = got[w],
         rx'[w] = rx[w]
  PROVE  KeptInv(w)'
BY DEF KeptInv, InPipe, Sent, Held, MessageOf

\* A step of the task or of the client: whatever it has, it had before, and what it
\* had before it still has, while both are there.
LEMMA KeptMoves ==
  ASSUME NEW w \in Watches, KeptInv(w), UNCHANGED <<kv, seq, streams, cursor>>,
         \A m : InPipe(w, m)' => InPipe(w, m),
         task'[w] \in {"polling", "sending"} /\ rx'[w] =>
           /\ task[w] \in {"polling", "sending"} /\ rx[w]
           /\ \A i \in DOMAIN streams[w] : \A n \in streams[w][i] : Sent(w, i, n) => Sent(w, i, n)'
  PROVE  KeptInv(w)'
<1>1. \A i \in DOMAIN streams[w] : \A n \in streams[w][i] :
        Sent(w, i, n)' <=> (Sent(w, i, n))'
  OBVIOUS
<1>. QED  BY DEF KeptInv

LEMMA LossStep == WatchTypes /\ OrderInv /\ LossInv /\ [Next]_vars => LossInv'
<1>. SUFFICES ASSUME WatchTypes, OrderInv, LossInv, [Next]_vars PROVE LossInv'
  OBVIOUS
<1>0. /\ \A n \in Names : kv[n].rev \in Nat /\ kv[n].rev <= seq
      /\ seq \in Nat
  BY DEF WatchTypes, TypeOK, Revised, Entry
<1>. DEFINE Distinct == \A m, n \in Names : kv[m].rev = kv[n].rev /\ kv[n].rev # 0 => m = n
<1>1. ASSUME NEW n \in Names, Write(n) PROVE LossInv'
  <2>1. seq' = seq + 1 /\ UNCHANGED watchVars
    BY <1>1 DEF Write, Put, Delete
  <2>2. /\ kv'[n].rev = seq + 1
        /\ \A m \in Names \ {n} : kv'[m] = kv[m]
    BY <1>1 DEF Write, Put, Delete, Message, WatchTypes, TypeOK
  <2>3. Distinct' /\ \A m \in Names : Live(m)' => kv'[m].rev # 0
    BY <1>0, <2>2 DEF LossInv, Live
  <2>4. ASSUME NEW w \in Watches PROVE KeptInv(w)'
    <3>1. KeptInv(w) /\ streams[w] \in Seq(SUBSET Names) /\ cursor[w] \in Seq(0..MaxSeq)
          /\ DOMAIN cursor[w] = DOMAIN streams[w]
      BY WatchAssumption DEF LossInv, WatchTypes, TypeOK
    <3>2. \A i \in DOMAIN streams[w] : cursor[w][i] \in Nat /\ cursor[w][i] <= seq
      BY <3>1, LineTypes DEF KeptInv
    <3>3. \A m \in Messages : InPipe(w, m)' => InPipe(w, m)
      BY <2>1 DEF InPipe, Held, watchVars
    <3>4. \A m \in Messages : m.rev \in Nat /\ m.name \in Names
      BY WatchAssumption DEF Messages
    <3>5. \A m \in Messages : InPipe(w, m)' => m.rev <= kv'[m.name].rev
      <4>. SUFFICES ASSUME NEW m \in Messages, InPipe(w, m) PROVE m.rev <= kv'[m.name].rev
        BY <3>3
      <4>1. m.rev <= kv[m.name].rev
        BY <3>1 DEF KeptInv
      <4>. QED  BY <1>0, <2>2, <3>4, <4>1
    <3>6. ASSUME task[w] \in {"polling", "sending"}, rx[w], NEW i \in DOMAIN streams[w],
                 NEW m \in streams[w][i], kv'[m].rev \in 1 .. cursor[w][i]
          PROVE  Sent(w, i, m)'
      <4>1. m \in Names
        BY <3>1
      <4>2. m # n
        BY <1>0, <2>2, <3>2, <3>6
      <4>3. kv'[m] = kv[m] /\ Sent(w, i, m)
        BY <2>2, <3>1, <3>6, <4>1, <4>2 DEF KeptInv
      <4>. QED  BY <2>1, <4>3 DEF Sent, Held, MessageOf, watchVars
    <3>7. \A i \in DOMAIN streams[w] : cursor[w][i] <= seq + 1
      BY <1>0, <3>2
    <3>. QED  BY <2>1, <3>5, <3>6, <3>7 DEF KeptInv, watchVars
  <2>. QED  BY <2>3, <2>4 DEF LossInv
<1>2. ASSUME NEW w \in Watches, UNCHANGED <<kv, seq>>, KeptInv(w)',
             \A v \in Watches \ {w} :
               /\ task'[v] = task[v] /\ streams'[v] = streams[v] /\ cursor'[v] = cursor[v]
               /\ buf'[v] = buf[v] /\ item'[v] = item[v] /\ chan'[v] = chan[v]
               /\ got'[v] = got[v] /\ rx'[v] = rx[v]
      PROVE  LossInv'
  <2>1. \A v \in Watches \ {w} : KeptInv(v)'
    BY <1>2, SameKept DEF LossInv
  <2>. QED  BY <1>2, <2>1 DEF LossInv, Live
<1>3. ASSUME NEW w \in Watches, NEW filters \in Requests, Watch(w, filters) PROVE LossInv'
  <2>1. /\ streams'[w] = filters /\ UNCHANGED <<kv, seq>>
        /\ cursor'[w] = [i \in DOMAIN filters |-> 0] /\ buf'[w] = [i \in DOMAIN filters |-> <<>>]
        /\ task'[w] = "polling" /\ got'[w] = <<>> /\ chan'[w] = <<>>
    BY <1>3 DEF Watch, WatchTypes, TypeOK, OrderInv
  <2>2. Held(w)' = <<>>
    BY <2>1 DEF Held
  <2>3. \A m : ~InPipe(w, m)'
    BY <2>1, <2>2, HasNothing DEF InPipe
  <2>4. KeptInv(w)'
    BY <1>0, <2>1, <2>3 DEF KeptInv
  <2>5. \A v \in Watches \ {w} :
          /\ task'[v] = task[v] /\ streams'[v] = streams[v] /\ cursor'[v] = cursor[v]
          /\ buf'[v] = buf[v] /\ item'[v] = item[v] /\ chan'[v] = chan[v]
          /\ got'[v] = got[v] /\ rx'[v] = rx[v]
    BY <1>3 DEF Watch, WatchTypes, TypeOK
  <2>. QED  BY <1>2, <2>1, <2>4, <2>5
<1>4. ASSUME NEW w \in Watches, NEW i \in DOMAIN streams[w], ServerSends(w, i) PROVE LossInv'
  <2>1. PICK n \in Unsent(w, i) :
          /\ \A m \in Unsent(w, i) : kv[n].rev <= kv[m].rev
          /\ cursor' = [cursor EXCEPT ![w] = [cursor[w] EXCEPT ![i] = kv[n].rev]]
          /\ buf' = [buf EXCEPT ![w] = [buf[w] EXCEPT ![i] = Append(buf[w][i], MessageOf(n))]]
    BY <1>4 DEF ServerSends
  <2>2. /\ n \in Names /\ n \in streams[w][i] /\ MessageOf(n) \in Messages
        /\ kv[n].rev > cursor[w][i] /\ cursor[w][i] \in Nat /\ buf[w][i] \in Seq(Messages)
    BY SentIsMessage, LineTypes DEF Unsent
  <2>3. /\ i \in DOMAIN buf[w] /\ i \in DOMAIN cursor[w]
        /\ w \in DOMAIN buf /\ w \in DOMAIN cursor
    BY DEF WatchTypes, TypeOK
  <2>4. /\ buf'[w][i] = Append(buf[w][i], MessageOf(n)) /\ cursor'[w][i] = kv[n].rev
        /\ \A j \in DOMAIN streams[w] : j # i => buf'[w][j] = buf[w][j] /\ cursor'[w][j] = cursor[w][j]
    BY <2>1, <2>3 DEF WatchTypes, TypeOK
  <2>5. UNCHANGED <<kv, seq, task, streams, item, chan, rx, got>>
    BY <1>4 DEF ServerSends
  <2>6. KeptInv(w)
    BY DEF LossInv
  <2>7. \A m : Has(buf'[w][i], m) <=> Has(buf[w][i], m) \/ m = MessageOf(n)
    BY <2>2, <2>4, AppendHas
  <2>8. Held(w)' = Held(w)
    BY <2>5 DEF Held
  <2>9. ASSUME NEW j \in DOMAIN streams[w] PROVE cursor'[w][j] <= seq
    BY <1>0, <2>2, <2>4, <2>6 DEF KeptInv
  <2>10. \A m : InPipe(w, m)' => InPipe(w, m) \/ m = MessageOf(n)
    BY <2>4, <2>5, <2>7, <2>8 DEF InPipe
  <2>11. MessageOf(n).rev = kv[n].rev /\ MessageOf(n).name = n
    BY DEF MessageOf
  <2>12. ASSUME NEW m \in Messages, InPipe(w, m)' PROVE m.rev <= kv[m.name].rev
    BY <1>0, <2>2, <2>6, <2>10, <2>11, <2>12 DEF KeptInv
  <2>13. ASSUME task[w] \in {"polling", "sending"}, rx[w], NEW j \in DOMAIN streams[w],
                NEW m \in streams[w][j], kv[m].rev \in 1 .. cursor'[w][j]
         PROVE  Sent(w, j, m)'
    <3>1. MessageOf(m)' = MessageOf(m)
      BY <2>5 DEF MessageOf
    <3>2. Sent(w, j, m) => Sent(w, j, m)'
      BY <2>4, <2>5, <2>7, <2>8, <3>1 DEF Sent
    <3>3. CASE j # i \/ kv[m].rev \in 1 .. cursor[w][i]
      BY <2>4, <2>6, <2>13, <3>2, <3>3 DEF KeptInv
    <3>4. CASE j = i /\ kv[m].rev \notin 1 .. cursor[w][i]
      <4>1. m \in Names
        <5>1. streams[w] \in Seq(SUBSET Names)
          BY WatchAssumption DEF WatchTypes, TypeOK
        <5>. QED  BY <2>13, <5>1
      <4>2. kv[m].rev > cursor[w][i] /\ kv[m].rev <= kv[n].rev /\ kv[n].rev # 0
        BY <1>0, <2>2, <2>4, <2>13, <3>4, <4>1
      <4>3. m \in Unsent(w, i)
        BY <2>13, <3>4, <4>2 DEF Unsent
      <4>4. kv[m].rev = kv[n].rev
        BY <1>0, <2>1, <2>2, <4>1, <4>2, <4>3
      <4>5. m = n
        BY <2>2, <4>1, <4>2, <4>4 DEF LossInv
      <4>. QED  BY <2>7, <3>1, <3>4, <4>5 DEF Sent
    <3>. QED  BY <3>3, <3>4
  <2>14. KeptInv(w)'
    BY <2>5, <2>9, <2>12, <2>13 DEF KeptInv
  <2>15. \A v \in Watches \ {w} : cursor'[v] = cursor[v] /\ buf'[v] = buf[v]
    BY <2>1 DEF WatchTypes, TypeOK
  <2>. QED  BY <1>2, <2>5, <2>14, <2>15
<1>5. ASSUME NEW w \in Watches, NEW i \in DOMAIN streams[w], PollLattice(w, i) \/ PollMarker(w, i)
      PROVE  LossInv'
  <2>1. /\ task[w] = "polling" /\ buf[w][i] # <<>> /\ item'[w] = Head(buf[w][i])
        /\ buf' = [buf EXCEPT ![w] = [buf[w] EXCEPT ![i] = Tail(buf[w][i])]]
        /\ UNCHANGED <<kv, seq, streams, cursor, chan, rx, got>>
        /\ \A v \in Watches \ {w} : task'[v] = task[v] /\ item'[v] = item[v]
        /\ task'[w] \in {"sending", "ended"}
    BY <1>5 DEF PollLattice, PollMarker, Poll, WatchTypes, TypeOK
  <2>2. /\ i \in DOMAIN buf[w] /\ w \in DOMAIN buf
        /\ buf[w][i] \in Seq(Messages)
    BY LineTypes DEF WatchTypes, TypeOK
  <2>3. /\ buf'[w][i] = Tail(buf[w][i])
        /\ \A j \in DOMAIN streams[w] : j # i => buf'[w][j] = buf[w][j]
        /\ \A v \in Watches \ {w} : buf'[v] = buf[v]
    BY <2>1, <2>2 DEF WatchTypes, TypeOK
  <2>4. \A m : Has(buf[w][i], m) <=> m = Head(buf[w][i]) \/ Has(buf'[w][i], m)
    BY <2>1, <2>2, <2>3, TailHas
  <2>5. /\ \A m : ~Has(Held(w), m)
        /\ task'[w] = "sending" => \A m : Has(Held(w)', m) <=> m = Head(buf[w][i])
        /\ task'[w] # "sending" => \A m : ~Has(Held(w)', m)
    BY <2>1, HasNothing, HasOne DEF Held
  <2>6. \A m : InPipe(w, m)' => InPipe(w, m)
    BY <2>1, <2>3, <2>4, <2>5 DEF InPipe
  <2>7. ASSUME task'[w] = "sending", NEW j \in DOMAIN streams[w], NEW n \in streams[w][j], Sent(w, j, n)
        PROVE  Sent(w, j, n)'
    <3>1. MessageOf(n)' = MessageOf(n)
      BY <2>1 DEF MessageOf
    <3>. QED  BY <2>1, <2>3, <2>4, <2>5, <2>7, <3>1 DEF Sent
  <2>8. KeptInv(w)'
    BY <2>1, <2>6, <2>7, KeptMoves DEF LossInv
  <2>. QED  BY <1>2, <2>1, <2>3, <2>8
<1>6. ASSUME NEW w \in Watches, Send(w) \/ SendClosed(w) \/ NothingToWatch(w) \/ Receive(w) \/ Hangup(w)
      PROVE  LossInv'
  <2>1. /\ UNCHANGED <<kv, seq, streams, cursor, buf, item>>
        /\ \A v \in Watches \ {w} : /\ task'[v] = task[v] /\ chan'[v] = chan[v]
                                    /\ got'[v] = got[v] /\ rx'[v] = rx[v]
    BY <1>6 DEF Send, SendClosed, NothingToWatch, Receive, Hangup, WatchTypes, TypeOK
  <2>2. /\ got[w] \in Seq(Messages) /\ chan[w] \in Seq(Messages)
        /\ task[w] = "sending" => item[w] \in Messages
    BY DEF WatchTypes, TypeOK
  <2>3. CASE Send(w)
    <3>1. /\ task[w] = "sending" /\ task'[w] = "polling" /\ rx'[w] = rx[w] /\ got'[w] = got[w]
          /\ chan'[w] = Append(chan[w], item[w])
      BY <2>3 DEF Send, WatchTypes, TypeOK
    <3>2. \A m : /\ Has(chan'[w], m) <=> Has(chan[w], m) \/ m = item[w]
                 /\ Has(Held(w), m) <=> m = item[w]
                 /\ ~Has(Held(w)', m)
      BY <2>2, <3>1, AppendHas, HasNothing, HasOne DEF Held
    <3>3. \A m : InPipe(w, m)' => InPipe(w, m)
      BY <2>1, <3>1, <3>2 DEF InPipe
    <3>4. \A j \in DOMAIN streams[w] : \A n \in streams[w][j] : Sent(w, j, n) => Sent(w, j, n)'
      <4>1. \A n : MessageOf(n)' = MessageOf(n)
        BY <2>1 DEF MessageOf
      <4>. QED  BY <2>1, <3>1, <3>2, <4>1 DEF Sent
    <3>5. KeptInv(w)'
      BY <2>1, <3>1, <3>3, <3>4, KeptMoves DEF LossInv
    <3>. QED  BY <1>2, <2>1, <3>5
  <2>4. CASE SendClosed(w) \/ NothingToWatch(w)
    <3>1. task'[w] = "ended" /\ Held(w)' = <<>> /\ UNCHANGED <<got, chan>>
      BY <2>4 DEF SendClosed, NothingToWatch, Held, WatchTypes, TypeOK
    <3>2. \A m : InPipe(w, m)' => InPipe(w, m)
      BY <2>1, <3>1, HasNothing DEF InPipe
    <3>3. KeptInv(w)'
      BY <2>1, <3>1, <3>2, KeptMoves DEF LossInv
    <3>. QED  BY <1>2, <2>1, <3>3
  <2>5. CASE Receive(w)
    <3>1. /\ chan[w] # <<>> /\ UNCHANGED <<task, rx>> /\ chan'[w] = Tail(chan[w])
          /\ got'[w] = Append(got[w], Head(chan[w])) /\ Held(w)' = Held(w)
      BY <2>5 DEF Receive, Held, WatchTypes, TypeOK
    <3>2. Head(chan[w]) \in Messages
      BY <2>2, <3>1, TailType
    <3>3. \A m : /\ Has(got'[w], m) <=> Has(got[w], m) \/ m = Head(chan[w])
                 /\ Has(chan[w], m) <=> m = Head(chan[w]) \/ Has(chan'[w], m)
      BY <2>2, <3>1, <3>2, AppendHas, TailHas
    <3>4. \A m : InPipe(w, m)' => InPipe(w, m)
      BY <2>1, <3>1, <3>3 DEF InPipe
    <3>5. \A j \in DOMAIN streams[w] : \A n \in streams[w][j] : Sent(w, j, n) => Sent(w, j, n)'
      <4>1. \A n : MessageOf(n)' = MessageOf(n)
        BY <2>1 DEF MessageOf
      <4>. QED  BY <2>1, <3>1, <3>3, <4>1 DEF Sent
    <3>6. KeptInv(w)'
      BY <2>1, <3>1, <3>4, <3>5, KeptMoves DEF LossInv
    <3>. QED  BY <1>2, <2>1, <3>6
  <2>6. CASE Hangup(w)
    <3>1. /\ rx'[w] = FALSE /\ chan'[w] = <<>> /\ UNCHANGED <<task, got>> /\ Held(w)' = Held(w)
      BY <2>6 DEF Hangup, Held, WatchTypes, TypeOK
    <3>2. \A m : InPipe(w, m)' => InPipe(w, m)
      BY <2>1, <3>1, HasNothing DEF InPipe
    <3>3. KeptInv(w)'
      BY <2>1, <3>1, <3>2, KeptMoves DEF LossInv
    <3>. QED  BY <1>2, <2>1, <3>3
  <2>. QED  BY <1>6, <2>3, <2>4, <2>5, <2>6
<1>7. CASE UNCHANGED vars
  <2>1. \A w \in Watches : KeptInv(w)'
    BY <1>7, SameKept DEF LossInv, vars, watchVars
  <2>. QED  BY <1>7, <2>1 DEF LossInv, Live, vars
<1>. QED  BY <1>1, <1>3, <1>4, <1>5, <1>6, <1>7 DEF Next, TaskStep, ServerStep

\* What is last among the messages of n is what LastSeen finds.
LEMMA LastSeenIs ==
  ASSUME NEW w \in Watches, NEW n, NEW r \in Nat,
         \E k \in DOMAIN got[w] : got[w][k].name = n /\ got[w][k].rev = r,
         \A k \in DOMAIN got[w] :
           got[w][k].name = n => got[w][k].rev \in Nat /\ got[w][k].rev <= r
  PROVE  LastSeen(w, n) = r
<1>. DEFINE revs == {got[w][k].rev : k \in {j \in DOMAIN got[w] : got[w][j].name = n}}
<1>1. r \in revs /\ \A s \in revs : s \in Nat /\ s <= r
  OBVIOUS
<1>2. LastSeen(w, n) = IF revs = {} THEN 0 ELSE CHOOSE q \in revs : \A s \in revs : s <= q
  BY DEF LastSeen
<1>. HIDE DEF revs
<1>3. \A q \in revs : (\A s \in revs : s <= q) => q = r
  BY <1>1
<1>. QED  BY <1>1, <1>2, <1>3

-----------------------------------------------------------------------------
\* The variables keep their types and the channel of a watch its capacity,
\* however slowly the client reads: tx.send of watch_lattices waits for room.
THEOREM TypeCorrect == Spec => []TypeOK
<1>1. WatchTypes => TypeOK
  BY DEF WatchTypes
<1>. QED  BY <1>1, TypesInit, TypesStep, PTL DEF Spec

\* The three invariants hold in every reachable state.
THEOREM Invariance == Spec => [](WatchTypes /\ OrderInv /\ LossInv)
<1>1. Init => WatchTypes /\ OrderInv /\ LossInv
  BY TypesInit, OrderInit, LossInit
<1>2. WatchTypes /\ OrderInv /\ LossInv /\ [Next]_vars => (WatchTypes /\ OrderInv /\ LossInv)'
  BY TypesStep, OrderStep, LossStep
<1>. QED  BY <1>1, <1>2, PTL DEF Spec

\* The client of a watch never sees a lattice go back in time: merging the
\* streams, unpacking and sending through the channel keep the order in which
\* each stream delivers the writes, for any number of streams and any capacity.
THEOREM OrderCorrect == Spec => []InOrder
<1>1. OrderInv => InOrder
  <2>. SUFFICES ASSUME OrderInv, NEW w \in Watches, NEW i \in DOMAIN streams[w], Alone(w, i)
                PROVE  Sorted(streams[w][i], got[w])
    BY DEF InOrder, Sorted
  <2>. QED  BY DEF OrderInv, StreamInv, Line
<1>. QED  BY <1>1, Invariance, PTL

\* A watch ends under a client that is still there only at a deletion marker,
\* the one message that watch_lattices cannot unpack, never because of the
\* client's pace or of another watch.
THEOREM EndsCorrect == Spec => []EndsOnlyAtDeletion
<1>1. OrderInv => EndsOnlyAtDeletion
  BY DEF OrderInv
<1>. QED  BY <1>1, Invariance, PTL

\* Between the bucket and a client that is there nothing is lost: once nothing is
\* left to send, to poll or to receive, the client has the last state of every
\* lattice it watches.  This is what safety has to do for CatchesUp, for any
\* streams, any capacity and a client of any pace.
THEOREM NothingLost == Spec => []QuietIsUpToDate
<1>1. ASSUME WatchTypes, LossInv PROVE QuietIsUpToDate
  <2>. SUFFICES ASSUME NEW w \in Watches, task[w] = "polling", rx[w], ~Coming(w), chan[w] = <<>>,
                       NEW n \in Watched(w), Live(n)
                PROVE  LastSeen(w, n) = kv[n].rev
    BY DEF QuietIsUpToDate, UpToDate
  <2>1. PICK i \in DOMAIN streams[w] : n \in streams[w][i]
    BY DEF Watched
  <2>2. buf[w][i] = <<>> /\ n \notin Unsent(w, i) /\ Held(w) = <<>>
    BY DEF Coming, Held
  <2>3. n \in Names
    <3>1. streams[w] \in Seq(SUBSET Names)
      BY <1>1, WatchAssumption DEF WatchTypes, TypeOK
    <3>. QED  BY <2>1, <3>1
  <2>4. kv[n].rev \in Nat /\ cursor[w][i] \in Nat /\ KeptInv(w)
    BY <1>1, <2>3, LineTypes DEF LossInv, WatchTypes, TypeOK, Entry
  <2>5. kv[n].rev # 0
    BY <1>1, <2>3 DEF LossInv
  <2>6. kv[n].rev \in 1 .. cursor[w][i]
    BY <2>1, <2>2, <2>4, <2>5 DEF Unsent
  <2>7. Has(got[w], MessageOf(n))
    BY <2>1, <2>2, <2>4, <2>6, HasNothing DEF KeptInv, Sent
  <2>8. MessageOf(n).name = n /\ MessageOf(n).rev = kv[n].rev
    BY DEF MessageOf
  <2>9. \A k \in DOMAIN got[w] : got[w][k] \in Messages
    BY <1>1, LenProperties DEF WatchTypes, TypeOK
  <2>10. \A k \in DOMAIN got[w] : got[w][k].rev \in Nat /\ got[w][k].rev <= kv[got[w][k].name].rev
    BY <2>4, <2>9, WatchAssumption DEF KeptInv, InPipe, Has, Messages
  <2>. QED  BY <2>4, <2>7, <2>8, <2>10, LastSeenIs DEF Has
<1>. QED  BY <1>1, Invariance, PTL

=============================================================================
