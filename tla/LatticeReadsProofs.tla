-------------------------- MODULE LatticeReadsProofs --------------------------
(***************************************************************************)
(* Proofs about LatticeReads for any names, any calls that write and any   *)
(* calls that read.                                                        *)
(***************************************************************************)
EXTENDS LatticeReads, LatticeServiceProofs

-----------------------------------------------------------------------------
(* What a call that writes does to the bucket. *)

\* One step adds one message, with the next revision, under one name, or none.
LEMMA OneMessage ==
  ASSUME TypeInv, [Next]_vars
  PROVE  \/ UNCHANGED <<kv, seq>>
         \/ /\ seq' = seq + 1
            /\ \E n \in Names, e \in Entry(Lattice) :
                 /\ kv' = [kv EXCEPT ![n] = e]
                 /\ e.rev = seq + 1 /\ e.op \in {"put", "delete"}
<1>1. UNCHANGED <<kv, seq>> \/ \E o \in Ops : Writes(o)
  BY OnlyWritersWrite DEF vars
<1>2. ASSUME NEW o \in Ops,
             AddPut(o) \/ AddFinish(o) \/ UpdateRewrite(o) \/ DeleteMark(o) \/ DeleteRemove(o)
      PROVE  Target(o) \in Names
  BY <1>2 DEF AddPut, AddFinish, UpdateRewrite, DeleteMark, DeleteRemove, WriteStep, Step,
              TypeInv, CallOK, InFlightPCs, AddPCs, UpdatePCs, DeletePCs
<1>3. ASSUME NEW o \in Ops, AddPut(o) \/ AddFinish(o) \/ UpdateRewrite(o) \/ DeleteMark(o)
      PROVE  \E l : Put(Target(o), l)
  BY <1>3 DEF AddPut, AddFinish, UpdateRewrite, DeleteMark, Store
<1>4. ASSUME NEW o \in Ops, DeleteRemove(o)
      PROVE  Delete(Target(o))
  BY <1>4 DEF DeleteRemove
<1>5. kv' \in [Names -> Entry(Lattice)]
  <2>1. TypeInv'
    BY TypeStep, TypeStutter
  <2>. QED  BY <2>1 DEF TypeInv, TypeOK
<1>6. kv \in [Names -> Entry(Lattice)]
  BY DEF TypeInv, TypeOK
<1>7. ASSUME NEW n \in Names, NEW l, NEW op \in {"put", "delete"},
             seq' = seq + 1, kv' = [kv EXCEPT ![n] = Message(op, l)]
      PROVE  \E m \in Names, e \in Entry(Lattice) :
               /\ kv' = [kv EXCEPT ![m] = e]
               /\ e.rev = seq + 1 /\ e.op \in {"put", "delete"}
  <2>1. kv'[n] = Message(op, l) /\ kv'[n] \in Entry(Lattice)
    BY <1>5, <1>6, <1>7
  <2>2. Message(op, l).rev = seq + 1 /\ Message(op, l).op = op
    BY DEF Message
  <2>. QED  BY <1>7, <2>1, <2>2
<1>. QED  BY <1>1, <1>2, <1>3, <1>4, <1>7 DEF Writes, Put, Delete

-----------------------------------------------------------------------------
(* The history of the bucket *)

LogEntry == [name : Names, op : {"put", "delete"}]

\* The log has every revision given out, and a key the last of its messages.
LogInv ==
  /\ TypeInv
  /\ log \in Seq(LogEntry) /\ Len(log) = seq
  /\ \A n \in Names :
       /\ kv[n].rev <= seq
       /\ Live(n) => kv[n].rev # 0
       /\ kv[n].rev # 0 => log[kv[n].rev] = [name |-> n, op |-> kv[n].op]
       /\ \A s \in 1..seq : log[s].name = n => s <= kv[n].rev

\* What the log says of one name.
LEMMA LastMessage ==
  ASSUME LogInv, NEW n \in Names
  PROVE  /\ kv[n].rev \in Nat /\ kv[n].rev <= seq /\ seq \in Nat
         /\ Live(n) => kv[n].rev # 0
         /\ Live(n) => kv[n].rev \in 1..seq
         /\ kv[n].rev # 0 => log[kv[n].rev] = [name |-> n, op |-> kv[n].op]
         /\ kv[n].rev # 0 => log[kv[n].rev].name = n
         /\ \A s \in 1..seq : log[s].name = n => s <= kv[n].rev
<1>1. kv[n].rev \in Nat /\ seq \in Nat
  BY DEF LogInv, TypeInv, TypeOK, Entry
<1>. QED  BY <1>1 DEF LogInv

LEMMA LogInit == ReadsInit => LogInv
<1>. SUFFICES ASSUME ReadsInit PROVE LogInv
  OBVIOUS
<1>1. TypeInv
  BY TypeInit DEF ReadsInit
<1>2. kv = [n \in Names |-> NoEntry] /\ seq = 0 /\ log = <<>>
  BY DEF ReadsInit, Init, BucketInit
<1>. QED  BY <1>1, <1>2 DEF LogInv, NoEntry, Live

\* A step of the service lengthens the log by at most one message.
LEMMA LogGrows ==
  ASSUME LogInv, ServiceStep
  PROVE  /\ LogInv'
         /\ \/ UNCHANGED <<kv, seq, log>>
            \/ /\ seq' = seq + 1
               /\ \A s \in 1..seq : log'[s] = log[s]
               /\ \A n \in Names : kv'[n] = kv[n] \/ kv'[n].rev = seq + 1
<1>1. TypeInv /\ TypeInv'
  BY TypeStep DEF LogInv, ServiceStep
<1>2. CASE UNCHANGED <<kv, seq>>
  <2>1. log' = log
    BY <1>2 DEF ServiceStep
  <2>. QED  BY <1>1, <1>2, <2>1 DEF LogInv, Live
<1>3. CASE ~UNCHANGED <<kv, seq>>
  <2>1. seq \in Nat /\ kv \in [Names -> Entry(Lattice)]
    BY <1>1 DEF TypeInv, TypeOK
  <2>2. PICK n \in Names, e \in Entry(Lattice) :
          /\ seq' = seq + 1 /\ kv' = [kv EXCEPT ![n] = e]
          /\ e.rev = seq + 1 /\ e.op \in {"put", "delete"}
    BY <1>1, <1>3, OneMessage DEF ServiceStep
  <2>3. \A m \in Names : kv'[m] = IF m = n THEN e ELSE kv[m]
    BY <2>1, <2>2
  <2>4. \A m \in Names : kv[m].rev \in Nat /\ kv[m].rev <= seq
    BY <2>1 DEF LogInv, Entry
  <2>5. \A m \in Names : kv'[m].rev = seq' <=> m = n
    BY <2>1, <2>2, <2>3, <2>4
  <2>6. log' = Append(log, [name |-> n, op |-> e.op])
    <3>. DEFINE last == CHOOSE m \in Names : kv'[m].rev = seq'
    <3>1. last = n
      BY <2>5
    <3>2. log' = Append(log, [name |-> last, op |-> kv'[last].op])
      BY <2>1, <2>2 DEF ServiceStep
    <3>3. kv'[n].op = e.op
      BY <2>3
    <3>. HIDE DEF last
    <3>. QED  BY <3>1, <3>2, <3>3
  <2>7. [name |-> n, op |-> e.op] \in LogEntry
    BY <2>2 DEF LogEntry
  <2>8. /\ log' \in Seq(LogEntry) /\ Len(log') = seq'
        /\ \A s \in 1..seq : log'[s] = log[s]
        /\ log'[seq + 1] = [name |-> n, op |-> e.op]
    BY <2>1, <2>2, <2>6, <2>7 DEF LogInv
  <2>9. ASSUME NEW m \in Names
        PROVE  /\ kv'[m].rev <= seq'
               /\ Live(m)' => kv'[m].rev # 0
               /\ kv'[m].rev # 0 => log'[kv'[m].rev] = [name |-> m, op |-> kv'[m].op]
               /\ \A s \in 1..seq' : log'[s].name = m => s <= kv'[m].rev
    <3>1. kv[m].rev \in Nat
      BY <2>1 DEF Entry
    <3>2. CASE m = n
      BY <2>1, <2>2, <2>3, <2>8, <3>2
    <3>3. CASE m # n
      <4>1. kv'[m] = kv[m] /\ kv[m].rev <= seq
        BY <2>3, <3>3 DEF LogInv
      <4>2. Live(m)' <=> Live(m)
        BY <4>1 DEF Live
      <4>3. \A s \in 1..seq' : s \in 1..seq \/ s = seq + 1
        BY <2>1, <2>2
      <4>. QED  BY <2>1, <2>2, <2>8, <3>1, <3>3, <4>1, <4>2, <4>3 DEF LogInv
    <3>. QED  BY <3>2, <3>3
  <2>. QED  BY <1>1, <2>2, <2>3, <2>8, <2>9 DEF LogInv
<1>. QED  BY <1>2, <1>3

\* After the last message, the log shows what the bucket holds.
LEMMA LiveNow ==
  ASSUME LogInv, NEW n \in Names
  PROVE  LiveAt(n, seq) <=> Live(n)
<1>. DEFINE last == kv[n].rev
<1>1. last \in Nat /\ last <= seq /\ seq \in Nat
  BY LastMessage
<1>2. /\ \A s \in 1..seq : log[s].name = n => s <= last
      /\ Live(n) => last # 0
      /\ last # 0 => log[last] = [name |-> n, op |-> kv[n].op]
  BY LastMessage
<1>. HIDE DEF last
<1>3. ASSUME LiveAt(n, seq) PROVE Live(n)
  <2>1. PICK k \in 1..seq :
          log[k] = [name |-> n, op |-> "put"] /\ \A l \in k + 1 .. seq : log[l].name # n
    BY <1>3 DEF LiveAt
  <2>2. k <= last
    BY <1>2, <2>1
  <2>3. log[last].name = n /\ log[last].op = kv[n].op
    BY <1>1, <1>2, <2>2
  <2>4. last = k
    BY <1>1, <2>1, <2>2, <2>3
  <2>. QED  BY <2>1, <2>3, <2>4 DEF Live
<1>4. ASSUME Live(n) PROVE LiveAt(n, seq)
  <2>1. last \in 1..seq /\ log[last] = [name |-> n, op |-> "put"]
    BY <1>1, <1>4, <1>2 DEF Live
  <2>2. \A l \in last + 1 .. seq : log[l].name # n
    BY <1>1, <1>2
  <2>. QED  BY <2>1, <2>2 DEF LiveAt
<1>. QED  BY <1>3, <1>4

\* What was live at a revision stays so, whatever is written later.
LEMMA LiveStays ==
  ASSUME LogInv, NEW n, NEW t \in 0..seq,
         \A s \in 1..seq : log'[s] = log[s]
  PROVE  LiveAt(n, t)' <=> LiveAt(n, t)
<1>1. seq \in Nat
  BY DEF LogInv, TypeInv, TypeOK
<1>2. \A k \in 1..t : k \in 1..seq /\ \A l \in k + 1 .. t : l \in 1..seq
  BY <1>1
<1>. QED  BY <1>2 DEF LiveAt

-----------------------------------------------------------------------------
(* The calls that read *)

ReadTypes ==
  /\ read \in [Reads -> {"idle", "get", "list", "done", "failed"}]
  /\ wanted \in [Reads -> Seq(Names)]
  /\ since \in [Reads -> Nat]
  /\ cursor \in [Reads -> Nat]
  /\ answer \in [Reads -> Seq(Nat \cup Names)]

\* Every message of the k-th name that its answer misses came after the call
\* began and after what was read before it.
Causal(r, k) ==
  \A s \in 1..seq : log[s].name = wanted[r][k] /\ s > answer[r][k] =>
    s > since[r] /\ \A j \in 1 .. k - 1 : s > answer[r][j]

GetInv(r) ==
  read[r] = "get" \/ wanted[r] # <<>> =>
    /\ since[r] <= seq
    /\ Len(answer[r]) <= Len(wanted[r])
    /\ read[r] = "done" => Len(answer[r]) = Len(wanted[r])
    /\ \A k \in DOMAIN answer[r] : answer[r][k] \in 1..seq /\ Causal(r, k)

\* Since the call began.
OnceLive(r, n) == \E s \in since[r]..seq : LiveAt(n, s)
AlwaysLive(r, n) == \A s \in since[r]..seq : LiveAt(n, s)

\* What a list has not found yet, its consumer has still to deliver.
ListInv(r) ==
  read[r] = "list" =>
    /\ since[r] <= seq /\ cursor[r] <= seq
    /\ \A n \in Names :
         /\ n \in ToSet(answer[r]) => OnceLive(r, n)
         /\ AlwaysLive(r, n) => n \in ToSet(answer[r]) \/ kv[n].rev > cursor[r]

ReadInv(r) ==
  /\ read[r] = "idle" => wanted[r] = <<>> /\ answer[r] = <<>> /\ cursor[r] = 0
  /\ read[r] = "list" => wanted[r] = <<>>
  /\ GetInv(r) /\ ListInv(r)

ReadsInv == LogInv /\ ReadTypes /\ \A r \in Reads : ReadInv(r)

LEMMA ReadsInvInit == ReadsInit => ReadsInv
BY LogInit DEF ReadsInit, ReadsInv, ReadTypes, ReadInv, GetInv, ListInv

\* A call that does not move, while at most one message is added.
LEMMA OtherRead ==
  ASSUME ReadsInv, LogInv', NEW r \in Reads,
         read'[r] = read[r], wanted'[r] = wanted[r], since'[r] = since[r],
         cursor'[r] = cursor[r], answer'[r] = answer[r],
         \/ UNCHANGED <<kv, seq, log>>
         \/ /\ seq' = seq + 1
            /\ \A s \in 1..seq : log'[s] = log[s]
            /\ \A n \in Names : kv'[n] = kv[n] \/ kv'[n].rev = seq + 1
  PROVE  ReadInv(r)'
<1>1. /\ seq \in Nat /\ since[r] \in Nat /\ cursor[r] \in Nat
      /\ answer[r] \in Seq(Nat \cup Names) /\ wanted[r] \in Seq(Names)
  BY DEF ReadsInv, ReadTypes, LogInv, TypeInv, TypeOK
<1>2. CASE UNCHANGED <<kv, seq, log>>
  <2>1. GetInv(r)'
    BY <1>2 DEF ReadsInv, ReadInv, GetInv, Causal
  <2>2. ListInv(r)'
    <3>1. \A n : (OnceLive(r, n)' <=> OnceLive(r, n)) /\ (AlwaysLive(r, n)' <=> AlwaysLive(r, n))
      BY <1>2 DEF OnceLive, AlwaysLive, LiveAt
    <3>2. ListInv(r) /\ ToSet(answer'[r]) = ToSet(answer[r])
      BY DEF ReadsInv, ReadInv
    <3>. QED  BY <1>2, <3>1, <3>2 DEF ListInv
  <2>. QED  BY <2>1, <2>2 DEF ReadsInv, ReadInv
<1>3. CASE ~UNCHANGED <<kv, seq, log>>
  <2>1. /\ seq' = seq + 1
        /\ \A s \in 1..seq : log'[s] = log[s]
        /\ \A n \in Names : kv'[n] = kv[n] \/ kv'[n].rev = seq + 1
    BY <1>3
  <2>2. GetInv(r)'
    <3>. SUFFICES ASSUME read[r] = "get" \/ wanted[r] # <<>>
                  PROVE  GetInv(r)'
      BY DEF GetInv
    <3>1. /\ since[r] <= seq /\ Len(answer[r]) <= Len(wanted[r])
          /\ read[r] = "done" => Len(answer[r]) = Len(wanted[r])
          /\ \A k \in DOMAIN answer[r] : answer[r][k] \in 1..seq /\ Causal(r, k)
      BY DEF ReadsInv, ReadInv, GetInv
    <3>2. ASSUME NEW k \in DOMAIN answer[r] PROVE Causal(r, k)'
      <4>1. \A j \in 1 .. k - 1 : j \in DOMAIN answer[r]
        BY <1>1
      <4>2. \A s \in 1..seq' : s \in 1..seq \/ s = seq + 1
        BY <1>1, <2>1
      <4>. QED  BY <1>1, <2>1, <3>1, <4>1, <4>2 DEF Causal
    <3>. QED  BY <1>1, <2>1, <3>1, <3>2 DEF GetInv
  <2>3. ListInv(r)'
    <3>. SUFFICES ASSUME read[r] = "list" PROVE ListInv(r)'
      BY DEF ListInv
    <3>1. /\ since[r] <= seq /\ cursor[r] <= seq
          /\ \A n \in Names :
               /\ n \in ToSet(answer[r]) => OnceLive(r, n)
               /\ AlwaysLive(r, n) => n \in ToSet(answer[r]) \/ kv[n].rev > cursor[r]
      BY DEF ReadsInv, ReadInv, ListInv
    <3>2. ASSUME NEW n \in Names
          PROVE  (OnceLive(r, n) => OnceLive(r, n)') /\ (AlwaysLive(r, n)' => AlwaysLive(r, n))
      <4>1. \A t \in since[r]..seq : t \in 0..seq /\ t \in since[r]..seq'
        BY <1>1, <2>1
      <4>2. \A t \in since[r]..seq : LiveAt(n, t)' <=> LiveAt(n, t)
        BY <2>1, <4>1, LiveStays DEF ReadsInv
      <4>. QED  BY <4>1, <4>2 DEF OnceLive, AlwaysLive
    <3>3. \A n \in Names : kv[n].rev > cursor[r] => kv'[n].rev > cursor[r]
      BY <1>1, <2>1, <3>1
    <3>. QED  BY <1>1, <2>1, <3>1, <3>2, <3>3 DEF ListInv, ToSet
  <2>. QED  BY <2>2, <2>3 DEF ReadsInv, ReadInv
<1>. QED  BY <1>2, <1>3

\* A call that reads moves: the others and the bucket stay.
LEMMA OneReadMoves ==
  ASSUME ReadsInv, NEW r \in Reads, UNCHANGED <<vars, log>>,
         ReadTypes', ReadInv(r)',
         \A q \in Reads \ {r} :
           /\ read'[q] = read[q] /\ wanted'[q] = wanted[q] /\ since'[q] = since[q]
           /\ cursor'[q] = cursor[q] /\ answer'[q] = answer[q]
  PROVE  ReadsInv'
<1>1. LogInv'
  <2>1. TypeInv'
    BY TypeStutter DEF ReadsInv, LogInv
  <2>. QED  BY <2>1 DEF ReadsInv, LogInv, vars, Live
<1>2. UNCHANGED <<kv, seq, log>>
  BY DEF vars
<1>3. ASSUME NEW q \in Reads, q # r PROVE ReadInv(q)'
  BY <1>1, <1>2, <1>3, OtherRead
<1>. QED  BY <1>1, <1>3 DEF ReadsInv

LEMMA BeginStep ==
  ASSUME ReadsInv, NEW r \in Reads,
         (\E names \in GetRequests : GetBegin(r, names)) \/ ListBegin(r)
  PROVE  ReadsInv'
<1>. USE DEF ReadStep
<1>1. seq \in Nat /\ ReadTypes /\ ReadInv(r)
  BY DEF ReadsInv, LogInv, TypeInv, TypeOK
<1>2. ASSUME NEW names \in GetRequests, GetBegin(r, names) PROVE ReadsInv'
  <2>1. names \in Seq(Names)
    BY ReadsAssumption
  <2>2. ReadTypes'
    BY <1>1, <1>2, <2>1 DEF GetBegin, ReadTypes
  <2>3. /\ read'[r] = "get" /\ answer'[r] = <<>> /\ since'[r] = seq /\ wanted'[r] = names
        /\ seq' = seq
    BY <1>1, <1>2 DEF GetBegin, ReadTypes, ReadInv, vars
  <2>4. ReadInv(r)'
    BY <1>1, <2>1, <2>3 DEF ReadInv, GetInv, ListInv
  <2>. QED  BY <1>1, <1>2, <2>2, <2>4, OneReadMoves DEF GetBegin, ReadTypes
<1>3. ASSUME ListBegin(r) PROVE ReadsInv'
  <2>1. ReadTypes'
    BY <1>1, <1>3 DEF ListBegin, ReadTypes, AfterKey
  <2>2. /\ read'[r] \in {"list", "done"} /\ answer'[r] = <<>> /\ wanted'[r] = <<>>
        /\ since'[r] = seq /\ cursor'[r] = 0 /\ UNCHANGED <<kv, seq, log>>
    BY <1>1, <1>3 DEF ListBegin, ReadTypes, ReadInv, AfterKey, vars
  <2>3. ToSet(answer'[r]) = {}
    BY <2>2 DEF ToSet
  <2>4. ASSUME NEW n \in Names, AlwaysLive(r, n)' PROVE kv[n].rev > 0
    <3>1. LiveAt(n, seq)
      BY <1>1, <2>2, <2>4 DEF AlwaysLive, LiveAt
    <3>2. Live(n)
      BY <2>4, <3>1, LiveNow DEF ReadsInv
    <3>3. kv[n].rev \in 1..seq
      BY <2>4, <3>2, LastMessage, Zenon DEF ReadsInv
    <3>. QED  BY <1>1, <3>3
  <2>5. ListInv(r)'
    BY <1>1, <2>2, <2>3, <2>4 DEF ListInv
  <2>6. ReadInv(r)'
    BY <2>2, <2>5 DEF ReadInv, GetInv
  <2>. QED  BY <1>1, <1>3, <2>1, <2>6, OneReadMoves DEF ListBegin, ReadTypes
<1>. QED  BY <1>2, <1>3

LEMMA GetStep ==
  ASSUME ReadsInv, NEW r \in Reads,
         GetNext(r) \/ GetMissing(r) \/ GetEnds(r) \/ ReadFails(r)
  PROVE  ReadsInv'
<1>1. seq \in Nat /\ ReadTypes /\ ReadInv(r)
  BY DEF ReadsInv, LogInv, TypeInv, TypeOK
<1>2. ASSUME GetNext(r) PROVE ReadsInv'
  <2>. DEFINE n == NextWanted(r)  k == Len(answer[r]) + 1
  <2>1. /\ read[r] = "get" /\ Len(answer[r]) < Len(wanted[r]) /\ Live(n)
        /\ answer' = [answer EXCEPT ![r] = Append(answer[r], kv[n].rev)]
        /\ UNCHANGED <<vars, log, read, wanted, since, cursor>>
    BY <1>2 DEF GetNext, Answer
  <2>2. /\ answer[r] \in Seq(Nat \cup Names) /\ wanted[r] \in Seq(Names)
        /\ k \in DOMAIN wanted[r] /\ n = wanted[r][k] /\ n \in Names
    BY <1>1, <2>1 DEF ReadTypes, NextWanted
  <2>3. kv[n].rev \in 1..seq /\ \A s \in 1..seq : log[s].name = n => s <= kv[n].rev
    <3>1. LogInv
      BY DEF ReadsInv
    <3>. QED  BY <2>1, <2>2, <3>1, LastMessage, Zenon
  <2>. HIDE DEF n
  <2>4. /\ answer'[r] \in Seq(Nat \cup Names)
        /\ Len(answer'[r]) = k /\ DOMAIN answer'[r] = 1..k
        /\ \A j \in DOMAIN answer[r] : j \in 1 .. k - 1 /\ answer'[r][j] = answer[r][j]
        /\ answer'[r][k] = kv[n].rev
    BY <1>1, <2>1, <2>2, <2>3 DEF ReadTypes
  <2>5. /\ since[r] <= seq
        /\ \A j \in DOMAIN answer[r] : answer[r][j] \in 1..seq /\ Causal(r, j)
    BY <1>1, <2>1 DEF ReadInv, GetInv
  <2>6. UNCHANGED <<seq, log, read, wanted, since>>
    BY <2>1 DEF vars
  <2>7. ASSUME NEW j \in 1..k PROVE answer'[r][j] \in 1..seq /\ Causal(r, j)'
    <3>1. CASE j = k
      BY <2>2, <2>3, <2>4, <2>6, <3>1 DEF Causal
    <3>2. CASE j # k
      <4>1. j \in DOMAIN answer[r] /\ \A i \in 1 .. j - 1 : i \in DOMAIN answer[r]
        BY <2>2, <3>2
      <4>. QED  BY <2>4, <2>5, <2>6, <4>1 DEF Causal
    <3>. QED  BY <3>1, <3>2
  <2>8. GetInv(r)'
    BY <1>1, <2>1, <2>2, <2>4, <2>5, <2>6, <2>7 DEF GetInv
  <2>9. ReadTypes'
    BY <1>1, <2>1, <2>4 DEF ReadTypes
  <2>10. ReadInv(r)'
    BY <2>1, <2>6, <2>8 DEF ReadInv, ListInv
  <2>. QED  BY <1>1, <2>1, <2>9, <2>10, OneReadMoves DEF ReadTypes
<1>3. ASSUME GetMissing(r) \/ GetEnds(r) \/ ReadFails(r) PROVE ReadsInv'
  <2>1. /\ read[r] \in {"get", "list"} /\ read'[r] \in {"failed", "done"}
        /\ read'[r] = "done" => read[r] = "get" /\ Len(answer[r]) = Len(wanted[r])
        /\ UNCHANGED <<vars, log, wanted, since, cursor, answer>>
        /\ \A q \in Reads \ {r} : read'[q] = read[q]
    BY <1>1, <1>3 DEF GetMissing, GetEnds, ReadFails, ReadStep, ReadTypes
  <2>2. ReadTypes'
    BY <1>1, <1>3 DEF GetMissing, GetEnds, ReadFails, ReadStep, ReadTypes
  <2>3. GetInv(r)'
    <3>1. \A k : Causal(r, k)' <=> Causal(r, k)
      BY <2>1 DEF Causal, vars
    <3>. QED  BY <1>1, <2>1, <3>1 DEF ReadInv, GetInv, vars
  <2>4. ReadInv(r)'
    BY <2>1, <2>3 DEF ReadInv, ListInv
  <2>. QED  BY <2>1, <2>2, <2>4, OneReadMoves
<1>. QED  BY <1>2, <1>3

\* A list takes the oldest message its consumer has still to deliver.
LEMMA ListNextFinds ==
  ASSUME ReadsInv, NEW r \in Reads, NEW n \in Names, ListNext(r, n), NEW m \in Names
  PROVE  /\ m \in ToSet(answer'[r]) => OnceLive(r, m)
         /\ AlwaysLive(r, m) => m \in ToSet(answer'[r]) \/ kv[m].rev > kv[n].rev
<1>1. /\ seq \in Nat /\ since[r] \in Nat /\ answer \in [Reads -> Seq(Nat \cup Names)]
      /\ ListInv(r) /\ LogInv /\ cursor[r] \in Nat
  BY DEF ReadsInv, ReadTypes, ReadInv, LogInv, TypeInv, TypeOK
<1>2. /\ \A q \in Names : kv[q].rev \in Nat /\ kv[q].rev <= seq
      /\ \A p, q \in Names : kv[p].rev # 0 /\ kv[p].rev = kv[q].rev => p = q
  <2>1. \A q \in Names : kv[q].rev \in Nat /\ kv[q].rev <= seq
    BY <1>1, LastMessage
  <2>2. \A q \in Names : kv[q].rev # 0 => log[kv[q].rev].name = q
    BY <1>1, LastMessage, Zenon
  <2>. QED  BY <2>1, <2>2
<1>3. /\ read[r] = "list" /\ kv[n].rev > cursor[r]
      /\ \A q \in Names : kv[q].rev > cursor[r] => kv[n].rev <= kv[q].rev
  BY DEF ListNext, Pending, ReadStep
<1>4. /\ Live(n) => ToSet(answer'[r]) = ToSet(answer[r]) \cup {n}
      /\ ~Live(n) => answer' = answer
  <2>1. Live(n) => answer'[r] = Append(answer[r], n)
    BY <1>1 DEF ListNext, Answer
  <2>2. /\ DOMAIN Append(answer[r], n) = DOMAIN answer[r] \cup {Len(answer[r]) + 1}
        /\ \A k \in DOMAIN answer[r] : Append(answer[r], n)[k] = answer[r][k]
        /\ Append(answer[r], n)[Len(answer[r]) + 1] = n
    BY <1>1
  <2>3. ToSet(Append(answer[r], n)) = ToSet(answer[r]) \cup {n}
    BY <2>2 DEF ToSet
  <2>. QED  BY <2>1, <2>3 DEF ListNext
<1>5. /\ since[r] <= seq
      /\ m \in ToSet(answer[r]) => OnceLive(r, m)
      /\ AlwaysLive(r, m) => m \in ToSet(answer[r]) \/ kv[m].rev > cursor[r]
  BY <1>1, <1>3 DEF ListInv
<1>6. /\ Live(m) => OnceLive(r, m)
      /\ AlwaysLive(r, m) => Live(m)
  BY <1>1, <1>5, LiveNow DEF OnceLive, AlwaysLive
<1>7. m \in ToSet(answer'[r]) => OnceLive(r, m)
  BY <1>4, <1>5, <1>6
<1>8. ASSUME AlwaysLive(r, m), m \notin ToSet(answer'[r]) PROVE kv[m].rev > kv[n].rev
  <2>1. m \notin ToSet(answer[r]) /\ m # n
    BY <1>4, <1>6, <1>8
  <2>2. kv[n].rev <= kv[m].rev /\ kv[n].rev # 0
    BY <1>1, <1>2, <1>3, <1>5, <1>8, <2>1
  <2>. QED  BY <1>2, <2>1, <2>2
<1>. QED  BY <1>7, <1>8

LEMMA ListStep ==
  ASSUME ReadsInv, NEW r \in Reads, NEW n \in Names, ListNext(r, n)
  PROVE  ReadsInv'
<1>1. /\ seq \in Nat /\ ReadTypes /\ ReadInv(r) /\ kv[n].rev \in Nat /\ kv[n].rev <= seq
  BY LastMessage DEF ReadsInv
<1>2. /\ read[r] = "list" /\ read' = [read EXCEPT ![r] = AfterKey(Pending(r) \ {n})]
      /\ cursor' = [cursor EXCEPT ![r] = kv[n].rev]
      /\ answer' = answer \/ answer' = [answer EXCEPT ![r] = Append(answer[r], n)]
      /\ UNCHANGED <<vars, log, wanted, since>>
  BY DEF ListNext, ReadStep, Answer
<1>3. ReadTypes'
  <2>1. answer[r] \in Seq(Nat \cup Names) /\ Append(answer[r], n) \in Seq(Nat \cup Names)
    BY <1>1 DEF ReadTypes
  <2>2. answer' \in [Reads -> Seq(Nat \cup Names)]
    BY <1>1, <1>2, <2>1 DEF ReadTypes
  <2>. QED  BY <1>1, <1>2, <2>2 DEF ReadTypes, AfterKey
<1>4. /\ read'[r] \in {"list", "done"} /\ wanted'[r] = <<>> /\ cursor'[r] = kv[n].rev
      /\ since'[r] = since[r] /\ UNCHANGED <<kv, seq, log>> /\ since[r] <= seq
  BY <1>1, <1>2 DEF ReadTypes, AfterKey, ReadInv, ListInv, vars
<1>5. \A m : (OnceLive(r, m)' <=> OnceLive(r, m)) /\ (AlwaysLive(r, m)' <=> AlwaysLive(r, m))
  BY <1>4 DEF OnceLive, AlwaysLive, LiveAt
<1>6. ListInv(r)'
  BY <1>1, <1>4, <1>5, ListNextFinds DEF ListInv
<1>7. ReadInv(r)'
  BY <1>4, <1>6 DEF ReadInv, GetInv
<1>8. \A q \in Reads \ {r} :
        /\ read'[q] = read[q] /\ cursor'[q] = cursor[q] /\ answer'[q] = answer[q]
        /\ wanted'[q] = wanted[q] /\ since'[q] = since[q]
  BY <1>1, <1>2 DEF ReadTypes
<1>. QED  BY <1>2, <1>3, <1>7, <1>8, OneReadMoves

LEMMA ReadsInvStep == ReadsInv /\ [ReadsNext]_allVars => ReadsInv'
<1>. SUFFICES ASSUME ReadsInv, [ReadsNext]_allVars PROVE ReadsInv'
  OBVIOUS
<1>1. CASE ServiceStep
  <2>1. /\ LogInv'
        /\ \/ UNCHANGED <<kv, seq, log>>
           \/ /\ seq' = seq + 1
              /\ \A s \in 1..seq : log'[s] = log[s]
              /\ \A n \in Names : kv'[n] = kv[n] \/ kv'[n].rev = seq + 1
    BY <1>1, LogGrows DEF ReadsInv
  <2>2. UNCHANGED readVars
    BY <1>1 DEF ServiceStep
  <2>3. ASSUME NEW r \in Reads PROVE ReadInv(r)'
    BY <2>1, <2>2, OtherRead DEF readVars
  <2>. QED  BY <2>1, <2>2, <2>3 DEF ReadsInv, ReadTypes, readVars
<1>2. ASSUME NEW r \in Reads, Reading(r) PROVE ReadsInv'
  BY <1>2, BeginStep, GetStep, ListStep DEF Reading
<1>3. CASE UNCHANGED allVars
  <2>1. LogInv'
    <3>1. TypeInv'
      BY <1>3, TypeStutter DEF ReadsInv, LogInv, allVars
    <3>. QED  BY <1>3, <3>1 DEF ReadsInv, LogInv, allVars, vars, Live
  <2>2. ASSUME NEW r \in Reads PROVE ReadInv(r)'
    BY <1>3, <2>1, OtherRead DEF allVars, vars, readVars
  <2>. QED  BY <1>3, <2>1, <2>2 DEF ReadsInv, ReadTypes, allVars, readVars
<1>. QED  BY <1>1, <1>2, <1>3 DEF ReadsNext

\* The invariant holds in every reachable state.
THEOREM ReadsInvariance == ReadsSpec => []ReadsInv
BY ReadsInvInit, ReadsInvStep, PTL DEF ReadsSpec

\* A get of any names, in any order, beside any number of writing calls that
\* fail and die, never misses a write to a name while it shows a later one to a
\* name before it: get_lattices reads the names in the order of the request.
THEOREM GetCorrect == ReadsSpec => []GetIsCausal
<1>1. ReadsInv => GetIsCausal
  <2>. SUFFICES ASSUME ReadsInv, NEW r \in Reads, read[r] = "done",
                       NEW k \in DOMAIN wanted[r], NEW s \in DOMAIN log,
                       log[s].name = wanted[r][k], s > answer[r][k]
                PROVE  s > since[r] /\ \A j \in 1 .. k - 1 : s > answer[r][j]
    BY DEF GetIsCausal
  <2>1. wanted[r] \in Seq(Names) /\ answer[r] \in Seq(Nat \cup Names) /\ GetInv(r)
    BY DEF ReadsInv, ReadTypes, ReadInv
  <2>2. wanted[r] # <<>>
    BY <2>1
  <2>3. Len(answer[r]) = Len(wanted[r]) /\ \A i \in DOMAIN answer[r] : Causal(r, i)
    BY <2>1, <2>2 DEF GetInv
  <2>4. k \in DOMAIN answer[r]
    BY <2>1, <2>3
  <2>5. s \in 1..seq
    BY DEF ReadsInv, LogInv
  <2>. QED  BY <2>3, <2>4, <2>5 DEF Causal
<1>. QED  BY <1>1, ReadsInvariance, PTL

\* A list names every lattice that was there while it was made, and only what
\* was there at some time of it, although the consumer behind keys() meets
\* keys that are written, deleted and added again.
THEOREM ListCorrect == ReadsSpec => ListIsAccurate
<1>. DEFINE Accurate(r) ==
       read[r] = "list" /\ read'[r] = "done" =>
         \A n \in Names :
           /\ (\A s \in since[r]..seq : LiveAt(n, s)) => n \in ToSet(answer'[r])
           /\ n \in ToSet(answer'[r]) => \E s \in since[r]..seq : LiveAt(n, s)
<1>1. ASSUME ReadsInv, [ReadsNext]_allVars, NEW r \in Reads PROVE Accurate(r)
  <2>. SUFFICES ASSUME read[r] = "list", read'[r] = "done", NEW m \in Names
                PROVE  /\ AlwaysLive(r, m) => m \in ToSet(answer'[r])
                       /\ m \in ToSet(answer'[r]) => OnceLive(r, m)
    BY DEF AlwaysLive, OnceLive
  <2>1. PICK q \in Reads : Reading(q)
    BY <1>1 DEF ReadsNext, ServiceStep, readVars, allVars
  <2>2. PICK n \in Names : ListNext(r, n)
    BY <1>1, <2>1 DEF Reading, GetBegin, GetNext, GetMissing, GetEnds, ListBegin, ListNext,
                      ReadFails, ReadStep, ReadsInv, ReadTypes
  <2>3. Pending(r) \ {n} = {}
    BY <1>1, <2>2 DEF ListNext, ReadStep, AfterKey, ReadsInv, ReadTypes
  <2>4. \A p \in Names : kv[p].rev \in Nat
    BY <1>1 DEF ReadsInv, LogInv, TypeInv, TypeOK, Entry
  <2>5. kv[n].rev > cursor[r] /\ cursor[r] \in Nat
    BY <1>1, <2>2 DEF ListNext, Pending, ReadsInv, ReadTypes
  <2>6. ~(kv[m].rev > kv[n].rev)
    BY <2>3, <2>4, <2>5 DEF Pending
  <2>. QED  BY <1>1, <2>2, <2>6, ListNextFinds
<1>2. ReadsInv /\ [ReadsNext]_allVars => [\A r \in Reads : Accurate(r)]_allVars
  BY <1>1
<1>. QED  BY <1>2, ReadsInvariance, PTL DEF ReadsSpec, ListIsAccurate

-----------------------------------------------------------------------------
(* The calls that read, and the calls that write *)

\* get_lattices and list_lattices change nothing that the other handlers look at:
\* with any number of them running, add_lattices, update_lattices and
\* delete_lattices do what they do alone, so that every theorem about
\* LatticeService holds of the two together.
THEOREM ReadsWriteNothing == ReadsSpec => Spec
<1>1. ReadsInit => Init
  BY DEF ReadsInit
<1>2. ASSUME NEW r \in Reads, Reading(r)
      PROVE  UNCHANGED vars
  <2>1. CASE \E names \in GetRequests : GetBegin(r, names)
    BY <2>1 DEF GetBegin
  <2>2. CASE GetNext(r) \/ GetMissing(r) \/ GetEnds(r)
    BY <2>2 DEF GetNext, GetMissing, GetEnds
  <2>3. CASE ListBegin(r) \/ \E n \in Names : ListNext(r, n)
    BY <2>3 DEF ListBegin, ListNext
  <2>4. CASE ReadFails(r)
    BY <2>4 DEF ReadFails
  <2>. QED  BY <1>2, <2>1, <2>2, <2>3, <2>4 DEF Reading
<1>3. [ReadsNext]_allVars => [Next]_vars
  BY <1>2 DEF ReadsNext, ServiceStep, allVars
<1>. QED  BY <1>1, <1>3, PTL DEF ReadsSpec, Spec

\* With calls that read beside them too, the calls that write take every lattice
\* through the lifecycle of LatticeLifecycle and no other way.
THEOREM LifecycleWithReads == ReadsSpec => FollowsLifecycle
BY ReadsWriteNothing, LifecycleCorrect

===============================================================================
