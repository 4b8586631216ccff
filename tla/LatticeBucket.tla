---------------------------- MODULE LatticeBucket ----------------------------
(***************************************************************************)
(* The JetStream key-value bucket WASMCLOUD_LATTICES, which the Lattice    *)
(* service shares with every other instance of itself.  The server is      *)
(* external: it is modelled from the calls the code makes (get, put,       *)
(* update, delete, keys).  The bucket is created with the default history  *)
(* of 1, so only the last message of a key is retained; a delete is a      *)
(* message too (the delete marker), and every message takes the next       *)
(* revision of the stream, whatever its key.                               *)
(***************************************************************************)
EXTENDS Integers

CONSTANTS
  Names,    \* the keys: lattice names
  Nothing   \* the empty Option

ASSUME NothingIsNoName == Nothing \notin Names

VARIABLES
  kv,       \* kv[n]: the message the stream retains for key n
  seq       \* the last revision the stream has given out

bucketVars == <<kv, seq>>

Entry(Values) ==
  [rev: Nat, op: {"none", "put", "delete"}, val: Values \cup {Nothing}]

NoEntry == [rev |-> 0, op |-> "none", val |-> Nothing]

BucketInit ==
  /\ kv = [n \in Names |-> NoEntry]
  /\ seq = 0

\* get answers None both for a key never written and for a delete marker.
Live(n) == kv[n].op = "put"
Get(n) == kv[n].val

Message(op, v) == [rev |-> seq + 1, op |-> op, val |-> v]

\* put: whatever the key held is replaced.
Put(n, v) ==
  /\ seq' = seq + 1
  /\ kv' = [kv EXCEPT ![n] = Message("put", v)]

\* update: a put that the server refuses unless the key's last message, marker
\* or not, is the one with revision r.
Matches(n, r) == kv[n].rev = r

\* delete: appends a marker, also to a key that has nothing to delete.
Delete(n) ==
  /\ seq' = seq + 1
  /\ kv' = [kv EXCEPT ![n] = Message("delete", Nothing)]

=============================================================================
