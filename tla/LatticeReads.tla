---------------------------- MODULE LatticeReads ----------------------------
(***************************************************************************)
(* get_lattices and list_lattices of src/src/lattice_wrpc.rs, beside the   *)
(* calls of LatticeService that write.                                     *)
(*                                                                         *)
(* Neither is a snapshot: a get of several names reads them one after the  *)
(* other, and a list consumes the messages of the bucket in the order of   *)
(* their revisions until none is pending, while others write.  `log`       *)
(* records every message of the bucket, so that what an answer says can be *)
(* compared with what was true while the call ran.                         *)
(***************************************************************************)
EXTENDS LatticeService, Sequences, SequencesExt

CONSTANTS
  Reads,        \* the calls that read
  GetRequests   \* the lists of names a get may ask for

ASSUME ReadsAssumption == GetRequests \subseteq Seq(Names)

VARIABLES
  log,      \* history: log[s] is the message with revision s
  read,     \* read[r]: where call r is
  wanted,   \* wanted[r]: the names a get asked for
  since,    \* since[r]: the last revision when r began
  cursor,   \* cursor[r]: the last revision a list has consumed
  answer    \* answer[r]: the handler's local `lattices`

readVars == <<read, wanted, since, cursor, answer>>
allVars == <<vars, log, readVars>>

ReadsInit ==
  /\ Init
  /\ log = <<>>
  /\ read = [r \in Reads |-> "idle"]
  /\ wanted = [r \in Reads |-> <<>>]
  /\ since = [r \in Reads |-> 0]
  /\ cursor = [r \in Reads |-> 0]
  /\ answer = [r \in Reads |-> <<>>]

\* A step of a writing call: at most one message is added.
ServiceStep ==
  /\ Next
  /\ log' = IF seq' = seq THEN log
            ELSE LET n == CHOOSE n \in Names : kv'[n].rev = seq'
                 IN  Append(log, [name |-> n, op |-> kv'[n].op])
  /\ UNCHANGED readVars

ReadStep(r, from, to) ==
  /\ read[r] = from
  /\ read' = [read EXCEPT ![r] = to]

Answer(r, x) == answer' = [answer EXCEPT ![r] = Append(@, x)]

-----------------------------------------------------------------------------
(* get_lattices *)

GetBegin(r, names) ==
  /\ ReadStep(r, "idle", "get")
  /\ wanted' = [wanted EXCEPT ![r] = names]
  /\ since' = [since EXCEPT ![r] = seq]
  /\ UNCHANGED <<vars, log, cursor, answer>>

\* The next name that was asked for and not read.
NextWanted(r) == wanted[r][Len(answer[r]) + 1]

\* Variant: the names are read from the last to the first.
GetNext_Backwards(r) ==
  LET n == wanted[r][Len(wanted[r]) - Len(answer[r])] IN
  /\ read[r] = "get"
  /\ Len(answer[r]) < Len(wanted[r])
  /\ Live(n)
  /\ answer' = [answer EXCEPT ![r] = <<kv[n].rev>> \o @]
  /\ UNCHANGED <<vars, log, read, wanted, since, cursor>>

\* The handler keeps the record it finds, here its revision.
GetNext(r) ==
  /\ read[r] = "get"
  /\ Len(answer[r]) < Len(wanted[r])
  /\ Live(NextWanted(r))
  /\ Answer(r, kv[NextWanted(r)].rev)
  /\ UNCHANGED <<vars, log, read, wanted, since, cursor>>

GetMissing(r) ==
  /\ ReadStep(r, "get", "failed")
  /\ Len(answer[r]) < Len(wanted[r])
  /\ ~Live(NextWanted(r))
  /\ UNCHANGED <<vars, log, wanted, since, cursor, answer>>

GetEnds(r) ==
  /\ ReadStep(r, "get", "done")
  /\ Len(answer[r]) = Len(wanted[r])
  /\ UNCHANGED <<vars, log, wanted, since, cursor, answer>>

-----------------------------------------------------------------------------
(* list_lattices *)

\* bucket.keys() is an ordered consumer of the last message of every key, which
\* ends when a message says that none is pending behind it, or at once when there
\* is none.
Pending(r) == {n \in Names : kv[n].rev > cursor[r]}

AfterKey(behind) == IF behind = {} THEN "done" ELSE "list"

ListBegin(r) ==
  /\ ReadStep(r, "idle", AfterKey(Pending(r)))
  /\ since' = [since EXCEPT ![r] = seq]
  /\ UNCHANGED <<vars, log, wanted, cursor, answer>>

\* The message of key n is the next by its revision; the key is kept unless the
\* message is a delete marker.
ListNext(r, n) ==
  /\ n \in Pending(r)
  /\ \A m \in Pending(r) : kv[n].rev <= kv[m].rev
  /\ ReadStep(r, "list", AfterKey(Pending(r) \ {n}))
  /\ cursor' = [cursor EXCEPT ![r] = kv[n].rev]
  /\ IF Live(n) THEN Answer(r, n) ELSE UNCHANGED answer
  /\ UNCHANGED <<vars, log, wanted, since>>

\* Variant: a list that meets an error answers with what it has.
ReadFails_Answers(r) ==
  /\ read[r] \in {"get", "list"}
  /\ read' = [read EXCEPT ![r] = IF @ = "list" THEN "done" ELSE "failed"]
  /\ UNCHANGED <<vars, log, wanted, since, cursor, answer>>

\* A read of the bucket fails, or the instance dies.
ReadFails(r) ==
  /\ read[r] \in {"get", "list"}
  /\ read' = [read EXCEPT ![r] = "failed"]
  /\ UNCHANGED <<vars, log, wanted, since, cursor, answer>>

Reading(r) ==
  \/ \E names \in GetRequests : GetBegin(r, names)
  \/ GetNext(r) \/ GetMissing(r) \/ GetEnds(r)
  \/ ListBegin(r) \/ \E n \in Names : ListNext(r, n)
  \/ ReadFails(r)

ReadsNext == ServiceStep \/ \E r \in Reads : Reading(r)

ReadsSpec == ReadsInit /\ [][ReadsNext]_allVars

\* The handlers that write are as fair as in LatticeService.
ReadsFairSpec ==
  ReadsSpec /\ \A o \in Ops : WF_allVars(Advance(o) /\ ServiceStep)

-----------------------------------------------------------------------------
\* Was name n live when s was the last revision?
LiveAt(n, s) ==
  \E k \in 1..s :
    /\ log[k] = [name |-> n, op |-> "put"]
    /\ \A l \in k + 1 .. s : log[l].name # n

\* What a get says of a name was its state when the call began or later, and
\* when it read the names before: an answer never shows the effect of a write
\* and misses an older write to a name that comes after it in the list.
GetIsCausal ==
  \A r \in Reads : read[r] = "done" =>
    \A k \in DOMAIN wanted[r] :
      LET shown == {since[r]} \cup {answer[r][j] : j \in 1 .. k - 1}
      IN  \A s \in DOMAIN log :
            log[s].name = wanted[r][k] /\ s > answer[r][k] => \A t \in shown : s > t

\* A list that is answered names every lattice that was there all the time, and
\* none that was not there at any time, between the call and its answer.
ListIsAccurate ==
  [][\A r \in Reads :
       read[r] = "list" /\ read'[r] = "done" =>
         \A n \in Names :
           /\ (\A s \in since[r]..seq : LiveAt(n, s)) => n \in ToSet(answer'[r])
           /\ n \in ToSet(answer'[r]) => \E s \in since[r]..seq : LiveAt(n, s)]_allVars

=============================================================================
