----------------------------- MODULE AuthCallout -----------------------------
(***************************************************************************)
(* One AuthCallout service (src/src/auth.rs): a loop that takes the        *)
(* authorization requests of NATS servers one at a time, asks the          *)
(* authorizer component for a decision and answers with a signed user JWT  *)
(* or an error.  The host callout and the user callout are two independent *)
(* instances.  One step is one await of the loop and what the code does    *)
(* until the next one.                                                     *)
(*                                                                         *)
(* A request is abstracted to how its payload is wrapped and to what it    *)
(* holds.  The component is external: it allows, denies, fails or never    *)
(* returns.                                                                *)
(***************************************************************************)
EXTENDS Naturals, Sequences

CONSTANTS
  Ids,            \* the requests of a run
  Shapes,         \* the shapes a request may have
  Nothing

\* headers absent / present without an xkey / payload sealed to the service /
\* a header that is no xkey / a payload the service's key does not open
Envelopes == {"bare", "plain", "sealed", "badKey", "unopenable"}
\* a JWT of a request / text that is none / not even UTF-8
Bodies == {"jwt", "garbage", "binary"}

ASSUME ShapesAssumption == Shapes \subseteq [envelope: Envelopes, body: Bodies]
Answers == {"allowed", "denied", "decodeError", "componentError", "signError"}

ASSUME NothingAssumption == Nothing \notin Ids /\ Nothing \notin Shapes /\ Nothing \notin Answers

VARIABLES
  component, \* was an authorizer component loaded at the start?
  shape,    \* shape[i]: the shape of request i, Nothing before it is sent
  queue,    \* requests the endpoint's subscription holds
  pc,       \* where the loop is
  cur,      \* the request being handled
  answer,   \* the answer being sent
  replies,  \* replies[i]: what was published to the server that sent i
  handled,  \* history: the requests the loop is done with
  asked,    \* history: asked[i] is the component's verdict on i
  dropped   \* history: requests whose answer could not be published

vars == <<component, shape, queue, pc, cur, answer, replies, handled, asked, dropped>>
history == <<handled, asked, dropped>>

Init ==
  /\ component \in BOOLEAN
  /\ shape = [i \in Ids |-> Nothing]
  /\ queue = <<>>
  /\ pc = "next"
  /\ cur = Nothing
  /\ answer = Nothing
  /\ replies = [i \in Ids |-> <<>>]
  /\ handled = {}
  /\ asked = [i \in Ids |-> Nothing]
  /\ dropped = {}

\* A NATS server asks, at any time.
Ask(i, s) ==
  /\ shape[i] = Nothing
  /\ shape' = [shape EXCEPT ![i] = s]
  /\ queue' = Append(queue, i)
  /\ UNCHANGED <<component, pc, cur, answer, replies, history>>

-----------------------------------------------------------------------------
(* handle_message *)

\* The token is empty unless there are headers.
Unreadable(s) == s.envelope \in {"badKey", "unopenable"}
Panics(s) == s.envelope \in {"plain", "sealed"} /\ s.body = "binary"
Decodes(s) == s.envelope \in {"plain", "sealed"} /\ s.body = "jwt"

Take(to) ==
  /\ pc = "next"
  /\ queue # <<>>
  /\ queue' = Tail(queue)
  /\ pc' = to
  /\ UNCHANGED <<shape, replies, asked, dropped>>

Incoming == shape[Head(queue)]

\* Variant: the loop ends at a request it cannot read.
TakeUnreadable_EndsLoop ==
  /\ Take("stopped")
  /\ Unreadable(Incoming)
  /\ handled' = handled \cup {Head(queue)}
  /\ UNCHANGED <<cur, answer>>

\* The key or the payload is refused: the handler returns its error and nothing
\* is published.
TakeUnreadable ==
  /\ Take("next")
  /\ Unreadable(Incoming)
  /\ handled' = handled \cup {Head(queue)}
  /\ UNCHANGED <<cur, answer>>

\* from_utf8(token).unwrap(): the task panics, and main exits when a task ends.
TakeBinary ==
  /\ Take("dead")
  /\ Panics(Incoming)
  /\ cur' = Head(queue)
  /\ UNCHANGED <<answer, handled>>

\* Variant: a request that cannot be decoded is not answered.
TakeGarbage_Silent ==
  /\ Take("next")
  /\ ~Unreadable(Incoming) /\ ~Panics(Incoming) /\ ~Decodes(Incoming)
  /\ handled' = handled \cup {Head(queue)}
  /\ UNCHANGED <<cur, answer>>

\* Variant: a token that cannot be decoded is unwrapped.
TakeGarbage_Panics ==
  /\ Take("dead")
  /\ ~Unreadable(Incoming) /\ ~Panics(Incoming) /\ ~Decodes(Incoming)
  /\ cur' = Head(queue)
  /\ UNCHANGED <<answer, handled>>

TakeGarbage ==
  /\ Take("respond")
  /\ ~Unreadable(Incoming) /\ ~Panics(Incoming) /\ ~Decodes(Incoming)
  /\ cur' = Head(queue)
  /\ answer' = "decodeError"
  /\ UNCHANGED handled

TakeJwt ==
  /\ Take(IF component THEN "component" ELSE "sign")
  /\ Decodes(Incoming)
  /\ cur' = Head(queue)
  /\ UNCHANGED <<answer, handled>>

\* Variant: an error of the component is treated as the lack of one.
ComponentFails_Ignored ==
  /\ pc = "component"
  /\ pc' = "sign"
  /\ asked' = [asked EXCEPT ![cur] = "error"]
  /\ UNCHANGED <<shape, queue, cur, answer, replies, handled, dropped>>

Verdict(v, to) ==
  /\ pc = "component"
  /\ pc' = to
  /\ asked' = [asked EXCEPT ![cur] = v]
  /\ UNCHANGED <<shape, queue, cur, replies, handled, dropped>>

ComponentAllows == Verdict("allow", "sign") /\ UNCHANGED answer
ComponentDenies == Verdict("deny", "respond") /\ answer' = "denied"
ComponentFails == Verdict("error", "respond") /\ answer' = "componentError"

\* The user claims are encoded with the last issuer key.
Sign ==
  /\ pc = "sign"
  /\ pc' = "respond"
  /\ answer' \in {"allowed", "signError"}
  /\ UNCHANGED <<shape, queue, cur, replies, history>>

\* Variant: no return after the answer to a denied request.
Finish_FallsThrough ==
  /\ pc' = IF answer = "denied" THEN "sign" ELSE "next"
  /\ handled' = handled \cup {cur}
  /\ UNCHANGED <<shape, queue, answer, asked, cur>>

\* handle_message returns, and the loop goes on whatever it returned.
Finish ==
  /\ pc' = "next"
  /\ handled' = handled \cup {cur}
  /\ cur' = Nothing
  /\ answer' = Nothing
  /\ UNCHANGED <<shape, queue, asked>>

Publish(m) == replies' = [replies EXCEPT ![cur] = Append(@, m)]

\* The response JWT is published, sealed if the request was.
Respond ==
  /\ pc = "respond"
  /\ Publish(answer)
  /\ Finish
  /\ UNCHANGED dropped

\* Sealing fails: the error text is published instead of a response.
RespondSealError ==
  /\ pc = "respond"
  /\ shape[cur].envelope = "sealed"
  /\ Publish("sealError")
  /\ Finish
  /\ UNCHANGED dropped

\* Publishing fails: no answer goes out.
RespondFails ==
  /\ pc = "respond"
  /\ dropped' = dropped \cup {cur}
  /\ Finish
  /\ UNCHANGED replies

\* The response does not encode, or sealing fails and then publishing its error
\* does: the two unwrap()s of respond.
RespondPanics ==
  /\ pc = "respond"
  /\ pc' = "dead"
  /\ UNCHANGED <<shape, queue, cur, answer, replies, history>>

-----------------------------------------------------------------------------
LoopStep ==
  /\ \/ TakeUnreadable \/ TakeBinary \/ TakeGarbage \/ TakeJwt
     \/ Sign
     \/ Respond \/ RespondSealError \/ RespondFails \/ RespondPanics
  /\ UNCHANGED component

ComponentStep ==
  /\ ComponentAllows \/ ComponentDenies \/ ComponentFails
  /\ UNCHANGED component

Next ==
  \/ \E i \in Ids : \E s \in Shapes : Ask(i, s)
  \/ LoopStep
  \/ ComponentStep

Spec == Init /\ [][Next]_vars

\* The runtime polls the loop, and its publishes complete or fail.
FairSpec == Spec /\ WF_vars(LoopStep)

\* Moreover every call of the component returns.
FairGuestSpec == FairSpec /\ WF_vars(ComponentStep)

-----------------------------------------------------------------------------
\* The types of the variables.
TypeOK ==
  /\ component \in BOOLEAN
  /\ shape \in [Ids -> Shapes \cup {Nothing}]
  /\ queue \in Seq(Ids)
  /\ pc \in {"next", "component", "sign", "respond", "dead"}
  /\ cur \in Ids \cup {Nothing}
  /\ answer \in Answers \cup {Nothing}
  /\ replies \in [Ids -> Seq(Answers \cup {"sealError"})]
  /\ handled \in SUBSET Ids
  /\ asked \in [Ids -> {"allow", "deny", "error", Nothing}]
  /\ dropped \in SUBSET Ids

AnswersTo(i) == {replies[i][k] : k \in DOMAIN replies[i]}

\* A user JWT goes out only for a request that was read, and then only when the
\* component, if there is one, allowed that very request: a denial, an error or
\* a request answered earlier never opens the door.
AllowedOnlyByVerdict ==
  \A i \in Ids : "allowed" \in AnswersTo(i) =>
    /\ shape[i].body = "jwt" /\ ~Unreadable(shape[i])
    /\ asked[i] = IF component THEN "allow" ELSE Nothing

\* No request is answered twice, whichever of the handler's exits it takes.
OneAnswer == \A i \in Ids : Len(replies[i]) <= 1

\* A request the loop is done with was answered, unless its key or payload was
\* refused or the publish failed: every other exit answers.  The loop dies only of
\* a payload that is not UTF-8, or with a response in hand: no other request takes
\* the service down.
SilenceHasCause ==
  /\ \A i \in handled :
       replies[i] = <<>> => Unreadable(shape[i]) \/ i \in dropped
  /\ pc = "dead" => Panics(shape[cur]) \/ answer # Nothing

\* Every request is handled in the end, unless the process dies.
EveryRequestHandled ==
  \A i \in Ids : shape[i] # Nothing ~> (i \in handled \/ pc = "dead")

=============================================================================
