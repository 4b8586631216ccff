------------------------- MODULE AuthCalloutProofs -------------------------
(***************************************************************************)
(* Proofs about AuthCallout for any requests of any shapes, with and       *)
(* without a component.                                                    *)
(***************************************************************************)
EXTENDS AuthCallout, TLAPS

\* The requests no part of the loop has touched yet.
Fresh(i) == replies[i] = <<>> /\ asked[i] = Nothing /\ i \notin handled /\ i # cur

\* Requests that were not sent, and those that wait, are untouched, and a
\* request waits at one place.
Waiting ==
  /\ \A i \in Ids : shape[i] = Nothing => Fresh(i)
  /\ \A k \in DOMAIN queue : shape[queue[k]] # Nothing /\ Fresh(queue[k])
  /\ \A k, l \in DOMAIN queue : queue[k] = queue[l] => k = l

\* A user JWT may be signed for the request: it was read, and the component, if
\* there is one, allowed it.
Allowed(i) ==
  /\ shape[i].body = "jwt" /\ ~Unreadable(shape[i])
  /\ asked[i] = IF component THEN "allow" ELSE Nothing

\* What the handler knows of the request in hand.
InHand ==
  /\ pc \in {"component", "sign", "respond"} =>
       /\ cur \in Ids /\ shape[cur] # Nothing
       /\ replies[cur] = <<>> /\ cur \notin handled
  /\ pc = "component" =>
       /\ component
       /\ shape[cur].body = "jwt" /\ ~Unreadable(shape[cur]) /\ asked[cur] = Nothing
  /\ pc = "sign" => Allowed(cur)
  /\ pc = "respond" => answer \in Answers /\ (answer = "allowed" => Allowed(cur))

AuthInv ==
  /\ TypeOK
  /\ Waiting
  /\ InHand
  /\ AllowedOnlyByVerdict
  /\ OneAnswer
  /\ SilenceHasCause

LEMMA AuthInvInit == Init => AuthInv
BY NothingAssumption
   DEF Init, AuthInv, TypeOK, Waiting, Fresh, InHand, AllowedOnlyByVerdict,
       AnswersTo, OneAnswer, SilenceHasCause

\* What is at a place of a sequence after something was put at its end ...
LEMMA AppendPlaces ==
  ASSUME NEW S, NEW s \in Seq(S), NEW e \in S, NEW k \in DOMAIN Append(s, e)
  PROVE  (k \in DOMAIN s /\ Append(s, e)[k] = s[k]) \/ (k = Len(s) + 1 /\ Append(s, e)[k] = e)
OBVIOUS

\* ... and after its head was taken.
LEMMA TailPlaces ==
  ASSUME NEW S, NEW s \in Seq(S), s # <<>>
  PROVE  /\ Head(s) \in S /\ 1 \in DOMAIN s /\ Head(s) = s[1]
         /\ \A k \in DOMAIN Tail(s) : k + 1 \in DOMAIN s /\ k + 1 # 1 /\ Tail(s)[k] = s[k + 1]
OBVIOUS

LEMMA AskStep ==
  ASSUME AuthInv, NEW i \in Ids, NEW s \in Shapes, Ask(i, s)
  PROVE  AuthInv'
<1>1. /\ shape[i] = Nothing /\ s # Nothing
      /\ shape' = [shape EXCEPT ![i] = s]
      /\ queue' = Append(queue, i)
      /\ UNCHANGED <<component, pc, cur, answer, replies, handled, asked, dropped>>
  BY NothingAssumption DEF Ask, history
<1>2. TypeOK'
  BY <1>1 DEF AuthInv, TypeOK
<1>3. Fresh(i) /\ \A j \in Ids : Fresh(j)' <=> Fresh(j)
  BY <1>1 DEF AuthInv, Waiting, Fresh
<1>4. \A j \in Ids : j # i => shape'[j] = shape[j]
  BY <1>1 DEF AuthInv, TypeOK
<1>5. shape'[i] # Nothing
  BY <1>1 DEF AuthInv, TypeOK
<1>6. \A k \in DOMAIN queue' :
        \/ k \in DOMAIN queue /\ queue'[k] = queue[k] /\ queue[k] \in Ids /\ queue[k] # i
        \/ k = Len(queue) + 1 /\ queue'[k] = i
  BY <1>1, AppendPlaces DEF AuthInv, TypeOK, Waiting
<1>7. Waiting'
  BY <1>3, <1>4, <1>5, <1>6 DEF AuthInv, Waiting
<1>8. InHand'
  BY <1>1, <1>4 DEF AuthInv, TypeOK, InHand, Allowed
<1>9. AllowedOnlyByVerdict' /\ OneAnswer' /\ SilenceHasCause'
  BY <1>1, <1>3, <1>4
     DEF AuthInv, TypeOK, AllowedOnlyByVerdict, AnswersTo, OneAnswer, SilenceHasCause, Fresh
<1>. QED  BY <1>2, <1>7, <1>8, <1>9 DEF AuthInv

\* The loop takes the request at the head of its queue.
LEMMA TakeStep ==
  ASSUME AuthInv, UNCHANGED component,
         TakeUnreadable \/ TakeBinary \/ TakeGarbage \/ TakeJwt
  PROVE  AuthInv'
<1>1. PICK to \in {"next", "dead", "respond", "component", "sign"} : Take(to)
  BY DEF TakeUnreadable, TakeBinary, TakeGarbage, TakeJwt
<1>2. /\ queue \in Seq(Ids) /\ queue # <<>> /\ queue' = Tail(queue)
      /\ pc = "next" /\ UNCHANGED <<component, shape, replies, asked, dropped>>
  BY <1>1 DEF Take, AuthInv, TypeOK
<1>3. PICK q \in Ids : q = Head(queue) /\ q = queue[1] /\ 1 \in DOMAIN queue
  BY <1>2, TailPlaces
<1>4. Fresh(q) /\ shape[q] # Nothing /\ Incoming = shape[q] /\ shape[q] \in Shapes
  BY <1>3 DEF AuthInv, Waiting, Incoming, TypeOK
<1>5. \A k \in DOMAIN queue' :
        /\ k + 1 \in DOMAIN queue /\ queue'[k] = queue[k + 1]
        /\ queue'[k] \in Ids /\ queue'[k] # q /\ k \in Nat
  BY <1>2, <1>3, TailPlaces DEF AuthInv, Waiting
<1>6. handled' \in {handled, handled \cup {q}} /\ cur' \in {cur, q}
  BY <1>3 DEF TakeUnreadable, TakeBinary, TakeGarbage, TakeJwt
<1>7. \A j \in Ids : j # q /\ Fresh(j) => Fresh(j)'
  BY <1>2, <1>6 DEF Fresh
<1>8. Waiting'
  <2>1. \A j \in Ids : shape'[j] = Nothing => Fresh(j)'
    BY <1>2, <1>4, <1>7 DEF AuthInv, Waiting
  <2>2. \A k \in DOMAIN queue' : \A j \in Ids :
          j = queue'[k] => shape'[j] # Nothing /\ Fresh(j)'
    BY <1>2, <1>5, <1>7 DEF AuthInv, Waiting
  <2>3. ASSUME NEW k \in DOMAIN queue', NEW l \in DOMAIN queue', queue'[k] = queue'[l]
        PROVE  k = l
    <3>1. k + 1 = l + 1
      BY <1>5, <2>3 DEF AuthInv, Waiting
    <3>. QED  BY <1>5, <3>1
  <2>. QED  BY <1>5, <2>1, <2>2, <2>3 DEF Waiting, Fresh
<1>9. TypeOK'
  BY <1>1, <1>2, <1>3, <1>6, TailPlaces
     DEF AuthInv, TypeOK, Take, TakeUnreadable, TakeBinary, TakeGarbage, TakeJwt, Answers
<1>10. InHand'
  BY <1>1, <1>2, <1>3, <1>4
     DEF AuthInv, TypeOK, InHand, Allowed, Fresh, Take, TakeUnreadable, TakeBinary,
         TakeGarbage, TakeJwt, Answers, Decodes, Unreadable
<1>11. AllowedOnlyByVerdict' /\ OneAnswer'
  BY <1>2 DEF AuthInv, AllowedOnlyByVerdict, AnswersTo, OneAnswer
<1>12. SilenceHasCause'
  <2>1. \A i \in handled' : replies'[i] = <<>> => Unreadable(shape'[i]) \/ i \in dropped'
    BY <1>2, <1>3, <1>4
       DEF AuthInv, SilenceHasCause, TakeUnreadable, TakeBinary, TakeGarbage, TakeJwt
  <2>2. pc' = "dead" => Panics(shape'[cur'])
    BY <1>2, <1>3, <1>4 DEF Take, TakeUnreadable, TakeBinary, TakeGarbage, TakeJwt
  <2>. QED  BY <2>1, <2>2 DEF SilenceHasCause
<1>. QED  BY <1>8, <1>9, <1>10, <1>11, <1>12 DEF AuthInv

\* The component answers or fails, the user JWT is signed.
LEMMA DecideStep ==
  ASSUME AuthInv, UNCHANGED component,
         Sign \/ ComponentAllows \/ ComponentDenies \/ ComponentFails
  PROVE  AuthInv'
<1>1. /\ pc \in {"component", "sign"} /\ cur \in Ids /\ shape[cur] # Nothing
      /\ replies[cur] = <<>> /\ cur \notin handled
      /\ UNCHANGED <<component, shape, queue, cur, replies, handled, dropped>>
  BY DEF Sign, ComponentAllows, ComponentDenies, ComponentFails, Verdict, history,
         AuthInv, InHand
<1>2. \A j \in Ids : j # cur => asked'[j] = asked[j]
  BY DEF Sign, ComponentAllows, ComponentDenies, ComponentFails, Verdict, history,
         AuthInv, TypeOK
<1>3. TypeOK'
  BY <1>1 DEF AuthInv, TypeOK, Sign, ComponentAllows, ComponentDenies, ComponentFails,
              Verdict, history, Answers
<1>4. \A j \in Ids : Fresh(j) => Fresh(j)'
  BY <1>1, <1>2 DEF Fresh
<1>5. Waiting'
  BY <1>1, <1>4 DEF AuthInv, Waiting, TypeOK
<1>6. InHand'
  BY <1>1 DEF AuthInv, TypeOK, InHand, Allowed, Sign, ComponentAllows, ComponentDenies,
              ComponentFails, Verdict, history, Answers
<1>7. AllowedOnlyByVerdict' /\ OneAnswer'
  BY <1>1, <1>2 DEF AuthInv, AllowedOnlyByVerdict, AnswersTo, OneAnswer
<1>8. SilenceHasCause'
  <2>1. pc' # "dead"
    BY DEF Sign, ComponentAllows, ComponentDenies, ComponentFails, Verdict
  <2>. QED  BY <1>1, <2>1 DEF AuthInv, SilenceHasCause
<1>. QED  BY <1>3, <1>5, <1>6, <1>7, <1>8 DEF AuthInv

\* The handler answers, or fails to, and the loop goes on.
LEMMA RespondStep ==
  ASSUME AuthInv, UNCHANGED component, Respond \/ RespondSealError \/ RespondFails
  PROVE  AuthInv'
<1>1. /\ pc = "respond" /\ cur \in Ids /\ shape[cur] # Nothing
      /\ replies[cur] = <<>> /\ cur \notin handled
      /\ answer \in Answers /\ (answer = "allowed" => Allowed(cur))
      /\ cur' = Nothing /\ answer' = Nothing /\ pc' = "next"
      /\ handled' = handled \cup {cur}
      /\ UNCHANGED <<component, shape, queue, asked>>
  BY DEF Respond, RespondSealError, RespondFails, Finish, AuthInv, InHand
<1>2. PICK r \in {<<>>, <<answer>>, <<"sealError">>} :
        /\ replies' = [replies EXCEPT ![cur] = r]
        /\ r = <<>> => cur \in dropped'
        /\ dropped' \in {dropped, dropped \cup {cur}}
  BY <1>1 DEF Respond, RespondSealError, RespondFails, Publish, AuthInv, TypeOK
<1>2a. r \in Seq(Answers \cup {"sealError"}) /\ Len(r) <= 1
  <2>1. CASE r = <<>>
    BY <2>1
  <2>2. CASE r = <<answer>>
    BY <1>1, <2>2
  <2>3. CASE r = <<"sealError">>
    BY <2>3
  <2>. QED  BY <1>2, <2>1, <2>2, <2>3
<1>3. /\ replies'[cur] = r
      /\ \A j \in Ids : j # cur => replies'[j] = replies[j]
  BY <1>1, <1>2 DEF AuthInv, TypeOK
<1>4. TypeOK'
  BY <1>1, <1>2, <1>2a DEF AuthInv, TypeOK
<1>5. \A j \in Ids : Fresh(j) => Fresh(j)'
  BY <1>1, <1>3, NothingAssumption DEF Fresh
<1>6. Waiting'
  BY <1>1, <1>5 DEF AuthInv, Waiting, TypeOK
<1>7. InHand'
  BY <1>1 DEF InHand
<1>8. AllowedOnlyByVerdict'
  <2>. SUFFICES ASSUME NEW j \in Ids, NEW k \in DOMAIN replies'[j], replies'[j][k] = "allowed"
                PROVE  Allowed(j)'
    BY DEF AllowedOnlyByVerdict, AnswersTo, Allowed
  <2>1. CASE j = cur
    BY <1>1, <1>2, <1>3, <2>1 DEF Allowed
  <2>2. CASE j # cur
    BY <1>1, <1>3, <2>2 DEF AuthInv, AllowedOnlyByVerdict, AnswersTo, Allowed
  <2>. QED  BY <2>1, <2>2
<1>9. OneAnswer'
  BY <1>2a, <1>3 DEF AuthInv, OneAnswer
<1>10. SilenceHasCause'
  BY <1>1, <1>2, <1>3 DEF AuthInv, SilenceHasCause
<1>. QED  BY <1>4, <1>6, <1>7, <1>8, <1>9, <1>10 DEF AuthInv

LEMMA AuthInvStep == AuthInv /\ [Next]_vars => AuthInv'
<1>. SUFFICES ASSUME AuthInv, [Next]_vars PROVE AuthInv'
  OBVIOUS
<1>1. CASE RespondPanics /\ UNCHANGED component
  BY <1>1, NothingAssumption
     DEF RespondPanics, history, AuthInv, TypeOK, Waiting, Fresh, InHand,
         AllowedOnlyByVerdict, AnswersTo, OneAnswer, SilenceHasCause
<1>2. CASE UNCHANGED vars
  BY <1>2
     DEF vars, history, AuthInv, TypeOK, Waiting, Fresh, InHand, Allowed,
         AllowedOnlyByVerdict, AnswersTo, OneAnswer, SilenceHasCause
<1>. QED
  BY <1>1, <1>2, AskStep, TakeStep, DecideStep, RespondStep
     DEF Next, LoopStep, ComponentStep

\* The inductive invariant holds in every reachable state.
THEOREM Invariance == Spec => []AuthInv
BY AuthInvInit, AuthInvStep, PTL DEF Spec

\* The variables keep their types.
THEOREM TypeCorrect == Spec => []TypeOK
<1>1. AuthInv => TypeOK
  BY DEF AuthInv
<1>. QED  BY <1>1, Invariance, PTL

\* A user JWT goes out only for a request that was read and that the component,
\* if there is one, allowed.
THEOREM AllowedCorrect == Spec => []AllowedOnlyByVerdict
<1>1. AuthInv => AllowedOnlyByVerdict
  BY DEF AuthInv
<1>. QED  BY <1>1, Invariance, PTL

\* No request is answered twice.
THEOREM OneAnswerCorrect == Spec => []OneAnswer
<1>1. AuthInv => OneAnswer
  BY DEF AuthInv
<1>. QED  BY <1>1, Invariance, PTL

\* A request the loop is done with was answered, or refused unread, or its
\* answer could not be published; and the loop dies of no request but one that is
\* not UTF-8 or that it is answering.
THEOREM SilenceCorrect == Spec => []SilenceHasCause
<1>1. AuthInv => SilenceHasCause
  BY DEF AuthInv
<1>. QED  BY <1>1, Invariance, PTL

=============================================================================
