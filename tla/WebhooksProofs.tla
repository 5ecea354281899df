--------------------------- MODULE WebhooksProofs ---------------------------
(***************************************************************************)
(* Theorems about Webhooks, for every set of tasks, every script of events *)
(* and list of webhooks, whatever they are configured for, and any number  *)
(* of retries.                                                             *)
(***************************************************************************)
EXTENDS Webhooks, TLAPS

(* An attempt that was made: its request is on its way or has arrived. *)
Message(e, w, n) == [event |-> e, to |-> w, attempt |-> n]
Arrived(e, w, n) == \E k \in DOMAIN inbox[w] : inbox[w][k].event = e /\ inbox[w][k].attempt = n
Sent(e, w, n) == Message(e, w, n) \in flying \/ Arrived(e, w, n)

(* A task goes through its events, the webhooks of each, and the attempts  *)
(* at each, in this order, and has sent nothing of what is before it.      *)
Passed(s, i, h, n) ==
    \/ i < nth[s]
    \/ /\ i = nth[s] /\ pc[s] # "idle"
       /\ \/ h < hook[s]
          \/ h = hook[s] /\ n < attempt[s]
          \/ h = hook[s] /\ n = attempt[s] /\ pc[s] = "request"

InTurn ==
    \A s \in Senders : \A i \in DOMAIN Script[s], h \in DOMAIN Hooks : \A n \in Nat :
        Sent(Script[s][i], Hooks[h], n) => Passed(s, i, h, n)

(* Only what a webhook is configured for is sent, as often as it says. *)
AsConfigured ==
    \A s \in Senders : pc[s] \in {"request", "backoff"} => Event(s) \in Handles[To(s)]
Allowed ==
    \A e \in Events : \A w \in Webhook : \A n \in Nat :
        Sent(e, w, n) => n \in 1..Retries[w] /\ e \in Handles[w]

(* A request arrives once. *)
ArrivesOnce ==
    /\ \A m \in flying : ~Arrived(m.event, m.to, m.attempt)
    /\ \A w \in Webhook : \A i, j \in DOMAIN inbox[w] :
          inbox[w][i].event = inbox[w][j].event /\ inbox[w][i].attempt = inbox[w][j].attempt => i = j

SendInv == InTurn /\ AsConfigured /\ Allowed /\ ArrivesOnce

-----------------------------------------------------------------------------
(* Operators of the model *)

LEMMA ScriptFacts ==
    /\ \A s \in Senders : /\ Len(Script[s]) \in Nat /\ DOMAIN Script[s] = 1..Len(Script[s])
                          /\ \A i \in DOMAIN Script[s] : Script[s][i] \in Events
    /\ Len(Hooks) \in Nat /\ DOMAIN Hooks = 1..Len(Hooks)
    /\ \A h \in DOMAIN Hooks : Hooks[h] \in Webhook
    /\ \A w \in Webhook : Retries[w] \in Nat
<1>1. \A s \in Senders : Script[s] \in Seq(Events)
  BY WebhooksAssumption
<1>2. ASSUME NEW s \in Senders
      PROVE  /\ Len(Script[s]) \in Nat /\ DOMAIN Script[s] = 1..Len(Script[s])
             /\ \A i \in DOMAIN Script[s] : Script[s][i] \in Events
  BY <1>1
<1>3. /\ Len(Hooks) \in Nat /\ DOMAIN Hooks = 1..Len(Hooks)
      /\ \A h \in DOMAIN Hooks : Hooks[h] \in Webhook
  BY WebhooksAssumption
<1> QED BY <1>2, <1>3, WebhooksAssumption

LEMMA InboxFacts ==
    ASSUME TypeOK, NEW w \in Webhook
    PROVE  /\ Len(inbox[w]) \in Nat /\ DOMAIN inbox[w] = 1..Len(inbox[w])
           /\ \A k \in DOMAIN inbox[w] :
                 /\ inbox[w][k].event \in Events /\ inbox[w][k].attempt \in Nat
                 /\ inbox[w][k].ok \in BOOLEAN
<1> DEFINE S == [event : Events, attempt : Nat, ok : BOOLEAN]
<1>1. inbox[w] \in Seq(S)
  BY DEF TypeOK
<1>2. \A x \in S : x.event \in Events /\ x.attempt \in Nat /\ x.ok \in BOOLEAN
  OBVIOUS
<1> HIDE DEF S
<1>3. /\ Len(inbox[w]) \in Nat /\ DOMAIN inbox[w] = 1..Len(inbox[w])
      /\ \A k \in DOMAIN inbox[w] : inbox[w][k] \in S
  BY <1>1
<1> QED BY <1>2, <1>3

(* Where a task is that has a call to make or under way. *)
LEMMA AtCall ==
    ASSUME TypeOK, NEW s \in Senders, pc[s] # "idle", hook[s] <= Len(Hooks)
    PROVE  /\ nth[s] \in DOMAIN Script[s] /\ hook[s] \in DOMAIN Hooks
           /\ Event(s) \in Events /\ To(s) \in Webhook
<1>1. nth[s] \in DOMAIN Script[s] /\ hook[s] \in DOMAIN Hooks
  BY ScriptFacts DEF TypeOK
<1> QED BY <1>1, ScriptFacts DEF Event, To

(* An event has one place in the scripts, and a webhook one in the list. *)
LEMMA OnePlace ==
    ASSUME NEW s \in Senders, NEW r \in Senders,
           NEW i \in DOMAIN Script[s], NEW j \in DOMAIN Script[r],
           NEW h \in DOMAIN Hooks, NEW g \in DOMAIN Hooks
    PROVE  /\ Script[s][i] = Script[r][j] => s = r /\ i = j
           /\ Hooks[h] = Hooks[g] => h = g
BY WebhooksAssumption

LEMMA EventHasPlace ==
    ASSUME NEW e \in Events
    PROVE  \E s \in Senders : \E i \in DOMAIN Script[s] : Script[s][i] = e
BY DEF Events

(* What the steps do to a task. *)
LEMMA ReturnedMoves ==
    ASSUME TypeOK, NEW s \in Senders, NEW result \in {"skipped", "ok", "failed"},
           pc[s] # "idle", hook[s] <= Len(Hooks), Returned(s, result)
    PROVE  /\ hook' \in [Senders -> 1..(Len(Hooks) + 1)] /\ attempt' \in [Senders -> Nat]
           /\ pc' \in [Senders -> {"idle", "send", "request", "backoff"}]
           /\ outcome' \in [Events -> [Webhook -> {"none", "skipped", "ok", "failed"}]]
           /\ hook'[s] = hook[s] + 1 /\ attempt'[s] = 1 /\ pc'[s] = "send" /\ nth' = nth
           /\ \A r \in Senders : r # s =>
                 hook'[r] = hook[r] /\ attempt'[r] = attempt[r] /\ pc'[r] = pc[r]
           /\ outcome'[Event(s)][To(s)] = result
           /\ \A e \in Events, w \in Webhook :
                 e # Event(s) \/ w # To(s) => outcome'[e][w] = outcome[e][w]
<1>1. Event(s) \in Events /\ To(s) \in Webhook
  BY AtCall
<1>2. hook[s] + 1 \in 1..(Len(Hooks) + 1)
  BY ScriptFacts DEF TypeOK
<1> QED BY <1>1, <1>2 DEF TypeOK, Returned, Goto

(* The steps of a task, seen from its place in the scripts and lists. *)
Stays(s) == nth'[s] = nth[s] /\ hook'[s] = hook[s] /\ attempt'[s] = attempt[s] /\ pc'[s] = pc[s]
Enters(s) ==
    /\ pc[s] = "idle" /\ pc'[s] = "send" /\ hook'[s] = 1
    /\ nth'[s] = nth[s] /\ nth[s] <= Len(Script[s]) /\ attempt'[s] = attempt[s]
Leaves(s) ==
    /\ pc[s] = "send" /\ pc'[s] = "idle" /\ hook[s] = Len(Hooks) + 1
    /\ nth'[s] = nth[s] + 1 /\ hook'[s] = hook[s] /\ attempt'[s] = attempt[s]
Advances(s) ==
    /\ pc[s] \in {"send", "request"} /\ pc'[s] = "send" /\ hook[s] <= Len(Hooks)
    /\ nth'[s] = nth[s] /\ hook'[s] = hook[s] + 1 /\ attempt'[s] = 1
Requests(s) ==
    /\ pc[s] \in {"send", "backoff"} /\ pc'[s] = "request" /\ hook[s] <= Len(Hooks)
    /\ Event(s) \in Handles[To(s)] /\ attempt[s] <= Retries[To(s)]
    /\ nth'[s] = nth[s] /\ hook'[s] = hook[s] /\ attempt'[s] = attempt[s]
Repeats(s) ==
    /\ pc[s] = "request" /\ pc'[s] = "backoff" /\ hook[s] <= Len(Hooks)
    /\ attempt[s] < Retries[To(s)]
    /\ nth'[s] = nth[s] /\ hook'[s] = hook[s] /\ attempt'[s] = attempt[s] + 1

Others(s) == \A r \in Senders : r # s => Stays(r)
Places ==
    /\ nth' \in [Senders -> Nat] /\ hook' \in [Senders -> 1..(Len(Hooks) + 1)]
    /\ attempt' \in [Senders -> Nat]
    /\ pc' \in [Senders -> {"idle", "send", "request", "backoff"}]

LEMMA SendEventMoves ==
    ASSUME TypeOK, NEW s \in Senders, SendEvent(s)
    PROVE  Enters(s) /\ Others(s) /\ Places
<1>1. 1 \in 1..(Len(Hooks) + 1)
  BY ScriptFacts
<1> QED BY <1>1 DEF TypeOK, SendEvent, Goto, Enters, Others, Stays, Places

LEMMA EventSentMoves ==
    ASSUME TypeOK, NEW s \in Senders, EventSent(s)
    PROVE  Leaves(s) /\ Others(s) /\ Places
BY DEF TypeOK, EventSent, Goto, Leaves, Others, Stays, Places

LEMMA ReturnMoves ==
    ASSUME TypeOK, NEW s \in Senders, NEW result \in {"skipped", "ok", "failed"},
           pc[s] \in {"send", "request"}, hook[s] <= Len(Hooks), Returned(s, result)
    PROVE  Advances(s) /\ Others(s) /\ Places
<1>1. pc[s] # "idle"
  OBVIOUS
<1>2. nth' \in [Senders -> Nat]
  BY DEF TypeOK, Returned
<1> QED BY <1>1, <1>2, ReturnedMoves DEF Advances, Others, Stays, Places

LEMMA SendOnceMoves ==
    ASSUME TypeOK, AsConfigured, NEW s \in Senders, SendOnce(s)
    PROVE  Requests(s) /\ Others(s) /\ Places
<1>1. hook[s] <= Len(Hooks) /\ pc[s] # "idle"
  BY DEF SendOnce, TypeOK
<1>2. Retries[To(s)] \in Nat /\ To(s) \in Webhook
  BY <1>1, AtCall, ScriptFacts
<1>3. Event(s) \in Handles[To(s)] /\ attempt[s] <= Retries[To(s)]
  BY <1>2 DEF SendOnce, TypeOK, AsConfigured
<1> QED BY <1>1, <1>3 DEF TypeOK, SendOnce, Goto, Requests, Others, Stays, Places

LEMMA AttemptFailedMoves ==
    ASSUME TypeOK, NEW s \in Senders, pc[s] = "request", AttemptFailed(s)
    PROVE  /\ Others(s) /\ Places
           /\ \/ Advances(s) /\ Returned(s, "failed")
              \/ Repeats(s) /\ outcome' = outcome
<1>1. CASE attempt[s] = Retries[To(s)]
  <2>1. hook[s] <= Len(Hooks) /\ Returned(s, "failed")
    BY <1>1 DEF TypeOK, AttemptFailed
  <2> QED BY <2>1, ReturnMoves
<1>2. CASE attempt[s] # Retries[To(s)]
  <2>1. hook[s] <= Len(Hooks) /\ attempt[s] \in 1..Retries[To(s)]
    BY DEF TypeOK
  <2>2. Retries[To(s)] \in Nat
    BY <2>1, AtCall, ScriptFacts
  <2>3. /\ attempt' = [attempt EXCEPT ![s] = @ + 1] /\ pc' = [pc EXCEPT ![s] = "backoff"]
        /\ nth' = nth /\ hook' = hook /\ outcome' = outcome
    BY <1>2 DEF AttemptFailed, Goto
  <2>4. Places /\ Others(s)
    BY <2>3 DEF TypeOK, Places, Others, Stays
  <2>5. attempt[s] < Retries[To(s)]
    BY <1>2, <2>1, <2>2
  <2>6. attempt'[s] = attempt[s] + 1 /\ pc'[s] = "backoff" /\ nth'[s] = nth[s] /\ hook'[s] = hook[s]
    BY <2>3 DEF TypeOK
  <2> QED BY <2>1, <2>3, <2>4, <2>5, <2>6 DEF Repeats
<1> QED BY <1>1, <1>2

(* What the network does to an inbox. *)
Grows ==
    \A w \in Webhook : \A k \in DOMAIN inbox[w] :
        k \in DOMAIN inbox'[w] /\ inbox'[w][k] = inbox[w][k]

LEMMA ArriveFacts ==
    ASSUME TypeOK, NEW m \in flying, Arrive(m)
    PROVE  /\ m.event \in Events /\ m.to \in Webhook /\ m.attempt \in Nat
           /\ inbox' \in [Webhook -> Seq([event : Events, attempt : Nat, ok : BOOLEAN])]
           /\ DOMAIN inbox'[m.to] = 1..(Len(inbox[m.to]) + 1)
           /\ inbox'[m.to][Len(inbox[m.to]) + 1].event = m.event
           /\ inbox'[m.to][Len(inbox[m.to]) + 1].attempt = m.attempt
           /\ \A w \in Webhook : w # m.to => inbox'[w] = inbox[w]
           /\ Grows
<1>1. m.event \in Events /\ m.to \in Webhook /\ m.attempt \in Nat
  BY DEF TypeOK
<1>2. PICK ok \in BOOLEAN :
        inbox' = [inbox EXCEPT ![m.to] =
                    Append(@, [event |-> m.event, attempt |-> m.attempt, ok |-> ok])]
  BY DEF Arrive
<1> DEFINE S == [event : Events, attempt : Nat, ok : BOOLEAN]
           x == [event |-> m.event, attempt |-> m.attempt, ok |-> ok]
<1>3. x \in S
  BY <1>1
<1>4. inbox[m.to] \in Seq(S) /\ inbox \in [Webhook -> Seq(S)]
  BY <1>1 DEF TypeOK
<1> HIDE DEF S
<1>5. /\ inbox'[m.to] = Append(inbox[m.to], x)
      /\ \A w \in Webhook : w # m.to => inbox'[w] = inbox[w]
  BY <1>1, <1>2, <1>4
<1>6. Append(inbox[m.to], x) \in Seq(S)
  BY <1>3, <1>4
<1>7. inbox' \in [Webhook -> Seq(S)]
  BY <1>1, <1>2, <1>4, <1>6
<1> HIDE DEF x
<1>8. /\ DOMAIN Append(inbox[m.to], x) = 1..(Len(inbox[m.to]) + 1)
      /\ Append(inbox[m.to], x)[Len(inbox[m.to]) + 1] = x
      /\ \A k \in 1..Len(inbox[m.to]) : Append(inbox[m.to], x)[k] = inbox[m.to][k]
      /\ DOMAIN inbox[m.to] = 1..Len(inbox[m.to]) /\ Len(inbox[m.to]) \in Nat
  BY <1>3, <1>4
<1>9. Grows
  BY <1>5, <1>8 DEF Grows
<1>10. x.event = m.event /\ x.attempt = m.attempt
  BY DEF x
<1> QED BY <1>1, <1>5, <1>7, <1>8, <1>9, <1>10 DEF S

-----------------------------------------------------------------------------
(* TypeOK *)

(* The part of TypeOK that is about the tasks, one at a time. *)
Placed(s) ==
    /\ nth[s] \in 1..(Len(Script[s]) + 1)
    /\ pc[s] # "idle" => nth[s] <= Len(Script[s])
    /\ pc[s] \in {"request", "backoff"} =>
          hook[s] <= Len(Hooks) /\ attempt[s] \in 1..Retries[To(s)]
    /\ pc[s] \in {"idle", "send"} => attempt[s] = 1

Moves(s) == Enters(s) \/ Leaves(s) \/ Advances(s) \/ Requests(s) \/ Repeats(s)

LEMMA MovesPlaced ==
    ASSUME TypeOK, NEW s \in Senders, Moves(s), Others(s)
    PROVE  \A r \in Senders : Placed(r)'
<1>1. ASSUME NEW r \in Senders, r # s PROVE Placed(r)'
  BY <1>1 DEF TypeOK, Others, Stays, Placed, To
<1>2. Placed(s)'
  <2>1. Len(Script[s]) \in Nat /\ nth[s] \in Nat
    BY ScriptFacts DEF TypeOK
  <2>2. CASE Enters(s)
    BY <2>1, <2>2 DEF Enters, TypeOK, Placed
  <2>3. CASE Leaves(s)
    BY <2>1, <2>3 DEF Leaves, TypeOK, Placed
  <2>4. CASE Advances(s)
    BY <2>1, <2>4 DEF Advances, TypeOK, Placed
  <2>5. CASE Requests(s)
    <3>1. Retries[To(s)] \in Nat
      BY <2>5, AtCall, ScriptFacts DEF Requests
    <3>2. attempt[s] \in 1..Retries[To(s)]
      BY <2>5, <3>1 DEF Requests, TypeOK
    <3> QED BY <2>1, <2>5, <3>2 DEF Requests, TypeOK, Placed, To
  <2>6. CASE Repeats(s)
    <3>1. Retries[To(s)] \in Nat
      BY <2>6, AtCall, ScriptFacts DEF Repeats
    <3>2. attempt[s] + 1 \in 1..Retries[To(s)]
      BY <2>6, <3>1 DEF Repeats, TypeOK
    <3> QED BY <2>1, <2>6, <3>2 DEF Repeats, TypeOK, Placed, To
  <2> QED BY <2>2, <2>3, <2>4, <2>5, <2>6 DEF Moves
<1> QED BY <1>1, <1>2

(* A step of a task, in one of the ways above; what it sends and what it   *)
(* learns of a webhook.                                                    *)
Outcomes == [Events -> [Webhook -> {"none", "skipped", "ok", "failed"}]]
Learns(s) ==
    /\ outcome' \in Outcomes
    /\ \/ outcome' = outcome
       \/ /\ Event(s) \in Events /\ To(s) \in Webhook /\ nth'[s] = nth[s]
          /\ nth[s] \in DOMAIN Script[s]
          /\ outcome'[Event(s)][To(s)] = "ok" =>
                Retries[To(s)] = 0 \/ Accepted(Event(s), To(s)) # {}
          /\ \A e \in Events, w \in Webhook :
                e # Event(s) \/ w # To(s) => outcome'[e][w] = outcome[e][w]
Sends(s) == Requests(s) /\ flying' = flying \cup {Request(s)}

LEMMA ReturnLearns ==
    ASSUME TypeOK, NEW s \in Senders, NEW result \in {"skipped", "ok", "failed"},
           pc[s] \in {"send", "request"}, hook[s] <= Len(Hooks), Returned(s, result),
           result = "ok" => Retries[To(s)] = 0 \/ Accepted(Event(s), To(s)) # {}
    PROVE  Learns(s)
<1>1. pc[s] # "idle"
  OBVIOUS
<1> QED BY <1>1, AtCall, ReturnedMoves DEF Learns, Outcomes

LEMMA SenderStep ==
    ASSUME TypeOK, AsConfigured, NEW s \in Senders, Sender(s)
    PROVE  /\ Moves(s) /\ Others(s) /\ Places /\ Learns(s)
           /\ flying' = flying \/ Sends(s)
           /\ inbox' = inbox
<1> USE DEF Moves
<1>o. outcome \in Outcomes
  BY DEF TypeOK, Outcomes
<1>1. CASE SendEvent(s)
  BY <1>1, <1>o, SendEventMoves DEF SendEvent, Learns
<1>2. CASE EventSent(s)
  BY <1>2, <1>o, EventSentMoves DEF EventSent, Learns
<1>3. CASE Skip(s)
  <2>1. pc[s] = "send" /\ hook[s] <= Len(Hooks) /\ Returned(s, "skipped")
    BY <1>3 DEF Skip
  <2> QED BY <1>3, <2>1, ReturnMoves, ReturnLearns DEF Skip
<1>4. CASE NoAttempt(s)
  <2>1. /\ pc[s] = "send" /\ hook[s] <= Len(Hooks) /\ Returned(s, "ok")
        /\ Retries[To(s)] = 0
    BY <1>4 DEF NoAttempt
  <2> QED BY <1>4, <2>1, ReturnMoves, ReturnLearns DEF NoAttempt
<1>5. CASE SendOnce(s)
  <2>1. flying' = flying \cup {Request(s)} /\ outcome' = outcome /\ inbox' = inbox
    BY <1>5 DEF SendOnce
  <2> QED BY <1>5, <1>o, <2>1, SendOnceMoves DEF Learns, Sends
<1>6. ASSUME pc[s] = "request", AttemptFailed(s), flying' = flying, inbox' = inbox
      PROVE  /\ Moves(s) /\ Others(s) /\ Places /\ Learns(s)
             /\ flying' = flying /\ inbox' = inbox
  <2>1. hook[s] <= Len(Hooks)
    BY <1>6 DEF TypeOK
  <2>2. Learns(s)
    BY <1>6, <1>o, <2>1, AttemptFailedMoves, ReturnLearns DEF Learns
  <2> QED BY <1>6, <2>2, AttemptFailedMoves
<1>7. CASE Answered(s)
  <2>1. PICK i \in DOMAIN inbox[To(s)] :
          /\ inbox[To(s)][i].event = Event(s)
          /\ IF inbox[To(s)][i].ok THEN Returned(s, "ok") ELSE AttemptFailed(s)
    BY <1>7 DEF Answered
  <2>2. pc[s] = "request" /\ flying' = flying /\ inbox' = inbox /\ hook[s] <= Len(Hooks)
    BY <1>7 DEF Answered, TypeOK
  <2>3. CASE inbox[To(s)][i].ok
    <3>1. i \in Accepted(Event(s), To(s))
      BY <2>1, <2>3 DEF Accepted
    <3>2. Returned(s, "ok")
      BY <2>1, <2>3
    <3>3. Learns(s)
      BY <2>2, <3>1, <3>2, ReturnLearns
    <3> QED BY <2>2, <3>2, <3>3, ReturnMoves
  <2>4. CASE ~inbox[To(s)][i].ok
    BY <1>6, <2>1, <2>2, <2>4
  <2> QED BY <2>3, <2>4
<1>8. CASE TimedOut(s)
  BY <1>6, <1>8 DEF TimedOut
<1> QED BY <1>1, <1>2, <1>3, <1>4, <1>5, <1>7, <1>8 DEF Sender

LEMMA TypeInit == Init => TypeOK
<1> SUFFICES ASSUME Init PROVE TypeOK
  OBVIOUS
<1>1. inbox \in [Webhook -> Seq([event : Events, attempt : Nat, ok : BOOLEAN])]
  BY DEF Init
<1>2. 1 \in 1..(Len(Hooks) + 1) /\ \A s \in Senders : 1 \in 1..(Len(Script[s]) + 1)
  BY ScriptFacts
<1> QED BY <1>1, <1>2 DEF Init, TypeOK

LEMMA TypeStep == TypeOK /\ AsConfigured /\ [Next]_vars => TypeOK'
<1> SUFFICES ASSUME TypeOK, AsConfigured, [Next]_vars PROVE TypeOK'
  OBVIOUS
<1>1. ASSUME NEW s \in Senders, Sender(s) PROVE TypeOK'
  <2>1. Moves(s) /\ Others(s) /\ Places /\ Learns(s) /\ inbox' = inbox
    BY <1>1, SenderStep
  <2>2. \A r \in Senders : Placed(r)'
    BY <2>1, MovesPlaced
  <2>3. flying' \subseteq [event : Events, to : Webhook, attempt : Nat]
    <3>1. ASSUME Sends(s)
          PROVE  Request(s) \in [event : Events, to : Webhook, attempt : Nat]
      BY <3>1, AtCall DEF Sends, Requests, Request, TypeOK
    <3>2. flying \subseteq [event : Events, to : Webhook, attempt : Nat]
      BY DEF TypeOK
    <3>3. flying' = flying \/ (Sends(s) /\ flying' = flying \cup {Request(s)})
      BY <1>1, SenderStep DEF Sends
    <3> QED BY <3>1, <3>2, <3>3
  <2> QED BY <2>1, <2>2, <2>3 DEF Places, Learns, Outcomes, Placed, TypeOK
<1>2. ASSUME NEW m \in flying, Arrive(m) PROVE TypeOK'
  <2>1. inbox' \in [Webhook -> Seq([event : Events, attempt : Nat, ok : BOOLEAN])]
    BY <1>2, ArriveFacts
  <2> QED BY <1>2, <2>1 DEF Arrive, senderVars, TypeOK, To
<1>3. ASSUME NEW m \in flying, Lost(m) PROVE TypeOK'
  BY <1>3 DEF Lost, senderVars, TypeOK, To
<1>4. CASE UNCHANGED vars
  BY <1>4 DEF vars, TypeOK, To
<1> QED BY <1>1, <1>2, <1>3, <1>4 DEF Next

-----------------------------------------------------------------------------
(* SendInv *)

(* What has been sent after a step. *)
LEMMA SentByTask ==
    ASSUME flying' = flying, inbox' = inbox, NEW e, NEW w, NEW n
    PROVE  Sent(e, w, n)' <=> Sent(e, w, n)
BY DEF Sent, Message, Arrived

LEMMA SentByRequest ==
    ASSUME NEW s, flying' = flying \cup {Request(s)}, inbox' = inbox, NEW e, NEW w, NEW n
    PROVE  Sent(e, w, n)' <=>
              Sent(e, w, n) \/ (e = Event(s) /\ w = To(s) /\ n = attempt[s])
<1>1. Message(e, w, n) = Request(s) <=> e = Event(s) /\ w = To(s) /\ n = attempt[s]
  BY DEF Message, Request
<1> QED BY <1>1 DEF Sent, Message, Arrived

LEMMA ArrivedByArrive ==
    ASSUME TypeOK, NEW m \in flying, Arrive(m), NEW e, NEW w \in Webhook, NEW n
    PROVE  Arrived(e, w, n)' <=>
              Arrived(e, w, n) \/ (e = m.event /\ w = m.to /\ n = m.attempt)
<1>1. CASE w # m.to
  BY <1>1, ArriveFacts DEF Arrived
<1>2. CASE w = m.to
  <2>1. /\ Len(inbox[w]) \in Nat /\ DOMAIN inbox[w] = 1..Len(inbox[w])
        /\ DOMAIN inbox'[w] = 1..(Len(inbox[w]) + 1)
        /\ inbox'[w][Len(inbox[w]) + 1].event = m.event
        /\ inbox'[w][Len(inbox[w]) + 1].attempt = m.attempt
        /\ \A k \in DOMAIN inbox[w] : inbox'[w][k] = inbox[w][k]
    BY <1>2, ArriveFacts, InboxFacts DEF Grows
  <2>2. ASSUME Arrived(e, w, n)'
        PROVE  Arrived(e, w, n) \/ (e = m.event /\ n = m.attempt)
    <3>1. PICK k \in DOMAIN inbox'[w] : inbox'[w][k].event = e /\ inbox'[w][k].attempt = n
      BY <2>2 DEF Arrived
    <3>2. k \in DOMAIN inbox[w] \/ k = Len(inbox[w]) + 1
      BY <2>1, <3>1
    <3> QED BY <2>1, <3>1, <3>2 DEF Arrived
  <2>3. ASSUME Arrived(e, w, n) PROVE Arrived(e, w, n)'
    <3>1. PICK k \in DOMAIN inbox[w] : inbox[w][k].event = e /\ inbox[w][k].attempt = n
      BY <2>3 DEF Arrived
    <3>2. k \in DOMAIN inbox'[w] /\ inbox'[w][k] = inbox[w][k]
      BY <2>1, <3>1
    <3> QED BY <3>1, <3>2 DEF Arrived
  <2>4. ASSUME e = m.event, n = m.attempt PROVE Arrived(e, w, n)'
    <3>1. Len(inbox[w]) + 1 \in DOMAIN inbox'[w]
      BY <2>1
    <3> QED BY <2>1, <2>4, <3>1 DEF Arrived
  <2> QED BY <1>2, <2>2, <2>3, <2>4
<1> QED BY <1>1, <1>2

LEMMA MessageOfFlying ==
    ASSUME TypeOK, NEW m \in flying
    PROVE  m = Message(m.event, m.to, m.attempt)
BY DEF TypeOK, Message

LEMMA SentByNetwork ==
    ASSUME TypeOK, NEW m \in flying, Arrive(m) \/ Lost(m),
           NEW e, NEW w \in Webhook, NEW n
    PROVE  Sent(e, w, n)' => Sent(e, w, n)
<1>1. CASE Lost(m)
  BY <1>1 DEF Lost, Sent, Message, Arrived
<1>2. CASE Arrive(m)
  <2>1. flying' \subseteq flying
    BY <1>2 DEF Arrive
  <2>2. Arrived(e, w, n)' => Sent(e, w, n)
    BY <1>2, ArrivedByArrive, MessageOfFlying DEF Sent
  <2> QED BY <2>1, <2>2 DEF Sent, Message
<1> QED BY <1>1, <1>2

LEMMA PassedStays ==
    ASSUME NEW s, Stays(s), NEW i, NEW h, NEW n
    PROVE  Passed(s, i, h, n)' <=> Passed(s, i, h, n)
BY DEF Stays, Passed

LEMMA PassedGrows ==
    ASSUME TypeOK, NEW s \in Senders, Moves(s), NEW i \in DOMAIN Script[s],
           NEW h \in DOMAIN Hooks, NEW n \in Nat, Passed(s, i, h, n)
    PROVE  Passed(s, i, h, n)'
<1>1. nth[s] \in Nat /\ hook[s] \in Nat /\ attempt[s] \in Nat /\ i \in Nat /\ h \in 1..Len(Hooks)
  BY ScriptFacts DEF TypeOK
<1>2. CASE Enters(s)
  BY <1>1, <1>2 DEF Enters, Passed
<1>3. CASE Leaves(s)
  BY <1>1, <1>3 DEF Leaves, Passed
<1>4. CASE Advances(s)
  BY <1>1, <1>4 DEF Advances, Passed
<1>5. CASE Requests(s)
  BY <1>1, <1>5 DEF Requests, Passed
<1>6. CASE Repeats(s)
  BY <1>1, <1>6 DEF Repeats, Passed
<1> QED BY <1>2, <1>3, <1>4, <1>5, <1>6 DEF Moves

LEMMA SendInvInit == Init => SendInv
<1> SUFFICES ASSUME Init PROVE SendInv
  OBVIOUS
<1>1. \A e, n : \A w \in Webhook : ~Sent(e, w, n)
  BY DEF Init, Sent, Arrived
<1>2. InTurn
  BY <1>1, ScriptFacts DEF InTurn
<1>3. AsConfigured /\ Allowed /\ ArrivesOnce
  BY <1>1 DEF Init, AsConfigured, Allowed, ArrivesOnce
<1> QED BY <1>2, <1>3 DEF SendInv

LEMMA SendInvByTask ==
    ASSUME TypeOK, SendInv, NEW s \in Senders, Sender(s)
    PROVE  SendInv'
<1>1. /\ Moves(s) /\ Others(s) /\ inbox' = inbox
      /\ flying' = flying \/ Sends(s)
  BY SenderStep DEF SendInv
<1>i. InTurn /\ AsConfigured /\ Allowed /\ ArrivesOnce
  BY DEF SendInv
<1>2. InTurn'
  <2> SUFFICES ASSUME NEW r \in Senders, NEW i \in DOMAIN Script[r], NEW h \in DOMAIN Hooks,
                      NEW n \in Nat, Sent(Script[r][i], Hooks[h], n)'
               PROVE  Passed(r, i, h, n)'
    BY DEF InTurn
  <2>1. CASE Sent(Script[r][i], Hooks[h], n)
    <3>1. Passed(r, i, h, n)
      BY <1>i, <2>1 DEF InTurn
    <3>2. CASE r = s
      BY <1>1, <3>1, <3>2, PassedGrows
    <3>3. CASE r # s
      BY <1>1, <3>1, <3>3, PassedStays DEF Others
    <3> QED BY <3>2, <3>3
  <2>2. CASE ~Sent(Script[r][i], Hooks[h], n)
    <3>1. Sends(s)
      BY <1>1, <2>2, SentByTask
    <3>2. Script[r][i] = Event(s) /\ Hooks[h] = To(s) /\ n = attempt[s]
      BY <1>1, <2>2, <3>1, SentByRequest DEF Sends
    <3>3. pc[s] # "idle" /\ hook[s] <= Len(Hooks)
      BY <3>1 DEF Sends, Requests
    <3>4. r = s /\ i = nth[s] /\ h = hook[s]
      BY <3>2, <3>3, AtCall, OnePlace DEF Event, To
    <3> QED BY <3>1, <3>2, <3>4 DEF Sends, Requests, Passed
  <2> QED BY <2>1, <2>2
<1>3. AsConfigured'
  <2> SUFFICES ASSUME NEW r \in Senders, pc'[r] \in {"request", "backoff"}
               PROVE  (Event(r) \in Handles[To(r)])'
    BY DEF AsConfigured
  <2>1. CASE r # s
    BY <1>1, <1>i, <2>1 DEF Others, Stays, AsConfigured, Event, To
  <2>2. CASE r = s
    <3>1. Requests(s) \/ Repeats(s)
      BY <1>1, <2>2 DEF Moves, Enters, Leaves, Advances
    <3>2. Event(s) \in Handles[To(s)] /\ nth'[s] = nth[s] /\ hook'[s] = hook[s]
      BY <1>i, <3>1 DEF Requests, Repeats, AsConfigured
    <3> QED BY <2>2, <3>2 DEF Event, To
  <2> QED BY <2>1, <2>2
<1>4. Allowed'
  <2> SUFFICES ASSUME NEW e \in Events, NEW w \in Webhook, NEW n \in Nat, Sent(e, w, n)'
               PROVE  n \in 1..Retries[w] /\ e \in Handles[w]
    BY DEF Allowed
  <2>1. CASE Sent(e, w, n)
    BY <1>i, <2>1 DEF Allowed
  <2>2. CASE ~Sent(e, w, n)
    <3>1. Sends(s)
      BY <1>1, <2>2, SentByTask
    <3>2. e = Event(s) /\ w = To(s) /\ n = attempt[s]
      BY <1>1, <2>2, <3>1, SentByRequest DEF Sends
    <3>3. attempt[s] \in 1..Retries[To(s)] /\ Event(s) \in Handles[To(s)]
      <4>1. /\ hook[s] <= Len(Hooks) /\ pc[s] \in {"send", "backoff"}
            /\ attempt[s] <= Retries[To(s)] /\ Event(s) \in Handles[To(s)]
        BY <3>1 DEF Sends, Requests
      <4>2. Retries[To(s)] \in Nat
        BY <4>1, AtCall, ScriptFacts
      <4>3. attempt[s] = 1 \/ attempt[s] \in 1..Retries[To(s)]
        BY <4>1 DEF TypeOK
      <4> QED BY <4>1, <4>2, <4>3
    <3> QED BY <3>2, <3>3
  <2> QED BY <2>1, <2>2
<1>5. ArrivesOnce'
  <2>1. CASE flying' = flying
    BY <1>1, <1>i, <2>1 DEF ArrivesOnce, Arrived
  <2>2. CASE Sends(s)
    <3>1. ~Sent(Event(s), To(s), attempt[s])
      <4>1. nth[s] \in DOMAIN Script[s] /\ hook[s] \in DOMAIN Hooks /\ attempt[s] \in Nat
        BY <2>2, AtCall DEF Sends, Requests, TypeOK
      <4>2. ~Passed(s, nth[s], hook[s], attempt[s])
        BY <2>2, <4>1, ScriptFacts DEF Sends, Requests, Passed, TypeOK
      <4> QED BY <1>i, <4>1, <4>2 DEF InTurn, Event, To
    <3>2. ~Arrived(Request(s).event, Request(s).to, Request(s).attempt)
      BY <3>1 DEF Request, Sent
    <3> QED BY <1>1, <1>i, <2>2, <3>2 DEF Sends, ArrivesOnce, Arrived
  <2> QED BY <1>1, <2>1, <2>2
<1> QED BY <1>2, <1>3, <1>4, <1>5 DEF SendInv

LEMMA SendInvByNetwork ==
    ASSUME TypeOK, SendInv, NEW m \in flying, Arrive(m) \/ Lost(m)
    PROVE  SendInv'
<1>i. InTurn /\ AsConfigured /\ Allowed /\ ArrivesOnce
  BY DEF SendInv
<1>s. pc' = pc /\ nth' = nth /\ hook' = hook /\ attempt' = attempt
  BY DEF Arrive, Lost, senderVars
<1>1. InTurn'
  <2> SUFFICES ASSUME NEW r \in Senders, NEW i \in DOMAIN Script[r], NEW h \in DOMAIN Hooks,
                      NEW n \in Nat, Sent(Script[r][i], Hooks[h], n)'
               PROVE  Passed(r, i, h, n)'
    BY DEF InTurn
  <2>1. Sent(Script[r][i], Hooks[h], n)
    BY SentByNetwork, ScriptFacts
  <2> QED BY <1>i, <1>s, <2>1 DEF InTurn, Passed
<1>2. AsConfigured'
  BY <1>i, <1>s DEF AsConfigured, Event, To
<1>3. Allowed'
  BY <1>i, SentByNetwork DEF Allowed
<1>4. ArrivesOnce'
  <2>1. CASE Lost(m)
    BY <1>i, <2>1 DEF Lost, ArrivesOnce, Arrived
  <2>2. CASE Arrive(m)
    <3>1. ASSUME NEW x \in flying' PROVE ~Arrived(x.event, x.to, x.attempt)'
      <4>1. x \in flying /\ x # m
        BY <2>2 DEF Arrive
      <4>2. x.to \in Webhook
        BY <4>1 DEF TypeOK
      <4>3. x.event # m.event \/ x.to # m.to \/ x.attempt # m.attempt
        BY <4>1, MessageOfFlying
      <4> QED BY <1>i, <2>2, <4>1, <4>2, <4>3, ArrivedByArrive DEF ArrivesOnce
    <3>2. ASSUME NEW w \in Webhook, NEW i \in DOMAIN inbox'[w], NEW j \in DOMAIN inbox'[w],
                 inbox'[w][i].event = inbox'[w][j].event,
                 inbox'[w][i].attempt = inbox'[w][j].attempt
          PROVE  i = j
      <4>1. CASE w # m.to
        BY <1>i, <2>2, <3>2, <4>1, ArriveFacts DEF ArrivesOnce
      <4>2. CASE w = m.to
        <5>1. /\ Len(inbox[w]) \in Nat /\ DOMAIN inbox[w] = 1..Len(inbox[w])
              /\ DOMAIN inbox'[w] = 1..(Len(inbox[w]) + 1)
              /\ inbox'[w][Len(inbox[w]) + 1].event = m.event
              /\ inbox'[w][Len(inbox[w]) + 1].attempt = m.attempt
              /\ \A k \in DOMAIN inbox[w] : inbox'[w][k] = inbox[w][k]
          BY <2>2, <4>2, ArriveFacts, InboxFacts DEF Grows
        <5>2. \A k \in DOMAIN inbox[w] :
                 ~(inbox[w][k].event = m.event /\ inbox[w][k].attempt = m.attempt)
          BY <1>i, <4>2 DEF ArrivesOnce, Arrived
        <5>3. /\ i \in DOMAIN inbox[w] \/ i = Len(inbox[w]) + 1
              /\ j \in DOMAIN inbox[w] \/ j = Len(inbox[w]) + 1
          BY <5>1
        <5> QED BY <1>i, <3>2, <5>1, <5>2, <5>3 DEF ArrivesOnce
      <4> QED BY <4>1, <4>2
    <3> QED BY <3>1, <3>2 DEF ArrivesOnce
  <2> QED BY <2>1, <2>2
<1> QED BY <1>1, <1>2, <1>3, <1>4 DEF SendInv

LEMMA SendInvStep == TypeOK /\ SendInv /\ [Next]_vars => SendInv'
<1> SUFFICES ASSUME TypeOK, SendInv, [Next]_vars PROVE SendInv'
  OBVIOUS
<1>1. CASE UNCHANGED vars
  BY <1>1 DEF vars, SendInv, InTurn, AsConfigured, Allowed, ArrivesOnce,
     Sent, Message, Arrived, Passed, Event, To
<1> QED BY <1>1, SendInvByTask, SendInvByNetwork DEF Next

-----------------------------------------------------------------------------
(* What send() returned *)

(* What an inbox holds after a step, it held, or it came last. *)
LEMMA InboxStep ==
    ASSUME TypeOK, SendInv, [Next]_vars
    PROVE  /\ Grows
           /\ \A w \in Webhook : \A k \in DOMAIN inbox'[w] :
                 k \in DOMAIN inbox[w] \/ \A n \in DOMAIN inbox[w] : n < k
<1>1. CASE inbox' = inbox
  BY <1>1 DEF Grows
<1>2. ASSUME NEW m \in flying, Arrive(m)
      PROVE  /\ Grows
             /\ \A w \in Webhook : \A k \in DOMAIN inbox'[w] :
                   k \in DOMAIN inbox[w] \/ \A n \in DOMAIN inbox[w] : n < k
  <2>1. ASSUME NEW w \in Webhook, NEW k \in DOMAIN inbox'[w], k \notin DOMAIN inbox[w],
               NEW n \in DOMAIN inbox[w]
        PROVE  n < k
    <3>1. w = m.to
      BY <1>2, <2>1, ArriveFacts
    <3>2. /\ Len(inbox[w]) \in Nat /\ DOMAIN inbox[w] = 1..Len(inbox[w])
          /\ DOMAIN inbox'[w] = 1..(Len(inbox[w]) + 1)
      BY <1>2, <3>1, ArriveFacts, InboxFacts
    <3> QED BY <2>1, <3>2
  <2> QED BY <1>2, <2>1, ArriveFacts
<1>3. ASSUME NEW s \in Senders, Sender(s) PROVE inbox' = inbox
  BY <1>3, SenderStep DEF SendInv
<1> QED BY <1>1, <1>2, <1>3 DEF Next, Lost, vars

LEMMA AcceptedGrows ==
    ASSUME Grows, NEW w \in Webhook, NEW e
    PROVE  Accepted(e, w) \subseteq Accepted(e, w)'
BY DEF Grows, Accepted

LEMMA OutcomeStep ==
    ASSUME TypeOK, SendInv, [Next]_vars
    PROVE  \/ outcome' = outcome
           \/ inbox' = inbox /\ \E s \in Senders : Learns(s)
<1>1. ASSUME NEW s \in Senders, Sender(s) PROVE inbox' = inbox /\ Learns(s)
  BY <1>1, SenderStep DEF SendInv
<1> QED BY <1>1 DEF Next, Arrive, Lost, vars

LEMMA OkStep == TypeOK /\ SendInv /\ OkMeansDelivered /\ [Next]_vars => OkMeansDelivered'
<1> SUFFICES ASSUME TypeOK, SendInv, OkMeansDelivered, [Next]_vars,
                    NEW e \in Events, NEW w \in Webhook, outcome'[e][w] = "ok", Retries[w] > 0
             PROVE  Accepted(e, w)' # {}
  BY DEF OkMeansDelivered
<1>1. Accepted(e, w) # {}
  <2>1. CASE outcome'[e][w] = outcome[e][w]
    BY <2>1 DEF OkMeansDelivered
  <2>2. CASE outcome'[e][w] # outcome[e][w]
    <3>1. PICK s \in Senders : Learns(s)
      BY <2>2, OutcomeStep
    <3>2. e = Event(s) /\ w = To(s) /\ (Retries[w] = 0 \/ Accepted(e, w) # {})
      BY <2>2, <3>1 DEF Learns
    <3> QED BY <3>2
  <2> QED BY <2>1, <2>2
<1> QED BY <1>1, InboxStep, AcceptedGrows

(* Of the events after the one that a task is at, nothing has been sent. *)
LEMMA NothingAhead ==
    ASSUME TypeOK, SendInv, NEW s \in Senders, NEW j \in DOMAIN Script[s], nth[s] < j,
           NEW w \in Webhook
    PROVE  Received(Script[s][j], w) = {}
<1>1. PICK h \in DOMAIN Hooks : Hooks[h] = w
  BY DEF Webhook
<1>2. ASSUME NEW k \in Received(Script[s][j], w) PROVE FALSE
  <2>1. k \in DOMAIN inbox[w] /\ inbox[w][k].event = Script[s][j] /\ inbox[w][k].attempt \in Nat
    BY <1>2, InboxFacts DEF Received
  <2>2. Sent(Script[s][j], Hooks[h], inbox[w][k].attempt)
    BY <1>1, <2>1 DEF Sent, Arrived
  <2>3. Passed(s, j, h, inbox[w][k].attempt)
    BY <2>1, <2>2 DEF SendInv, InTurn
  <2> QED BY <2>3, ScriptFacts DEF Passed, TypeOK
<1> QED BY <1>2

LEMMA OrderStep ==
    TypeOK /\ SendInv /\ OkMeansDelivered /\ DeliveredInOrder /\ [Next]_vars => DeliveredInOrder'
<1> SUFFICES ASSUME TypeOK, SendInv, OkMeansDelivered, DeliveredInOrder, [Next]_vars,
                    NEW s \in Senders, NEW i \in DOMAIN Script[s], NEW j \in DOMAIN Script[s],
                    NEW w \in Webhook, i < j, Retries[w] > 0,
                    outcome'[Script[s][i]][w] = "ok",
                    NEW k \in Received(Script[s][j], w)'
             PROVE  \E n \in Accepted(Script[s][i], w)' : n < k
  BY DEF DeliveredInOrder
<1>0. Script[s][i] \in Events /\ Script[s][j] \in Events
  BY ScriptFacts
<1>1. CASE outcome'[Script[s][i]][w] = outcome[Script[s][i]][w]
  <2>1. CASE k \in Received(Script[s][j], w)
    <3>1. PICK n \in Accepted(Script[s][i], w) : n < k
      BY <1>1, <2>1 DEF DeliveredInOrder
    <3> QED BY <3>1, InboxStep, AcceptedGrows
  <2>2. CASE k \notin Received(Script[s][j], w)
    <3>1. k \in DOMAIN inbox'[w] /\ k \notin DOMAIN inbox[w]
      BY <2>2, InboxStep DEF Received, Grows
    <3>2. PICK n : n \in Accepted(Script[s][i], w)
      BY <1>0, <1>1 DEF OkMeansDelivered
    <3>3. n < k
      BY <3>1, <3>2, InboxStep DEF Accepted
    <3> QED BY <3>2, <3>3, InboxStep, AcceptedGrows
  <2> QED BY <2>1, <2>2
<1>2. CASE outcome'[Script[s][i]][w] # outcome[Script[s][i]][w]
  <2>1. PICK r \in Senders : Learns(r) /\ inbox' = inbox
    BY <1>2, OutcomeStep
  <2>2. Script[s][i] = Event(r) /\ nth[r] \in DOMAIN Script[r]
    BY <1>0, <1>2, <2>1 DEF Learns
  <2>3. nth[s] = i
    BY <2>2, WebhooksAssumption DEF Event
  <2>4. Received(Script[s][j], w) = {}
    BY <2>3, NothingAhead
  <2> QED BY <2>1, <2>4 DEF Received
<1> QED BY <1>1, <1>2

-----------------------------------------------------------------------------
HooksInv == TypeOK /\ SendInv /\ OkMeansDelivered /\ DeliveredInOrder

LEMMA HooksInvariant == Spec => []HooksInv
<1>1. Init => HooksInv
  <2> SUFFICES ASSUME Init PROVE HooksInv
    OBVIOUS
  <2>1. OkMeansDelivered
    BY DEF Init, OkMeansDelivered
  <2>2. DeliveredInOrder
    BY ScriptFacts DEF Init, DeliveredInOrder
  <2> QED BY <2>1, <2>2, TypeInit, SendInvInit DEF HooksInv
<1>2. HooksInv /\ [Next]_vars => HooksInv'
  BY TypeStep, SendInvStep, OkStep, OrderStep DEF HooksInv, SendInv
<1> QED BY <1>1, <1>2, PTL DEF Spec

(* The tasks, the requests and the inboxes keep to their types. *)
THEOREM TypeCorrect == Spec => []TypeOK
<1>1. HooksInv => TypeOK
  BY DEF HooksInv
<1> QED BY <1>1, HooksInvariant, PTL

(* WebhookClient::send: Ok for an event that is handled means that the     *)
(* endpoint has accepted it, whatever was lost, late or tried again.       *)
THEOREM OkIsTrue == Spec => []OkMeansDelivered
<1>1. HooksInv => OkMeansDelivered
  BY DEF HooksInv
<1> QED BY <1>1, HooksInvariant, PTL

(* WebhookClient::send: each attempt reaches an endpoint once at most, and *)
(* there are max_retries of them, for the events it is configured for.     *)
THEOREM CopiesAreBounded == Spec => []CopiesBounded
<1>1. HooksInv => CopiesBounded
  <2> SUFFICES ASSUME TypeOK, SendInv, NEW e \in Events, NEW w \in Webhook
               PROVE  /\ Copies(e, w) \subseteq (IF e \in Handles[w] THEN 1..Retries[w] ELSE {})
                      /\ \A i, j \in Received(e, w) :
                            inbox[w][i].attempt = inbox[w][j].attempt => i = j
    BY DEF HooksInv, CopiesBounded
  <2>1. ASSUME NEW n \in Copies(e, w) PROVE n \in Nat /\ Sent(e, w, n)
    <3>1. CASE \E i \in Received(e, w) : n = inbox[w][i].attempt
      BY <3>1, InboxFacts DEF Received, Sent, Arrived
    <3>2. CASE \E m \in flying : m.event = e /\ m.to = w /\ n = m.attempt
      BY <3>2, MessageOfFlying DEF Sent, TypeOK
    <3> QED BY <2>1, <3>1, <3>2 DEF Copies
  <2>2. Copies(e, w) \subseteq (IF e \in Handles[w] THEN 1..Retries[w] ELSE {})
    BY <2>1 DEF SendInv, Allowed
  <2>3. \A i, j \in Received(e, w) : inbox[w][i].attempt = inbox[w][j].attempt => i = j
    BY DEF SendInv, ArrivesOnce, Received
  <2> QED BY <2>2, <2>3
<1> QED BY <1>1, HooksInvariant, PTL

(* WebhookManager::send_event: an event that was delivered is seen before  *)
(* anything of the events that its task sends after it.                    *)
THEOREM OrderIsKept == Spec => []DeliveredInOrder
<1>1. HooksInv => DeliveredInOrder
  BY DEF HooksInv
<1> QED BY <1>1, HooksInvariant, PTL
=============================================================================
