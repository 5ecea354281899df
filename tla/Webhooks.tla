------------------------------ MODULE Webhooks ------------------------------
(***************************************************************************)
(* WebhookManager and WebhookClient (src/notifications/mod.rs): tasks that *)
(* share a manager send their events, one after the other, to every        *)
(* webhook in its list, with a timeout for each request and retries after  *)
(* a pause.  A request may be lost, its answer may be lost or come too     *)
(* late, and a request that was given up may still arrive.                 *)
(***************************************************************************)
EXTENDS Naturals, Sequences

CONSTANTS
    Senders,   \* tasks
    Script,    \* Script[s]: the events that s sends, in this order
    Hooks,     \* the list of webhooks
    Handles,   \* Handles[w]: the events of the types that w is configured for
    Retries    \* Retries[w]: max_retries

Webhook == {Hooks[i] : i \in DOMAIN Hooks}
Events == UNION {{Script[s][i] : i \in DOMAIN Script[s]} : s \in Senders}

ASSUME WebhooksAssumption ==
    /\ Script \in [Senders -> Seq(Events)] /\ Hooks \in Seq(Webhook)
    /\ \A i, j \in DOMAIN Hooks : Hooks[i] = Hooks[j] => i = j
    /\ \A s, r \in Senders : \A i \in DOMAIN Script[s], j \in DOMAIN Script[r] :
          Script[s][i] = Script[r][j] => s = r /\ i = j
    /\ Handles \in [Webhook -> SUBSET Events]
    /\ Retries \in [Webhook -> Nat]

VARIABLES
    pc,        \* where each sender is: "idle", "send", "request" or "backoff"
    nth,       \* nth[s]: index in its script of the event s is at
    hook,      \* hook[s]: index of the webhook s is at
    attempt,   \* attempt[s]: attempt of send(), from 1
    flying,    \* requests on their way
    inbox,     \* inbox[w]: what w has received: event, attempt, and whether
               \* it answered with a status of success
    outcome    \* observer: what send() of an event returned for a webhook

senderVars == <<pc, nth, hook, attempt>>
vars == <<pc, nth, hook, attempt, flying, inbox, outcome>>

Event(s) == Script[s][nth[s]]
To(s) == Hooks[hook[s]]
Request(s) == [event |-> Event(s), to |-> To(s), attempt |-> attempt[s]]
Goto(s, label) == pc' = [pc EXCEPT ![s] = label]

Init ==
    /\ pc = [s \in Senders |-> "idle"]
    /\ nth = [s \in Senders |-> 1]
    /\ hook = [s \in Senders |-> 1]
    /\ attempt = [s \in Senders |-> 1]
    /\ flying = {}
    /\ inbox = [w \in Webhook |-> <<>>]
    /\ outcome = [e \in Events |-> [w \in Webhook |-> "none"]]

-----------------------------------------------------------------------------
(* send() has returned for one webhook; send_event goes on with the next. *)
Returned(s, result) ==
    /\ outcome' = [outcome EXCEPT ![Event(s)][To(s)] = result]
    /\ hook' = [hook EXCEPT ![s] = @ + 1]
    /\ attempt' = [attempt EXCEPT ![s] = 1]
    /\ Goto(s, "send")
    /\ UNCHANGED nth

SendEvent(s) ==
    /\ pc[s] = "idle" /\ nth[s] <= Len(Script[s])
    /\ hook' = [hook EXCEPT ![s] = 1]
    /\ Goto(s, "send")
    /\ UNCHANGED <<nth, attempt, flying, inbox, outcome>>

(* send_event returns Ok, whatever has failed. *)
EventSent(s) ==
    /\ pc[s] = "send" /\ hook[s] = Len(Hooks) + 1
    /\ nth' = [nth EXCEPT ![s] = @ + 1]
    /\ Goto(s, "idle")
    /\ UNCHANGED <<hook, attempt, flying, inbox, outcome>>

(* should_handle says no. *)
Skip(s) ==
    /\ pc[s] = "send" /\ hook[s] <= Len(Hooks)
    /\ Event(s) \notin Handles[To(s)]
    /\ Returned(s, "skipped")
    /\ UNCHANGED <<flying, inbox>>

(* The loop over 1..=0 does nothing, and Ok is returned. *)
NoAttempt(s) ==
    /\ pc[s] = "send" /\ hook[s] <= Len(Hooks)
    /\ Event(s) \in Handles[To(s)] /\ Retries[To(s)] = 0
    /\ Returned(s, "ok")
    /\ UNCHANGED <<flying, inbox>>

(* Faulty variant: the request is spawned and not awaited. *)
SendOnceUnawaited(s) ==
    /\ pc[s] = "send" /\ hook[s] <= Len(Hooks)
    /\ Event(s) \in Handles[To(s)] /\ Retries[To(s)] > 0
    /\ flying' = flying \cup {Request(s)}
    /\ Returned(s, "ok")
    /\ UNCHANGED inbox

(* The first request to a webhook, or the next one after the pause. *)
SendOnce(s) ==
    /\ \/ /\ pc[s] = "send" /\ hook[s] <= Len(Hooks)
          /\ Event(s) \in Handles[To(s)] /\ Retries[To(s)] > 0
       \/ pc[s] = "backoff"
    /\ flying' = flying \cup {Request(s)}
    /\ Goto(s, "request")
    /\ UNCHANGED <<nth, hook, attempt, inbox, outcome>>

-----------------------------------------------------------------------------
(* Faulty variant: `?` in send_event: the webhooks that are left get nothing. *)
AttemptFailedLeaves(s) ==
    IF attempt[s] = Retries[To(s)]
    THEN /\ outcome' = [outcome EXCEPT ![Event(s)][To(s)] = "failed"]
         /\ nth' = [nth EXCEPT ![s] = @ + 1]
         /\ attempt' = [attempt EXCEPT ![s] = 1]
         /\ Goto(s, "idle")
         /\ UNCHANGED hook
    ELSE /\ attempt' = [attempt EXCEPT ![s] = @ + 1]
         /\ Goto(s, "backoff")
         /\ UNCHANGED <<nth, hook, outcome>>

(* Faulty variant: the attempts are not counted. *)
AttemptFailedAgain(s) ==
    /\ Goto(s, "backoff")
    /\ UNCHANGED <<nth, hook, attempt, outcome>>

(* send_once has failed: a pause and another attempt, or the error. *)
AttemptFailed(s) ==
    IF attempt[s] = Retries[To(s)]
    THEN Returned(s, "failed")
    ELSE /\ attempt' = [attempt EXCEPT ![s] = @ + 1]
         /\ Goto(s, "backoff")
         /\ UNCHANGED <<nth, hook, outcome>>

(* The answer to this attempt: its status decides. *)
Answered(s) ==
    /\ pc[s] = "request"
    /\ \E i \in DOMAIN inbox[To(s)] :
          LET got == inbox[To(s)][i] IN
          /\ got.event = Event(s) /\ got.attempt = attempt[s]
          /\ IF got.ok THEN Returned(s, "ok") ELSE AttemptFailed(s)
    /\ UNCHANGED <<flying, inbox>>

(* Faulty variant: what was not refused in time is taken for delivered. *)
TimedOutOk(s) ==
    /\ pc[s] = "request"
    /\ Returned(s, "ok")
    /\ UNCHANGED <<flying, inbox>>

(* No connection, or no answer within the timeout.  The request may be on  *)
(* its way still, or have been answered.                                   *)
TimedOut(s) ==
    /\ pc[s] = "request"
    /\ AttemptFailed(s)
    /\ UNCHANGED <<flying, inbox>>

Sender(s) ==
    \/ SendEvent(s) \/ EventSent(s) \/ Skip(s) \/ NoAttempt(s)
    \/ SendOnce(s) \/ Answered(s) \/ TimedOut(s)

-----------------------------------------------------------------------------
(* The network and the endpoints *)

Arrive(m) ==
    /\ flying' = flying \ {m}
    /\ \E ok \in BOOLEAN :
          inbox' = [inbox EXCEPT ![m.to] =
                      Append(@, [event |-> m.event, attempt |-> m.attempt, ok |-> ok])]
    /\ UNCHANGED <<senderVars, outcome>>

Lost(m) ==
    /\ flying' = flying \ {m}
    /\ UNCHANGED <<senderVars, inbox, outcome>>

Next ==
    \/ \E s \in Senders : Sender(s)
    \/ \E m \in flying : Arrive(m) \/ Lost(m)

Spec == Init /\ [][Next]_vars

(* The executor runs the tasks and its timers; nothing is assumed of the   *)
(* network and of the endpoints.                                           *)
FairSpec == Spec /\ \A s \in Senders : WF_vars(Sender(s))

-----------------------------------------------------------------------------
(* Properties *)

Accepted(e, w) == {i \in DOMAIN inbox[w] : inbox[w][i].event = e /\ inbox[w][i].ok}
Received(e, w) == {i \in DOMAIN inbox[w] : inbox[w][i].event = e}
Copies(e, w) ==
    {inbox[w][i].attempt : i \in Received(e, w)} \cup
    {m.attempt : m \in {x \in flying : x.event = e /\ x.to = w}}

(* Type invariant. *)
TypeOK ==
    /\ pc \in [Senders -> {"idle", "send", "request", "backoff"}]
    /\ nth \in [Senders -> Nat] /\ hook \in [Senders -> 1..(Len(Hooks) + 1)]
    /\ attempt \in [Senders -> Nat]
    /\ \A s \in Senders :
          /\ nth[s] \in 1..(Len(Script[s]) + 1)
          /\ pc[s] # "idle" => nth[s] <= Len(Script[s])
          /\ pc[s] \in {"request", "backoff"} =>
                hook[s] <= Len(Hooks) /\ attempt[s] \in 1..Retries[To(s)]
          /\ pc[s] \in {"idle", "send"} => attempt[s] = 1
    /\ flying \subseteq [event : Events, to : Webhook, attempt : Nat]
    /\ inbox \in [Webhook -> Seq([event : Events, attempt : Nat, ok : BOOLEAN])]
    /\ outcome \in [Events -> [Webhook -> {"none", "skipped", "ok", "failed"}]]

(* send() tells the truth: Ok for an event that the webhook is configured  *)
(* for means that the endpoint has accepted it, at whatever attempt, if    *)
(* there is one (max_retries is the number of attempts).  An error means   *)
(* only that no attempt is known to have worked.                           *)
OkMeansDelivered ==
    \A e \in Events : \A w \in Webhook :
        outcome[e][w] = "ok" /\ Retries[w] > 0 => Accepted(e, w) # {}

(* An endpoint that fails, or never answers, does not keep the others from *)
(* being tried, nor the caller from going on: each webhook of the list has *)
(* had its call when send_event returns, and it returns for every event.   *)
EveryWebhookTried ==
    /\ [](\A s \in Senders : \A i \in DOMAIN Script[s] : \A w \in Webhook :
             i < nth[s] => outcome[Script[s][i]][w] # "none")
    /\ \A s \in Senders : <>(nth[s] > Len(Script[s]))

(* An event reaches an endpoint at most max_retries times, however late    *)
(* its requests arrive, and not at all if it is not configured for it.     *)
CopiesBounded ==
    \A e \in Events : \A w \in Webhook :
        /\ Copies(e, w) \subseteq (IF e \in Handles[w] THEN 1..Retries[w] ELSE {})
        /\ \A i, j \in Received(e, w) : inbox[w][i].attempt = inbox[w][j].attempt => i = j

(* Two events of one task, the first of which was delivered: the endpoint  *)
(* has seen the first before it sees anything of the second.  Only copies  *)
(* of attempts that were given up may come after it.                       *)
DeliveredInOrder ==
    \A s \in Senders : \A i, j \in DOMAIN Script[s] : \A w \in Webhook :
        /\ i < j /\ Retries[w] > 0
        /\ outcome[Script[s][i]][w] = "ok"
        => \A k \in Received(Script[s][j], w) :
              \E n \in Accepted(Script[s][i], w) : n < k

=============================================================================
