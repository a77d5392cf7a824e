------------------------------ MODULE Webhooks ------------------------------
(***************************************************************************)
(* The webhook server (internal/webhook) and the adapters that feed its     *)
(* events to the controller (cmd/osmia/main.go, internal/controller         *)
(* incident.go).                                                            *)
(*                                                                          *)
(* A delivery names its source, says whether it is signed as that source    *)
(* demands, and carries a sequence of items: one issue for GitHub and       *)
(* GitLab, the actions of a Shortcut or Slack payload, the one ticket the   *)
(* field mapping of the generic source extracts, one incident.io event.     *)
(* Several requests run at once, each handling its items one after the      *)
(* other; a sender whose delivery was not answered 200, or whose answer was *)
(* lost, delivers it again.                                                 *)
(***************************************************************************)
EXTENDS Integers, Sequences, FiniteSets, SequencesExt

CONSTANTS
    Events,          \* the deliveries there are
    Inboxes,         \* sets of deliveries that arrive in one behaviour
    Slots,           \* requests the server can be serving at once
    TriggerLabels,   \* githubTriggerLabels
    TargetState,     \* shortcutTargetStateID, 0 when none is configured
    Configured,      \* the sources with a secret (or a prepared config)
    MaxDeliveries,   \* how often one event is delivered
    MaxFaults        \* how many launches or approvals fail

VARIABLES
    inbox,      \* the deliveries of this behaviour
    sent,       \* sent[e]: how often e was delivered
    answer,     \* answer[e]: the last answer its sender received, 0 for none
    serving,    \* serving[s]: the request in slot s
    jobs,       \* jobs[k]: how many live Jobs carry the idempotency key k
    tracked,    \* taskRuns: keys whose tracked run is not terminal
    gate,       \* gate[a]: the approval a task run is waiting for
    done,       \* done[e]: items of e that were handled without an error
    faults      \* the failures that happened so far

hookVars == <<inbox, sent, answer, serving, jobs, tracked, gate, done, faults>>

Idle == [event |-> [source |-> "none"], work |-> <<>>, failed |-> FALSE, at |-> "idle"]

\* handleSlack: action ids that start with osmia_approval_.
IsApproval(i) == i.kind = "osmia_approval"

\* handleGitHub after authentication: an issue that was opened or labelled and
\* carries one of the trigger labels, if any are configured.
GitHubWork(e) ==
    SelectSeq(e.items, LAMBDA i :
        /\ i.kind = "issues"
        /\ i.act \in {"opened", "labeled"}
        /\ TriggerLabels # {} => i.tags \cap TriggerLabels # {})

\* handleGitLab: issues and merge requests, whatever happened to them.
GitLabWork(e) ==
    SelectSeq(e.items, LAMBDA i : i.kind \in {"issue", "merge_request"})

\* handleShortcut: story updates, only those that moved into the target state
\* when one is configured.
ShortcutWork(e) ==
    SelectSeq(e.items, LAMBDA i :
        /\ i.kind = "story"
        /\ i.act = "update"
        /\ TargetState # 0 => TargetState \in i.tags)

\* handleSlack: the approval callbacks are resolved while the actions are
\* walked; the other actions become tickets afterwards.
SlackWork(e) ==
    SelectSeq(e.items, IsApproval)
      \o SelectSeq(e.items, LAMBDA i : ~ IsApproval(i))

\* handleGeneric: the mapped fields; a payload without an id is refused.
GenericWork(e) == SelectSeq(e.items, LAMBDA i : i.id # "")

\* ParseIncidentEvent: the two known event types, the body under a key of the
\* same name, both statuses of a status update, and an incident id.
ParseIncidentEvent(e) ==
    SelectSeq(e.items, LAMBDA i :
        /\ i.kind \in {"created", "updated"}
        /\ "body" \in i.tags
        /\ i.kind = "updated" => {"new_status", "previous_status"} \subseteq i.tags
        /\ i.id # "")

WorkOf(e) ==
    CASE e.source = "github"   -> GitHubWork(e)
      [] e.source = "gitlab"   -> GitLabWork(e)
      [] e.source = "shortcut" -> ShortcutWork(e)
      [] e.source = "slack"    -> SlackWork(e)
      [] e.source = "generic"  -> GenericWork(e)
      [] e.source = "incident-io" -> ParseIncidentEvent(e)

\* The answer a handler gives before it looks at the items: 500 without a
\* secret, 401 for a bad signature. Shortcut alone skips the signature when no
\* secret is configured.
Authenticate(e) ==
    IF e.source \notin Configured
    THEN IF e.source = "shortcut" THEN 200 ELSE 500
    ELSE IF e.signed THEN 200 ELSE 401

\* What remains to be said when nothing is to be done: generic and incident.io
\* payloads that produce nothing are malformed, the others are ignored.
Nothing(e) == IF e.source \in {"generic", "incident-io"} THEN 400 ELSE 200

\* The idempotency key of an item: the ticket id, or the incident id with the
\* event type.
KeyOf(e, i) == IF e.source = "incident-io" THEN <<i.id, i.kind>> ELSE <<i.id, "ticket">>

Keys == {KeyOf(e, e.items[n]) : <<e, n>> \in
            {x \in Events \X (1..2) : x[2] <= Len(x[1].items)}}
Gates == {i.id : i \in {j \in UNION {ToSet(e.items) : e \in Events} : IsApproval(j)}}

HooksInit ==
    /\ inbox \in Inboxes
    /\ sent = [e \in Events |-> 0]
    /\ answer = [e \in Events |-> 0]
    /\ serving = [s \in Slots |-> Idle]
    /\ jobs = [k \in Keys |-> 0]
    /\ tracked = {}
    /\ gate = [g \in Gates |-> "pending"]
    /\ done = [e \in Events |-> {}]
    /\ faults = 0

\* A delivery arrives: the first one, or another one because the answer was not
\* 200 or did not come in time (answer 0 while a request is still running).
Deliver(e, s) ==
    /\ serving[s].at = "idle"
    /\ sent[e] < MaxDeliveries
    /\ answer[e] # 200
    /\ sent' = [sent EXCEPT ![e] = @ + 1]
    /\ IF Authenticate(e) # 200
       THEN /\ answer' = [answer EXCEPT ![e] = Authenticate(e)]
            /\ UNCHANGED serving
       ELSE IF WorkOf(e) = <<>>
       THEN /\ answer' = [answer EXCEPT ![e] = Nothing(e)]
            /\ UNCHANGED serving
       ELSE /\ serving' = [serving EXCEPT ![s] =
                  [event |-> e, work |-> WorkOf(e), failed |-> FALSE, at |-> "next"]]
            /\ UNCHANGED answer
    /\ UNCHANGED <<inbox, jobs, tracked, gate, done, faults>>

\* The request of slot s goes on with the rest of its items.
Handled(s) ==
    LET q == serving[s] IN
    /\ serving' = [serving EXCEPT ![s] = [q EXCEPT !.work = Tail(@), !.at = "next"]]
    /\ done' = [done EXCEPT ![q.event] = @ \cup {Head(q.work)}]

\* The request of slot s ends with answer n, which may be lost on its way.
Respond(s, n) ==
    /\ serving' = [serving EXCEPT ![s] = Idle]
    /\ \E lost \in BOOLEAN :
          answer' = IF lost THEN answer ELSE [answer EXCEPT ![serving[s].event] = n]

\* HandleApprovalCallback: ResolveApproval answers an error for a run that is
\* not waiting (any more); the handler then returns 500 without looking at the
\* remaining actions.
HandleApprovalCallback(s) ==
    LET q == serving[s] i == Head(q.work) IN
    /\ q.at = "next" /\ q.work # <<>> /\ IsApproval(i) /\ q.event.source = "slack"
    /\ IF gate[i.id] = "pending"
       THEN /\ gate' = [gate EXCEPT ![i.id] = IF i.act \in {"approve", "continue"}
                                              THEN "approved" ELSE "rejected"]
            /\ Handled(s)
            /\ UNCHANGED answer
       ELSE /\ Respond(s, 500)
            /\ UNCHANGED <<gate, done>>
    /\ UNCHANGED <<inbox, sent, jobs, tracked, faults>>

\* ProcessTicket and ProcessIncidentEvent look the key up under the lock: a run
\* that is not terminal makes the item a no-op.
CheckExisting(s) ==
    LET q == serving[s] i == Head(q.work) IN
    /\ q.at = "next" /\ q.work # <<>>
    /\ ~ (IsApproval(i) /\ q.event.source = "slack")
    /\ IF KeyOf(q.event, i) \in tracked
       THEN Handled(s)
       ELSE /\ serving' = [serving EXCEPT ![s].at = "launch"]
            /\ UNCHANGED done
    /\ UNCHANGED <<inbox, sent, answer, jobs, tracked, gate, faults>>

\* launchTaskRun: the Job is created and then the run is put into taskRuns.
LaunchTaskRun(s) ==
    LET q == serving[s] k == KeyOf(q.event, Head(q.work)) IN
    /\ q.at = "launch"
    /\ jobs' = [jobs EXCEPT ![k] = @ + 1]
    /\ tracked' = tracked \cup {k}
    /\ Handled(s)
    /\ UNCHANGED <<inbox, sent, answer, gate, faults>>

\* What a failed item does to its request: HandleWebhookEvent remembers the
\* error and goes on with the other tickets.
\* (Variant: only the error of the last ticket is returned.)
RememberLast(q) ==
    [q EXCEPT !.work = Tail(@), !.at = "next", !.failed = Len(q.work) = 1]
Remember(q) == [q EXCEPT !.work = Tail(@), !.at = "next", !.failed = TRUE]

LaunchFails(s) ==
    LET q == serving[s] IN
    /\ q.at = "launch"
    /\ faults < MaxFaults
    /\ faults' = faults + 1
    /\ serving' = [serving EXCEPT ![s] = Remember(q)]
    /\ UNCHANGED <<inbox, sent, answer, jobs, tracked, gate, done>>

\* All items were walked: 500 if one of them failed, 200 otherwise.
AnswerSender(s) ==
    /\ serving[s].at = "next" /\ serving[s].work = <<>>
    /\ Respond(s, IF serving[s].failed THEN 500 ELSE 200)
    /\ UNCHANGED <<inbox, sent, jobs, tracked, gate, done, faults>>

\* The Job of the tracked run ends and the run becomes terminal.
RunEnds(k) ==
    /\ k \in tracked
    /\ tracked' = tracked \ {k}
    /\ jobs' = [jobs EXCEPT ![k] = @ - 1]
    /\ UNCHANGED <<inbox, sent, answer, serving, gate, done, faults>>

HooksNext ==
    \/ \E e \in inbox, s \in Slots : Deliver(e, s)
    \/ \E s \in Slots :
          \/ HandleApprovalCallback(s) \/ CheckExisting(s)
          \/ LaunchTaskRun(s) \/ LaunchFails(s) \/ AnswerSender(s)
    \/ \E k \in Keys : RunEnds(k)

HooksSpec == HooksInit /\ [][HooksNext]_hookVars

\* A delivery is answered 200 only when every item it asks for has been handled
\* without an error by one of its requests: an event is never acknowledged and
\* lost (webhookAdapter.HandleWebhookEvent, handleSlack).
AcknowledgedIsHandled ==
    \A e \in Events :
        answer[e] = 200 /\ Authenticate(e) = 200 => ToSet(WorkOf(e)) \subseteq done[e]
=============================================================================
