---------------------------- MODULE LocalTickets ----------------------------
(***************************************************************************)
(* The local ticketing backend: tickets in SQLite, each operation one      *)
(* transaction that changes the row and writes the audit event, used by    *)
(* the controller and, concurrently, by the handlers of the local UI.      *)
(***************************************************************************)
EXTENDS Integers, Sequences, FiniteSets

CONSTANTS
  TicketIDs,
  Seed,          \* tickets of the seed file
  Clients,       \* concurrent requests of the local UI
  MaxEventsOf    \* bound: audit events of one ticket

ASSUME SeedAssumption == Seed \subseteq TicketIDs

VARIABLES
  row,           \* tickets: the row's state and run_state
  log,           \* ticket_events of each ticket
  req,           \* the UI's requests: a requeue is checked before it is made
  opened,        \* the backend is open (New has run)
  requests,      \* how often each was put up
  marks          \* tickets marked since they were last put up

localVars == <<row, log, req, opened, requests, marks>>

NoRow == [state |-> "none", run |-> "none"]
Row(s, r) == [state |-> s, run |-> r]
NoRequest == [ticket |-> "none", eligible |-> FALSE]

LocalInit ==
  /\ row = [t \in TicketIDs |-> NoRow] /\ log = [t \in TicketIDs |-> <<>>]
  /\ req = [c \in Clients |-> NoRequest] /\ opened = FALSE
  /\ requests = [t \in TicketIDs |-> 0] /\ marks = {}

Has(t) == row[t] # NoRow
Room(t) == Len(log[t]) < MaxEventsOf
Event(t, e) == log' = [log EXCEPT ![t] = Append(@, e)]

\* Variant: a ticket of the seed file is written anew at every start.
ImportAnew ==
  /\ ~opened /\ opened' = TRUE
  /\ row' = [t \in TicketIDs |-> IF t \in Seed THEN Row("todo", "idle") ELSE row[t]]
  /\ UNCHANGED <<log, req, requests, marks>>

\* New: the seed file is imported in one transaction; a ticket that is there already
\* is left as it is.
ImportSeedFile ==
  LET new == {t \in Seed : ~Has(t)}
  IN /\ ~opened /\ opened' = TRUE
     /\ row' = [t \in TicketIDs |-> IF t \in new THEN Row("todo", "idle") ELSE row[t]]
     /\ log' = [t \in TicketIDs |-> IF t \in new THEN <<"imported">> ELSE log[t]]
     /\ requests' = [t \in TicketIDs |-> IF t \in new THEN 1 ELSE requests[t]]
     /\ UNCHANGED <<req, marks>>

\* The process ends and the store stays; a request in progress is lost.
CloseBackend ==
  /\ opened /\ opened' = FALSE /\ req' = [c \in Clients |-> NoRequest]
  /\ UNCHANGED <<row, log, requests, marks>>

-----------------------------------------------------------------------------
(* The controller *)

\* listReadyTickets
ReadyTicket(t) == row[t] = Row("todo", "idle")

\* The row a transition sets, given the one it loads: nothing on a repetition.
\* A failure keeps the board's column.
Transition(old, event) ==
  [marked_in_progress |-> Row("in_progress", "running"),
   marked_complete    |-> Row("done", "succeeded"),
   marked_failed      |-> Row(old.state, "failed")][event]

Repeated(t, event) ==
  IF event = "marked_failed" THEN row[t].run = "failed" ELSE row[t] = Transition(row[t], event)

\* transitionTicket writes whatever row it finds; a repetition changes nothing.  The
\* controller marks what it was offered and what a webhook brought, and may be late.
TransitionTicket(t, event) ==
  /\ opened /\ Has(t) /\ Room(t) /\ ~Repeated(t, event)
  /\ row' = [row EXCEPT ![t] = Transition(row[t], event)]
  /\ Event(t, event)
  /\ marks' = marks \cup {t}
  /\ UNCHANGED <<req, opened, requests>>

LocalMarkInProgress(t) == TransitionTicket(t, "marked_in_progress")
LocalMarkComplete(t) == TransitionTicket(t, "marked_complete")
LocalMarkFailed(t) == TransitionTicket(t, "marked_failed")

-----------------------------------------------------------------------------
(* The local UI *)

\* handleCreateTicket: insertTicket fails on an id that is taken.
CreateTicket(t) ==
  /\ opened /\ ~Has(t)
  /\ row' = [row EXCEPT ![t] = Row("todo", "idle")] /\ Event(t, "created")
  /\ requests' = [requests EXCEPT ![t] = @ + 1]
  /\ UNCHANGED <<req, opened, marks>>

RunAgainAllowed(t) == row[t].state = "done" \/ row[t].run = "failed"

\* handleRequeueTicket reads the ticket first ...
CheckRequeue(c, t) ==
  /\ opened /\ Has(t) /\ req[c] = NoRequest /\ RunAgainAllowed(t)
  /\ req' = [req EXCEPT ![c] = [ticket |-> t, eligible |-> TRUE]]
  /\ UNCHANGED <<row, log, opened, requests, marks>>

\* ... and RequeueTicket looks again, in its own transaction.
MayRequeue(t) == row[t] # Row("todo", "idle") /\ row[t].run # "running"

RequeueTicket(c) ==
  LET t == req[c].ticket
  IN /\ opened /\ req[c].eligible
     /\ req' = [req EXCEPT ![c] = NoRequest]
     /\ IF MayRequeue(t) /\ Room(t)
        THEN /\ row' = [row EXCEPT ![t] = Row("todo", "idle")] /\ Event(t, "requeued")
             /\ requests' = [requests EXCEPT ![t] = @ + 1] /\ marks' = marks \ {t}
        ELSE UNCHANGED <<row, log, requests, marks>>
     /\ UNCHANGED opened

LocalNext ==
  \/ ImportSeedFile \/ CloseBackend
  \/ \E t \in TicketIDs : \/ LocalMarkInProgress(t) \/ LocalMarkComplete(t) \/ LocalMarkFailed(t)
                        \/ CreateTicket(t) \/ \E c \in Clients : CheckRequeue(c, t)
  \/ \E c \in Clients : RequeueTicket(c)

LocalSpec == LocalInit /\ [][LocalNext]_localVars

-----------------------------------------------------------------------------
(* Properties *)

Local == INSTANCE TicketBackend WITH
  Tickets <- TicketIDs, offered <- {t \in TicketIDs : ReadyTicket(t)}, marked <- marks,
  wanted <- requests

\* The local store is a TicketBackend for the controller, whatever the UI does and however
\* late the controller marks: no transaction offers a ticket again but the ones of a person.
LocalIsABackend == Local!BackendSpec
=============================================================================
