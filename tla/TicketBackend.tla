--------------------------- MODULE TicketBackend ---------------------------
(***************************************************************************)
(* What a ticketing.Backend promises the controller: PollReadyTickets      *)
(* offers a ticket from the moment a person asks for it until any of the   *)
(* Mark operations succeeds on it, and nothing the controller does offers  *)
(* it again.  The controller may mark a ticket at any time: without having *)
(* been offered it (webhooks), late, or twice.                             *)
(***************************************************************************)
EXTENDS Integers

CONSTANT Tickets

VARIABLES
  offered,  \* what PollReadyTickets returns
  marked,   \* tickets marked since a person last asked for them
  wanted    \* how often a person has put each ticket up for work

backendVars == <<offered, marked, wanted>>

BackendInit == offered = {} /\ marked = {} /\ wanted = [t \in Tickets |-> 0]

\* A person creates tickets, or puts them back.
Ask(S) ==
  /\ S \cap offered = {}
  /\ offered' = offered \cup S /\ marked' = marked \ S
  /\ wanted' = [t \in Tickets |-> IF t \in S THEN wanted[t] + 1 ELSE wanted[t]]

\* MarkInProgress, MarkComplete or MarkFailed succeeds.
Mark(t) ==
  /\ offered' = offered \ {t} /\ marked' = marked \cup {t}
  /\ UNCHANGED wanted

BackendNext == \/ \E S \in SUBSET Tickets : Ask(S)
               \/ \E t \in Tickets : Mark(t)

BackendSpec == BackendInit /\ [][BackendNext]_backendVars
=============================================================================
