------------------------------ MODULE Trackers ------------------------------
(***************************************************************************)
(* The three remote trackers: GitHub Issues, Linear and Shortcut.  Every   *)
(* operation is a sequence of API calls, any of which may fail; what was   *)
(* done before stays done.                                                 *)
(***************************************************************************)
EXTENDS Integers, Sequences, FiniteSets, SequencesExt

CONSTANTS
  Tickets,
  Trackers,       \* subset of {"github", "linear", "shortcut"}
  Workflows,      \* Shortcut: each workflow a sequence of [id, name, type] records
  ExcludeLabels,  \* exclude_labels; {"in-progress", "osmia-failed"} when not configured
  MappingSets,    \* Shortcut: the configured sequences of [trigger, inProgress] names
  MaxAsks         \* bound: how often a person puts a ticket up

VARIABLES
  tracker, mappings,   \* the configuration
  labels,              \* of each ticket
  col,                 \* its state: "open"/"closed", or a Shortcut state id
  exists,              \* the tickets there are
  asks, marked,        \* how often asked for; marked since
  apiFails             \* which of the controller's calls fail

trackerVars == <<tracker, mappings, labels, col, exists, asks, marked, apiFails>>

Trigger == "osmia"
NoState == 0

AllStates == UNION {Range(w) : w \in Range(Workflows)}

\* findStateID and findStateInWorkflow: the first state with the name.
StateIn(states, name) ==
  LET hits == SelectSeq(states, LAMBDA s : s.name = name)
  IN IF hits = <<>> THEN NoState ELSE hits[1].id
FindStateID(name) == StateIn(FlattenSeq(Workflows), name)

\* Init resolves every mapping's trigger name; it fails when one is unknown.
ResolvedMappings(ms) ==
  [i \in DOMAIN ms |-> [trigger |-> ms[i].trigger, inProgress |-> ms[i].inProgress,
                        id |-> FindStateID(ms[i].trigger)]]

TrackersInit ==
  /\ tracker \in Trackers
  /\ mappings \in {ResolvedMappings(ms) : ms \in MappingSets}
  /\ \A i \in DOMAIN mappings : mappings[i].id # NoState
  /\ labels = [t \in Tickets |-> {}] /\ col = [t \in Tickets |-> NoState] /\ exists = {}
  /\ asks = [t \in Tickets |-> 0] /\ marked = {}
  /\ apiFails = {}

-----------------------------------------------------------------------------
(* Shortcut's workflow states *)

StateName(id) == (CHOOSE s \in AllStates : s.id = id).name

\* storyWorkflow
StoryWorkflow(t) == CHOOSE w \in Range(Workflows) : \E s \in Range(w) : s.id = col[t]

\* resolveInProgressStateName: the mapping of the story's state, or the first one.
ResolveInProgressStateName(t) ==
  LET own == SelectSeq(mappings, LAMBDA m : m.id = col[t])
  IN IF own = <<>> THEN mappings[1].inProgress ELSE own[1].inProgress

DoneState(t) ==
  LET done == SelectSeq(StoryWorkflow(t), LAMBDA s : s.type = "done")
  IN IF done = <<>> THEN NoState ELSE done[1].id

-----------------------------------------------------------------------------
(* PollReadyTickets *)

\* What each tracker is asked for.
GitHubQuery(t) == Trigger \in labels[t] /\ col[t] = "open"
LinearQuery(t) == Trigger \in labels[t] /\ col[t] = "open"
ShortcutQuery(t) == \E i \in DOMAIN mappings : StateName(col[t]) = mappings[i].trigger

InQuery(t) ==
  \/ tracker = "github" /\ GitHubQuery(t)
  \/ tracker = "linear" /\ LinearQuery(t)
  \/ tracker = "shortcut" /\ ShortcutQuery(t)

Offered(t) == t \in exists /\ InQuery(t) /\ labels[t] \cap ExcludeLabels = {}

PollReadyTickets == {t \in Tickets : Offered(t)}

-----------------------------------------------------------------------------
(* A person *)

\* Creates the ticket, or puts it back where it is picked up.
PersonAsks(t) ==
  /\ asks[t] < MaxAsks /\ ~Offered(t)
  /\ exists' = exists \cup {t} /\ asks' = [asks EXCEPT ![t] = @ + 1]
  /\ marked' = marked \ {t}
  /\ IF tracker = "shortcut"
     THEN /\ labels' = [labels EXCEPT ![t] = {}]
          /\ \E s \in AllStates : /\ \E i \in DOMAIN mappings : s.name = mappings[i].trigger
                                  /\ col' = [col EXCEPT ![t] = s.id]
     ELSE labels' = [labels EXCEPT ![t] = {Trigger}] /\ col' = [col EXCEPT ![t] = "open"]
  /\ UNCHANGED <<tracker, mappings, apiFails>>

\* The tracker's API begins or stops to fail for calls of a kind.
ApiChanges ==
  /\ \E f \in {{}, {"label"}, {"unlabel"}, {"comment"}, {"state"}} : apiFails' = f /\ f # apiFails
  /\ UNCHANGED <<tracker, mappings, labels, col, exists, asks, marked>>

-----------------------------------------------------------------------------
(* The controller's calls: none looks at the state the ticket is in *)

Works(call) == call \notin apiFails

AddLabel(t, l) == labels' = [labels EXCEPT ![t] = @ \cup {l}]

\* removeLabel, of every trigger label: a failure is only logged.
RemoveTriggers(ls) == IF Works("unlabel") THEN ls \ {Trigger} ELSE ls

\* GitHub: the trigger labels are removed after "in-progress" is on.
MarkInProgressIssue(t) ==
  /\ Works("label")
  /\ labels' = [labels EXCEPT ![t] = RemoveTriggers(@ \cup {"in-progress"})]
  /\ UNCHANGED col

\* Linear: they stay on.
MarkInProgressLinear(t) == Works("label") /\ AddLabel(t, "in-progress") /\ UNCHANGED col

\* Shortcut: a label without an in-progress name, else a move within the story's own
\* workflow; an unknown name is an error.
MarkInProgressStory(t) ==
  LET name == ResolveInProgressStateName(t)
      id == StateIn(StoryWorkflow(t), name)
  IN IF name = "" THEN Works("label") /\ AddLabel(t, "in-progress") /\ UNCHANGED col
     ELSE Works("state") /\ id # NoState /\ col' = [col EXCEPT ![t] = id] /\ UNCHANGED labels

MarkInProgress(t) ==
  /\ t \in exists
  /\ \/ tracker = "github" /\ MarkInProgressIssue(t)
     \/ tracker = "linear" /\ MarkInProgressLinear(t)
     \/ tracker = "shortcut" /\ MarkInProgressStory(t)
  /\ marked' = marked \cup {t}
  /\ UNCHANGED <<tracker, mappings, exists, asks, apiFails>>

CloseIssue(t) == col' = [col EXCEPT ![t] = "closed"]
CompleteLinear(t) == col' = [col EXCEPT ![t] = "completed"]
CompleteStory(t) == DoneState(t) # NoState /\ col' = [col EXCEPT ![t] = DoneState(t)]

\* The comment comes first, then the state: closed, "completed", or the story's done
\* state (completed_state_name unset).  A failure after the comment leaves the ticket
\* where it is.
MarkComplete(t) ==
  /\ t \in exists /\ Works("comment") /\ Works("state")
  /\ \/ tracker = "github" /\ CloseIssue(t)
     \/ tracker = "linear" /\ CompleteLinear(t)
     \/ tracker = "shortcut" /\ CompleteStory(t)
  /\ marked' = marked \cup {t}
  /\ UNCHANGED <<tracker, mappings, labels, exists, asks, apiFails>>

\* The label comes first: a failed comment leaves the ticket failed.
MarkFailed(t) ==
  /\ t \in exists /\ Works("label") /\ AddLabel(t, "osmia-failed")
  /\ marked' = marked \cup {t}
  /\ UNCHANGED <<tracker, mappings, col, exists, asks, apiFails>>

TrackersNext ==
  \/ ApiChanges
  \/ \E t \in Tickets : PersonAsks(t) \/ MarkInProgress(t) \/ MarkComplete(t) \/ MarkFailed(t)

TrackersSpec == TrackersInit /\ [][TrackersNext]_trackerVars

-----------------------------------------------------------------------------
(* Properties *)

Remote == INSTANCE TicketBackend WITH offered <- PollReadyTickets, wanted <- asks

=============================================================================
