----------------------------- MODULE Knowledge -----------------------------
(***************************************************************************)
(* Episodic memory: what a finished task run teaches is written to the     *)
(* graph and then to its store by a goroutine of its own; another one      *)
(* lets confidences decay and removes the facts that fell below the        *)
(* threshold; a restart loads the graph from the store; and a launch puts  *)
(* what the graph knows into the prompt.                                   *)
(***************************************************************************)
EXTENDS Integers, Sequences, FiniteSets, SequencesExt

CONSTANTS
  Learners,        \* task runs
  Histories,       \* [useCase, result, stale, attempts]: what a run may turn out to be
  MaxConfidence,   \* decay cycles that a fresh fact survives, less one
  MaxMemoryFaults  \* bound: crashes and store errors, together

VARIABLES
  run,             \* of each learner: its use case, tenant, result and history
  nodes, edges,    \* the graph: confidence by node, and a set of pairs
  rows, links,     \* the store: the same
  writing,         \* of each learner, what its extractMemory has yet to write
  saving,          \* of each learner, the node or edge not yet handed to the store
  pruned,          \* what PruneStale has yet to delete from the store
  cycle,           \* where the decay goroutine is
  memFaults,       \* store errors so far
  memCrashes, alive

memoryVars == <<run, nodes, edges, rows, links, writing, saving, pruned, cycle, memFaults,
                memCrashes, alive>>

NoFact == <<>>

\* Extract: the heuristic rules, in their order.  extractMemory hands over no events, so
\* that the rule on tool calls never applies.
Extract(l) ==
  LET r == run[l]
      rule(k) == CASE k = "success" -> r.state = "Succeeded"
                   [] k = "failure" -> r.state \in {"Failed", "TimedOut"}
                   [] k = "stale" -> r.stale
                   [] k = "fallback" -> r.attempts > 1
      facts == SelectSeq(<<"success", "failure", "stale", "fallback">>, rule)
      ids == [i \in DOMAIN facts |-> <<l, facts[i]>>]
  IN [i \in DOMAIN ids |-> [node |-> ids[i], edge |-> NoFact]]
     \o [i \in 1 .. (Len(ids) - 1) |-> [node |-> NoFact, edge |-> <<ids[1], ids[i + 1]>>]]

TenantOf(n) == run[n[1]].tenant

MemoryInit ==
  /\ run \in [Learners -> {[useCase |-> h.useCase, tenant |-> "", state |-> "Queued",
                             result |-> h.result, stale |-> h.stale, attempts |-> h.attempts] : h \in Histories}]
  /\ nodes = NoFact /\ rows = NoFact /\ edges = {} /\ links = {}
  /\ writing = [l \in Learners |-> <<>>] /\ saving = [l \in Learners |-> NoFact]
  /\ pruned = {} /\ cycle = "wait"
  /\ memFaults = 0 /\ memCrashes = 0 /\ alive = TRUE

\* Graph.Query: an empty tenant matches every node.
Query(tenant) == {n \in DOMAIN nodes : tenant = "" \/ TenantOf(n) = tenant}

\* tagTaskRun; QueryForTask follows with the tenant of the run, and reads only.
\* (Variant: a launch path that does not tag its run.)
LaunchUntagged(l) ==
  /\ alive /\ run[l].state = "Queued"
  /\ run' = [run EXCEPT ![l].state = "Running"]
  /\ UNCHANGED <<nodes, edges, rows, links, writing, saving, pruned, cycle, memFaults, memCrashes, alive>>
LaunchTagged(l) ==
  /\ alive /\ run[l].state = "Queued"
  /\ run' = [run EXCEPT ![l].state = "Running", ![l].tenant = run[l].useCase]
  /\ UNCHANGED <<nodes, edges, rows, links, writing, saving, pruned, cycle, memFaults, memCrashes, alive>>

\* The run ends; extractMemory starts in the background.
Learn(l) ==
  /\ alive /\ run[l].state = "Running"
  /\ run' = [run EXCEPT ![l].state = run[l].result]
  /\ writing' = [writing EXCEPT ![l] = Extract(l)']
  /\ UNCHANGED <<nodes, edges, rows, links, saving, pruned, cycle, memFaults, memCrashes, alive>>

Put(f, n, c) == [m \in DOMAIN f \cup {n} |-> IF m = n THEN c ELSE f[m]]
Drop(f, S) == [m \in DOMAIN f \ S |-> f[m]]

\* AddNode and AddEdge: the graph under its lock, the store after it.
AddToGraph(l) ==
  /\ alive /\ saving[l] = NoFact /\ writing[l] # <<>>
  /\ LET w == Head(writing[l]) IN
       /\ nodes' = IF w.node # NoFact THEN Put(nodes, w.node, MaxConfidence) ELSE nodes
       /\ edges' = IF w.edge # NoFact THEN edges \cup {w.edge} ELSE edges
       /\ saving' = [saving EXCEPT ![l] = <<w>>]
  /\ writing' = [writing EXCEPT ![l] = Tail(@)]
  /\ UNCHANGED <<run, rows, links, pruned, cycle, memFaults, memCrashes, alive>>

\* nodeTenantID: a node that is not stored is taken for an untenanted one.
StoredTenant(n) == IF n \in DOMAIN rows THEN TenantOf(n) ELSE ""

\* The confidence of the node that was added; a pruned one had fallen to nothing.
ConfidenceOf(n) == IF n \in DOMAIN nodes THEN nodes[n] ELSE 0

\* SaveNode marshals the node as it is by now; SaveEdge refuses an edge between tenants.
SaveToStore(l) ==
  /\ alive /\ saving[l] # NoFact
  /\ LET w == saving[l][1] IN
       /\ rows' = IF w.node # NoFact THEN Put(rows, w.node, ConfidenceOf(w.node)) ELSE rows
       /\ links' = IF w.edge # NoFact /\ StoredTenant(w.edge[1]) = StoredTenant(w.edge[2])
                   THEN links \cup {w.edge} ELSE links
  /\ saving' = [saving EXCEPT ![l] = NoFact]
  /\ UNCHANGED <<run, nodes, edges, writing, pruned, cycle, memFaults, memCrashes, alive>>

Misfortune == memFaults + memCrashes < MaxMemoryFaults

SaveFails(l) ==
  /\ alive /\ saving[l] # NoFact /\ Misfortune
  /\ memFaults' = memFaults + 1 /\ saving' = [saving EXCEPT ![l] = NoFact]
  /\ UNCHANGED <<run, nodes, edges, rows, links, writing, pruned, cycle, memCrashes, alive>>

Busy == {l \in Learners : writing[l] # <<>> \/ saving[l] # NoFact}
Decrease(c) == IF c = 0 THEN 0 ELSE c - 1

\* A cycle comes at any time, between the steps of an extraction too.
DecayConfidence ==
  /\ alive /\ cycle = "wait"
  /\ nodes' = [n \in DOMAIN nodes |-> Decrease(nodes[n])]
  /\ cycle' = "prune"
  /\ UNCHANGED <<run, edges, rows, links, writing, saving, pruned, memFaults, memCrashes, alive>>

\* PruneStale under the lock.  (Variant: the store is left alone.)
PruneMemoryOnly ==
  LET stale == {n \in DOMAIN nodes : nodes[n] = 0} IN
  /\ alive /\ cycle = "prune" /\ nodes' = Drop(nodes, stale)
  /\ edges' = {e \in edges : e[1] \notin stale /\ e[2] \notin stale}
  /\ cycle' = "wait"
  /\ UNCHANGED <<run, rows, links, writing, saving, pruned, memFaults, memCrashes, alive>>
PruneStale ==
  LET stale == {n \in DOMAIN nodes : nodes[n] = 0} IN
  /\ alive /\ cycle = "prune" /\ nodes' = Drop(nodes, stale)
  /\ edges' = {e \in edges : e[1] \notin stale /\ e[2] \notin stale}
  /\ pruned' = stale /\ cycle' = IF stale = {} THEN "wait" ELSE "delete"
  /\ UNCHANGED <<run, rows, links, writing, saving, memFaults, memCrashes, alive>>

\* DeleteNode for each of them after the unlock; an error is logged.  (PruneStale looks
\* into g.nodes there: when AddNode writes it at that moment, the runtime may end the
\* process, which is CrashMemory.)
DeletePruned ==
  /\ alive /\ cycle = "delete"
  /\ \E n \in pruned :
       /\ pruned' = pruned \ {n} /\ cycle' = IF pruned = {n} THEN "wait" ELSE "delete"
       /\ \/ /\ rows' = Drop(rows, {n}) /\ links' = {e \in links : e[1] # n /\ e[2] # n}
             /\ UNCHANGED memFaults
          \/ /\ Misfortune /\ memFaults' = memFaults + 1
             /\ UNCHANGED <<rows, links>>
  /\ UNCHANGED <<run, nodes, edges, writing, saving, memCrashes, alive>>

\* The process ends: the graph and the goroutines are gone.
CrashMemory ==
  /\ alive /\ Misfortune /\ memCrashes' = memCrashes + 1 /\ alive' = FALSE
  /\ nodes' = NoFact /\ edges' = {} /\ pruned' = {} /\ cycle' = "wait"
  /\ writing' = [l \in Learners |-> <<>>] /\ saving' = [l \in Learners |-> NoFact]
  /\ UNCHANGED <<run, rows, links, memFaults>>

\* LoadFromStore: the nodes; the edges stay in the store.
LoadFromStore ==
  /\ ~alive /\ alive' = TRUE /\ nodes' = rows
  /\ UNCHANGED <<run, edges, rows, links, writing, saving, pruned, cycle, memFaults, memCrashes>>

DecayCycle == DecayConfidence \/ PruneStale \/ DeletePruned

MemoryNext ==
  \/ \E l \in Learners : LaunchTagged(l) \/ Learn(l) \/ AddToGraph(l) \/ SaveToStore(l) \/ SaveFails(l)
  \/ DecayCycle \/ CrashMemory \/ LoadFromStore

MemorySpec == MemoryInit /\ [][MemoryNext]_memoryVars

-----------------------------------------------------------------------------
(* Properties *)

Settled == alive /\ cycle = "wait" /\ Busy = {}

\* Whatever the interleaving of writing, decay, pruning and restarts: as long as the store
\* took every write and deletion, it holds every fact the graph knows, and beyond them only
\* facts that faded before they were written; so a restart brings no forgotten fact back
\* to life (AddNode, PruneStale, LoadFromStore).
StoreMirrorsGraph ==
  Settled /\ memFaults = 0 =>
    /\ DOMAIN nodes \subseteq DOMAIN rows
    /\ \A n \in DOMAIN rows \ DOMAIN nodes : rows[n] = 0

\* What one flow learned is never offered to another: a prompt holds facts of runs of the
\* same use case only.
FlowsStayApart ==
  [][\A l \in Learners : run[l].state = "Queued" /\ run'[l].state = "Running" =>
       \A n \in Query(run'[l].tenant) : run[n[1]].useCase = run[l].useCase]_memoryVars
=============================================================================
