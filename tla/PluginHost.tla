----------------------------- MODULE PluginHost -----------------------------
(***************************************************************************)
(* The host of external plugins: subprocesses are started, restarted a     *)
(* bounded number of times and shut down under the host's lock, and die by *)
(* themselves at any time.                                                 *)
(***************************************************************************)
EXTENDS Integers, FiniteSets

CONSTANTS
  Plugins,        \* names
  Versions,       \* interface versions a configuration may declare
  KnownVersion,   \* the one the controller expects
  MaxRestarts,    \* max_plugin_restarts
  MaxProcesses    \* bound on the processes of a behaviour

ASSUME HostAssumption == MaxRestarts \in Nat

VARIABLES
  loaded,         \* plugins: name -> [process, restarts, healthy]
  running,        \* live processes
  spawned,        \* processes started so far
  killed,         \* processes the host has killed
  launches,       \* successful or failed starts of each plugin since it was loaded
  declared        \* the interface version of each plugin's configuration

hostVars == <<loaded, running, spawned, killed, launches, declared>>

HostInit ==
  /\ loaded = <<>> /\ running = {} /\ spawned = 0 /\ killed = {}
  /\ launches = [p \in Plugins |-> 0]
  /\ declared \in [Plugins -> Versions]

Instance(process, restarts, healthy) ==
  [process |-> process, restarts |-> restarts, healthy |-> healthy]
Register(f, p, i) == [q \in DOMAIN f \cup {p} |-> IF q = p THEN i ELSE f[q]]

\* LoadPlugin: not twice, not with another interface version; startPlugin kills a process
\* that does not complete the handshake.
LoadPlugin(p) ==
  /\ p \notin DOMAIN loaded /\ declared[p] = KnownVersion /\ spawned < MaxProcesses
  /\ spawned' = spawned + 1
  /\ \/ /\ loaded' = Register(loaded, p, Instance(spawned + 1, 0, TRUE))
        /\ running' = running \cup {spawned + 1} /\ launches' = [launches EXCEPT ![p] = 1]
     \/ UNCHANGED <<loaded, running, launches>>
  /\ UNCHANGED <<killed, declared>>

\* RestartPlugin holds the lock, through the backoff too: it kills the old process and
\* starts a new one, whose instance inherits the count; when that fails the old instance
\* is unhealthy.
\* (Variant: the old process is not killed.)
RestartWith(p, dead, count, healthy) ==
  /\ p \in DOMAIN loaded
  /\ LET i == loaded[p] IN
       IF i.restarts >= MaxRestarts
       THEN /\ loaded' = [loaded EXCEPT ![p].healthy = FALSE]
            /\ UNCHANGED <<running, killed, spawned, launches>>
       ELSE /\ spawned < MaxProcesses /\ spawned' = spawned + 1
            /\ launches' = [launches EXCEPT ![p] = @ + 1]
            /\ killed' = killed \cup dead
            /\ \/ /\ running' = (running \ dead) \cup {spawned + 1}
                  /\ loaded' = [loaded EXCEPT ![p] = Instance(spawned + 1, count, TRUE)]
               \/ /\ running' = running \ dead
                  /\ loaded' = [loaded EXCEPT ![p] = Instance(i.process, i.restarts + 1, healthy)]
  /\ UNCHANGED declared
RestartUnkilled(p) == p \in DOMAIN loaded /\ RestartWith(p, {}, loaded[p].restarts + 1, FALSE)
RestartPlugin(p) ==
  p \in DOMAIN loaded /\ RestartWith(p, {loaded[p].process}, loaded[p].restarts + 1, FALSE)

Shutdown ==
  LET processes == {loaded[p].process : p \in DOMAIN loaded} IN
  /\ loaded # <<>> /\ loaded' = <<>>
  /\ running' = running \ processes /\ killed' = killed \cup processes
  /\ launches' = [p \in Plugins |-> 0] /\ UNCHANGED <<spawned, declared>>

ProcessDies ==
  /\ \E n \in running : running' = running \ {n}
  /\ UNCHANGED <<loaded, spawned, killed, launches, declared>>

HostNext ==
  \/ \E p \in Plugins : LoadPlugin(p) \/ RestartPlugin(p)
  \/ Shutdown \/ ProcessDies

HostSpec == HostInit /\ [][HostNext]_hostVars

\* GetPlugin hands out the client of a plugin that is loaded and healthy.
GetPlugin(p) == p \in DOMAIN loaded /\ loaded[p].healthy

-----------------------------------------------------------------------------
(* Properties *)

\* No process outlives its plugin: every live one is the current process of a loaded
\* plugin, through restarts, failed starts and shutdowns.
NoOrphanProcess == running \subseteq {loaded[p].process : p \in DOMAIN loaded}

\* A loaded plugin is started once and restarted at most MaxRestarts times, failures included.
StartsAreBounded == \A p \in Plugins : launches[p] <= 1 + MaxRestarts

\* GetPlugin never hands out a process that the host itself has killed: not after a
\* failed restart, not after a shutdown.
KilledIsNotHandedOut == \A p \in Plugins : GetPlugin(p) => loaded[p].process \notin killed
=============================================================================
