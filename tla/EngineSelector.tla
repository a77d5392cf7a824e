--------------------------- MODULE EngineSelector ---------------------------
(***************************************************************************)
(* The engine chain of a ticket when routing has learnt nothing            *)
(* (internal/controller/engine_selector.go).                               *)
(***************************************************************************)
EXTENDS Sequences, SequencesExt

CONSTANTS
  ConfiguredEngines, \* engines.default followed by engines.fallback_engines
  Registered         \* the engines the controller knows

\* A label for a registered engine, or the configured engines.
DefaultEngines(label) ==
  IF label \in Registered THEN <<label>> ELSE SelectSeq(ConfiguredEngines, LAMBDA n : n \in Registered)
=============================================================================
