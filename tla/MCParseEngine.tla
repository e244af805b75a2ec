----------------------------- MODULE MCParseEngine -----------------------------
(***************************************************************************)
(* One parse of a file and the engine's queue share no variable here, so   *)
(* they are checked side by side: the first state says which of the two a  *)
(* behaviour is about, and the other one stays in its initial state.        *)
(***************************************************************************)
EXTENDS ParseRun, EngineWorker

VARIABLE part

BothInit == Init /\ EngineInit /\ part \in {"parse", "engine"}

BothNext ==
    \/ part = "parse" /\ Next /\ UNCHANGED <<EngineVars, part>>
    \/ part = "engine" /\ EngineNext /\ UNCHANGED <<vars, part>>

(* The fairness of EngineFairSpec, for its own part. *)
BothSpec ==
    /\ BothInit /\ [][BothNext]_<<vars, EngineVars, part>>
    /\ \A w \in Engines : WF_EngineVars(part = "engine" /\ EngineStep(w))
    /\ \A e \in Events : WF_EngineVars(part = "engine" /\ Ages(e))
    /\ WF_EngineVars(part = "engine" /\ ParserEnd)
    /\ WF_EngineVars(part = "engine" /\ ParserRetries)
===============================================================================
