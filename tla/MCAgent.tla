------------------------------ MODULE MCAgent ------------------------------
(***************************************************************************)
(* The agent's loop, the model's call that a turn of it makes, and the git *)
(* commands of its session, which share no state, in one run: the initial  *)
(* state chooses the part whose steps the behaviour takes.                 *)
(***************************************************************************)
EXTENDS AgentLoop, GitCommands

CONSTANTS MaxIndex, MaxPieces, MaxText, maxRetries

ASSUME ProviderAssumption == {MaxIndex, MaxPieces, MaxText, maxRetries} \subseteq Nat

VARIABLES
    part,
    step, tries, answer, sent, acc, text, shown, calls, words, status, cancelled

Model == INSTANCE ProviderStream WITH attempt <- tries, aborted <- cancelled

model == <<step, tries, answer, sent, acc, text, shown, calls, words, status, cancelled>>
parts == <<part, vars, gitVars, model>>

PartsInit ==
    /\ part \in {"loop", "git", "model"}
    /\ Init /\ Model!Init
    /\ (part # "git" => upstream = <<>> /\ isolated = FALSE) /\ GitInit

Moves(name) ==
    /\ UNCHANGED part
    /\ name # "loop"  => UNCHANGED vars
    /\ name # "git"   => UNCHANGED gitVars
    /\ name # "model" => UNCHANGED model

PartsNext ==
    \/ part = "loop" /\ Next /\ Moves("loop")
    \/ part = "git" /\ GitNext /\ Moves("git")
    \/ part = "model" /\ Model!Next /\ Moves("model")

PartsSpec == PartsInit /\ [][PartsNext]_parts /\ WF_parts(part = "loop" /\ Loop /\ Moves("loop"))

\* The call of the model that a turn makes: see ProviderStream.
ProviderSound == Model!ProviderSound
=============================================================================
