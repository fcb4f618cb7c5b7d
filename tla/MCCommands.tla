----------------------------- MODULE MCCommands -----------------------------
(***************************************************************************)
(* Small instances, for TLC, of what surrounds the decoder in a command:   *)
(* the choice of a backend and the draws that it makes for one proposal,   *)
(* the loading of a pair of models, the text that is printed and the       *)
(* benchmark.  Each behaviour is one of these; the variables of the others *)
(* rest.                                                                   *)
(***************************************************************************)
EXTENDS MCTextStream

CONSTANTS Modes, Paths, Conditions,
          None, Commands, Devices, PairTokens, Ids, Sizes, BlockSizes, BlockCounts, Positions,
          MaxPrompts, MaxWarmups, MaxMeasured, MaxCallbacks,
          VocabSize, Mass, Uniforms

VARIABLES subject,
          mode, modeVariable, path, pathVariable, library, step, chosen, place, outcome,
          command, options, stage, tokenizers, loaded, adapters, runtime, reported,
          config, loop, round, prompt, turn, running, callbacks, queue, span, peak,
          calls, samples, newest,
          targetRow, draftRow, verdict, drawn

Backend == INSTANCE BackendChoice
Pair == INSTANCE ModelPair WITH Tokens <- PairTokens, step <- stage, mode <- reported
Bench == INSTANCE BenchmarkSchedule
           WITH MaxTokens <- MaxCallbacks, stage <- loop, emitted <- callbacks
Proposal == INSTANCE SamplingLaw
              WITH p <- targetRow, q <- draftRow, pc <- verdict, token <- drawn

ASSUME PartsAssumption == /\ Backend!ChoiceAssumption /\ Pair!PairAssumption
                          /\ Bench!BenchmarkAssumption /\ Proposal!ResolutionAssumption

backendVars == <<mode, modeVariable, path, pathVariable, library, step, chosen, place, outcome>>
pairVars == <<command, options, stage, tokenizers, loaded, adapters, runtime, reported>>
benchVars == <<config, loop, round, prompt, turn, running, callbacks, queue, span, peak,
               calls, samples, newest>>
proposalVars == <<targetRow, draftRow, verdict, drawn>>
commandVars == <<subject, vars, backendVars, pairVars, benchVars, proposalVars>>

\* Where the parts rest: TextStream as it begins.
BackendRests ==
  /\ mode = "python" /\ modeVariable = "none" /\ path = "none" /\ pathVariable = "none"
  /\ library = [p \in Backend!Places |-> "absent"]
  /\ step = "end" /\ chosen = "python" /\ place = "none" /\ outcome = "python"
PairRests ==
  /\ command = "library"
  /\ options = CHOOSE o \in Pair!Defined("library") : TRUE
  /\ stage = "refused"
  /\ tokenizers = <<>> /\ loaded = {} /\ adapters = [s \in Pair!Sides |-> None]
  /\ runtime = None /\ reported = None
BenchRests ==
  /\ config = [warmup_runs |-> 0, measured_runs |-> 1, prompts |-> 1]
  /\ loop = "failed"
  /\ round = 0 /\ prompt = 0 /\ turn = 1 /\ running = FALSE /\ callbacks = 0
  /\ queue = <<>> /\ span = <<>> /\ peak = {} /\ calls = <<>> /\ samples = <<>>
  /\ newest = [tokens |-> 0, elapsed |-> <<>>, peak |-> {}]
ProposalRests ==
  /\ targetRow = CHOOSE row \in Proposal!Row : TRUE
  /\ draftRow = targetRow
  /\ verdict = "emitted" /\ drawn = 1

CommandInit ==
  /\ Init
  /\ \/ subject = "text" /\ BackendRests /\ PairRests /\ BenchRests /\ ProposalRests
     \/ subject = "backend" /\ PairRests /\ BenchRests /\ ProposalRests /\ Backend!Init
     \/ subject = "pair" /\ BackendRests /\ BenchRests /\ ProposalRests /\ Pair!Init
     \/ subject = "benchmark" /\ BackendRests /\ PairRests /\ ProposalRests /\ Bench!Init
     \/ subject = "proposal" /\ BackendRests /\ PairRests /\ BenchRests /\ Proposal!Init

CommandNext ==
  /\ \/ /\ subject = "backend" /\ Backend!Next
        /\ UNCHANGED <<pairVars, vars, benchVars, proposalVars>>
     \/ /\ subject = "pair" /\ Pair!Next
        /\ UNCHANGED <<backendVars, vars, benchVars, proposalVars>>
     \/ /\ subject = "text" /\ Next
        /\ UNCHANGED <<backendVars, pairVars, benchVars, proposalVars>>
     \/ /\ subject = "benchmark" /\ Bench!Next
        /\ UNCHANGED <<backendVars, pairVars, vars, proposalVars>>
     \/ /\ subject = "proposal" /\ Proposal!Next
        /\ UNCHANGED <<backendVars, pairVars, vars, benchVars>>
  /\ UNCHANGED subject

CommandSpec == CommandInit /\ [][CommandNext]_commandVars
-----------------------------------------------------------------------------
(* Properties of the parts; their modules say what they mean and why.      *)

\* Nothing that was asked for or found is quietly replaced by Python.
NoQuietChange == Backend!NoQuietChange

\* Models, tokenizers, mirrors and devices that are loaded go together.
GoesTogether == Pair!GoesTogether

\* Both paths do the same runs, each charged with its own work.
FairComparison == Bench!FairComparison

\* A verified proposal emits each token as often as the target does.
ExactProposal == Proposal!ExactProposal

\* The decoder's model chooses among the outcomes that some draw has.
OutcomesAreTheDraws == subject = "proposal" => Proposal!OutcomesAreTheDraws
=============================================================================
