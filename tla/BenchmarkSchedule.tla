------------------------- MODULE BenchmarkSchedule -------------------------
(***************************************************************************)
(* run_comparison_benchmark of src/specdecode/benchmark.py, as cli.py runs *)
(* it on a CUDA runtime: warm-ups and samples of both paths on every       *)
(* prompt, one after the other, while the device does the work that the    *)
(* host queued, in its own time.  Time and memory are what a sample is     *)
(* charged with: the work that the device did between two readings of the  *)
(* clock, and the calls that allocated since the peak was reset.           *)
(***************************************************************************)
EXTENDS Integers, Sequences, FiniteSets

CONSTANTS MaxPrompts,    \* bound: number of prompts
          MaxWarmups,    \* bound: warmup_runs
          MaxMeasured,   \* bound: measured_runs
          MaxTokens      \* bound: tokens of one call

BenchmarkAssumption == /\ {MaxPrompts, MaxMeasured} \subseteq Nat \ {0}
                              /\ {MaxWarmups, MaxTokens} \subseteq Nat

VARIABLES config,    \* BenchmarkConfig, and the number of prompts
          stage,     \* the loop that runs; or "done", "failed"
          round,     \* warm-up or repetition, from 0
          prompt,    \* prompt_index
          turn,      \* 1 or 2: which of the two runners
          running,   \* a runner was called and has not returned
          emitted,   \* its callbacks
          queue,     \* work queued on the device, by call
          span,      \* work the device did since the clock was started
          peak,      \* calls that allocated since the peak was reset
          calls,     \* generate calls made
          samples,   \* those that became a sample
          newest     \* what the newest sample says

counters == <<stage, round, prompt, turn>>
vars == <<config, counters, running, emitted, queue, span, peak, calls, samples, newest>>

Configs == [warmup_runs : 0..MaxWarmups, measured_runs : 1..MaxMeasured,
            prompts : 1..MaxPrompts]
Loading == [path |-> "loading"]     \* what loading the models left on the device

Init == /\ config \in Configs
        /\ stage = IF config.warmup_runs > 0 THEN "warmup" ELSE "measure"
        /\ round = 0 /\ prompt = 0 /\ turn = 1
        /\ running = FALSE /\ emitted = 0
        /\ queue \in {<<>>, <<Loading>>}
        /\ span = <<>> /\ peak = {Loading}
        /\ calls = <<>> /\ samples = <<>>
        /\ newest = [tokens |-> 0, elapsed |-> <<>>, peak |-> {}]
-----------------------------------------------------------------------------
(* The schedule.  The configured seed is left out: every seed adds to it.  *)

\* Mutant of Seed: measured seeds do not start behind those of the warm-up.
SeedFromZero == round * config.prompts + prompt

Seed == (IF stage = "measure" THEN config.warmup_runs * config.prompts ELSE 0)
        + round * config.prompts + prompt

\* Mutant of Order: it alternates between repetitions, not between prompts.
OrderByRepetition == IF stage = "warmup" \/ round % 2 = 0
                     THEN <<"target_only", "speculative">>
                     ELSE <<"speculative", "target_only">>

Order == IF stage = "warmup" \/ (round + prompt) % 2 = 0
         THEN <<"target_only", "speculative">>
         ELSE <<"speculative", "target_only">>

Call == [path |-> Order[turn], stage |-> stage, round |-> round, prompt |-> prompt,
         seed |-> Seed]

Rounds == IF stage = "warmup" THEN config.warmup_runs ELSE config.measured_runs

NextRound == IF round < Rounds - 1
             THEN round' = round + 1 /\ UNCHANGED stage
             ELSE round' = 0 /\ stage' = IF stage = "warmup" THEN "measure" ELSE "done"

NextPrompt(last) == /\ turn' = 1
                    /\ IF prompt < last THEN prompt' = prompt + 1 /\ UNCHANGED <<stage, round>>
                                        ELSE prompt' = 0 /\ NextRound

\* Mutant of Advance: there is a prompt behind the last one.
AdvancePast == IF turn = 1 THEN turn' = 2 /\ UNCHANGED <<stage, round, prompt>>
                           ELSE NextPrompt(config.prompts)

\* Mutant of Advance: the warm-up runs one path only.
AdvanceHalf == IF turn = 1 /\ stage = "measure"
               THEN turn' = 2 /\ UNCHANGED <<stage, round, prompt>>
               ELSE NextPrompt(config.prompts - 1)

\* Mutant of Advance: the last sample is left out.
AdvanceEarly == IF turn = 1 /\ ~(prompt > 0 /\ prompt = config.prompts - 1)
                THEN turn' = 2 /\ UNCHANGED <<stage, round, prompt>>
                ELSE NextPrompt(config.prompts - 1)

\* Runners within prompts within rounds; measurement follows the warm-up.
Advance == IF turn = 1 THEN turn' = 2 /\ UNCHANGED <<stage, round, prompt>>
                       ELSE NextPrompt(config.prompts - 1)
-----------------------------------------------------------------------------
(* One call of a runner.                                                   *)

\* Mutant of Synchronize: the device is not waited for.
SynchronizeNot == UNCHANGED queue

Synchronize == queue' = <<>>

\* The work that the device did while it was waited for.
AwaitedWork == SubSeq(queue, 1, Len(queue) - Len(queue'))

\* Mutant of ResetPeak: a peak is reset once, before the first sample.
ResetPeakOnce == peak' = IF stage = "measure" /\ samples = <<>> THEN {} ELSE peak

ResetPeak == peak' = IF stage = "measure" THEN {} ELSE peak

\* Synchronize; for a sample, reset the peak and start the clock; call.
Begin == /\ stage \in {"warmup", "measure"} /\ ~running
         /\ Synchronize
         /\ ResetPeak
         /\ span' = <<>>
         /\ emitted' = 0
         /\ running' = TRUE
         /\ calls' = Append(calls, Call)
         /\ UNCHANGED <<config, counters, samples, newest>>

\* The runner queues the work of a token and calls back.
Token == /\ running /\ emitted < MaxTokens
         /\ emitted' = emitted + 1
         /\ queue' = Append(queue, Call)
         /\ peak' = peak \cup {Call}
         /\ UNCHANGED <<config, counters, running, span, calls, samples, newest>>

\* The runner returns; synchronize; for a sample, stop the clock and keep it.
Return == /\ running
          /\ running' = FALSE
          /\ Synchronize
          /\ span' = span \o AwaitedWork
          /\ IF stage = "warmup" THEN UNCHANGED <<samples, newest>>
             ELSE /\ samples' = Append(samples, Call)
                  /\ newest' = [tokens |-> emitted, elapsed |-> span', peak |-> peak]
          /\ Advance
          /\ UNCHANGED <<config, emitted, peak, calls>>

\* The runner raises, or a sample has not as many callbacks as tokens, or its
\* clock ran backwards: the benchmark ends without a report.
Fail == /\ running
        /\ running' = FALSE
        /\ stage' = "failed"
        /\ \/ UNCHANGED <<queue, span>>
           \/ Synchronize /\ span' = span \o AwaitedWork /\ stage = "measure"
        /\ UNCHANGED <<config, round, prompt, turn, emitted, peak, calls, samples, newest>>

\* The device does the next piece of work.
Work == /\ queue # <<>>
        /\ queue' = Tail(queue)
        /\ span' = Append(span, Head(queue))
        /\ UNCHANGED <<config, counters, running, emitted, peak, calls, samples, newest>>

Next == Begin \/ Token \/ Return \/ Fail \/ Work

Spec == Init /\ [][Next]_vars
-----------------------------------------------------------------------------
(* Properties.                                                             *)

Elements(s) == {s[i] : i \in DOMAIN s}
Given(path) == {c \in Elements(calls) : c.path = path}
Pairs(path) == {<<c.prompt, c.seed>> : c \in {s \in Elements(samples) : s.path = path}}

\* Every variable has its type.
TypeOK == /\ config \in Configs
          /\ stage \in {"warmup", "measure", "done", "failed"}
          /\ round \in 0..MaxWarmups + MaxMeasured
          /\ prompt \in 0..config.prompts - 1
          /\ turn \in {1, 2} /\ running \in BOOLEAN
          /\ emitted \in 0..MaxTokens
          /\ \A work \in {queue, span} : Elements(work) \subseteq Elements(calls) \cup {Loading}
          /\ peak \subseteq Elements(calls) \cup {Loading}
          /\ Elements(samples) \subseteq Elements(calls)

\* run_comparison_benchmark: "Measure both paths with identical prompts, seeds,
\* and run counts".  When there is a report, each path has one sample for every
\* prompt and repetition, with the seeds of the other path.
SameRuns ==
  stage = "done" =>
    /\ Pairs("target_only") = Pairs("speculative")
    /\ Cardinality(Pairs("target_only")) = config.measured_runs * config.prompts
    /\ Len(samples) = 2 * config.measured_runs * config.prompts

\* docs/architecture.md: the harness "warms both paths".  When the first sample
\* is started, each path has run on each prompt as often as configured.
WarmedUp ==
  \A c \in Elements(calls) : c.stage = "measure" =>
    \A path \in {"target_only", "speculative"}, p \in 0..config.prompts - 1 :
      Cardinality({d \in Given(path) : d.stage = "warmup" /\ d.prompt = p}) = config.warmup_runs

\* No path is given a seed twice: what it drew in the warm-up, or for another
\* prompt or repetition, is not drawn again when a sample is measured.
FreshSeeds ==
  \A i, j \in DOMAIN calls :
    calls[i].path = calls[j].path /\ calls[i].seed = calls[j].seed => i = j

\* docs/cuda-benchmarking.md: "Their execution order alternates to reduce
\* systematic first/second-path bias".  Whenever samples are compared, no path
\* went first more than once more than the other, in all and for each prompt.
Balanced ==
  LET first == {i \in DOMAIN samples : \A j \in 1..i - 1 :
                  <<samples[i].prompt, samples[i].round>> # <<samples[j].prompt, samples[j].round>>}
      lead(S) == LET n(path) == Cardinality({i \in S : samples[i].path = path})
                 IN  n("target_only") - n("speculative")
  IN  /\ lead(first) \in -1..1
      /\ \A p \in 0..config.prompts - 1 : lead({i \in first : samples[i].prompt = p}) \in -1..1

\* docs/cuda-benchmarking.md: "Every sample synchronizes CUDA immediately before
\* and after measurement".  The time of a sample covers all the work that its
\* call queued, and none of an earlier call or of the other path.
OwnWork == newest.elapsed = [i \in 1..newest.tokens |-> samples[Len(samples)]]

\* It "resets peak allocator statistics at its start": no other call is counted
\* in the peak of a sample, and its own is.
OwnPeak == newest.peak = {newest.elapsed[i] : i \in DOMAIN newest.elapsed}

\* The comparison is fair: both paths do the same runs under the same conditions,
\* and each sample is charged with its own work and memory.
FairComparison == /\ TypeOK
                  /\ SameRuns /\ WarmedUp /\ FreshSeeds /\ Balanced
                  /\ OwnWork /\ OwnPeak
=============================================================================
