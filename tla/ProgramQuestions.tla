--------------------------- MODULE ProgramQuestions ---------------------------
(***************************************************************************)
(* Programs of the domain-specific language: they are lowered to a scenario, *)
(* and what they lower to is asked about as any other answer is.              *)
(***************************************************************************)
EXTENDS Questions

Dsl == INSTANCE Composition

\* A program that lowers without an error is a scenario that can be run; and when
\* lowering had nothing to report, its phases start when its composition says,
\* however long those take that no duration fixes ("a member starts when its
\* predecessor ends", osc-dsl-coverage.md:57; the times are summed at load time,
\* lower.cpp:1163-1288).
LoweredAsComposed ==
  Answered("program") /\ answer.status = "Ok" =>
    /\ Runnable(answer.scenario)
    /\ answer.found = <<>> =>
         Dsl!KeepsComposition(asked.program, asked.options, answer.scenario.elements)
=============================================================================
