----------------------------- MODULE Composition -----------------------------
(***************************************************************************)
(* What the composition of a program promises, whatever becomes of it:        *)
(* "a member starts when its predecessor ends" (osc-dsl-coverage.md:57), all    *)
(* members of a parallel composition start together and it ends with the last,   *)
(* and a duration that is given is the length of what it is given to.  The        *)
(* lengths of the other phases are those of a run, in the order of the phases.     *)
(***************************************************************************)
EXTENDS Lowering

Acts(b, invocation) ==
  LET span == duration_of(invocation.arguments).span
  IN (actions_of(b, invocation, invocation.actor).actions
      \o modifier_actions(b, invocation, invocation.actor, span).actions) # <<>>
Given(arguments, otherwise, at) ==
  LET span == duration_of(arguments).span IN IF span = None THEN otherwise ELSE at + span

\* When each phase of a member that starts at a time starts, after those that have
\* started before, and when the member ends.
RECURSIVE Played(_, _, _, _, _)
Played(b, member, at, started, runs) ==
  LET start(m, time, before) == Played(b, m, time, before, runs)
      acts == Acts(b, member)
      own == IF acts THEN at + runs[Len(started) + 1] ELSE at
      one_by_one == FoldLeft(LAMBDA sofar, m : start(m, sofar.end, sofar.started),
                             [end |-> at, started |-> started], member.members)
      together == FoldLeft(LAMBDA sofar, m :
                             LET next == start(m, at, sofar.started)
                             IN [next EXCEPT !.end = Max({@, sofar.end})],
                           [end |-> at, started |-> started], member.members)
      composed == CASE member.operator = "serial" -> one_by_one
                    [] member.operator = "parallel" -> together
                    [] OTHER -> start(chosen_alternative(b, member.members), at, started)
  IN CASE member.kind = "wait" -> [end |-> at + member.elapsed, started |-> started]
       [] member.kind = "invocation" ->
            [end |-> Given(member.arguments, own, at),
             started |-> IF acts THEN Append(started, at) ELSE started]
       [] member.kind = "composition" ->
            [composed EXCEPT !.end = Given(member.arguments, @, at)]

\* When each event of a lowered storyboard starts: its group ends with its actions.
Conditions_(element) == IF element.triggers = <<>> THEN {} ELSE Range(element.triggers[1][1])
Begun(elements, runs) ==
  LET events == SelectSeq(elements, LAMBDA e : e.type = "event")
      ended(name, started) ==
        LET i == CHOOSE i \in DOMAIN events : events[i].name = name IN started[i] + runs[i]
      moment(c, started) ==
        IF c.expression.kind = "simulationTime" THEN c.expression.value
        ELSE ended(c.expression.segments[1], started)
  IN FoldLeft(LAMBDA started, e :
                Append(started, Max({0} \cup {moment(c, started) : c \in Conditions_(e)})),
              <<>>, events)

\* However long the phases take, each starts when it should, and a storyboard that
\* is stopped at a time is stopped when its directive ends.
KeepsComposition(program, options, elements) ==
  LET scenario == entry_of(program, options.entry_point)
      b == Behaviors(program, scenario, options.alternative)
      directives == SelectSeq(scenario.members, LAMBDA m : m.kind = "do")
      phases == {n \in DOMAIN elements : elements[n].type = "event"}
  IN \A runs \in [1 .. Cardinality(phases) -> {0, 5}] :
       LET played == Played(b, directives[1].member, 0, <<>>, runs)
       IN directives # <<>> =>
            /\ Begun(elements, runs) = played.started
            /\ \A c \in Conditions_(elements[1]) : c.expression.value = played.end
=============================================================================
