-------------------------------- MODULE Motion --------------------------------
(***************************************************************************)
(* Speeds and offsets that change over time: shaped transitions, how long they *)
(* take, and the controller that goes through a sequence of them.  A value in   *)
(* the course of a transition is a fraction [n, d]; a duration is rounded up to *)
(* whole seconds.  None is a limit that is not there, or infinite.               *)
(***************************************************************************)
EXTENDS Roads

Shapes == {"step", "linear", "cubic", "sinusoidal"}
Q(n, d) == [n |-> n, d |-> d]
RoundedUp(q) == (q.n + q.d - 1) \div q.d
RootRoundedUp(n) == CHOOSE r \in 0 .. n : r * r >= n /\ \A s \in 0 .. r - 1 : s * s < n

---------------------------------------------------------------------------
(* Shapes.                                                                     *)

clamp01(p) == IF p.n <= 0 THEN Q(0, 1) ELSE IF p.n > p.d THEN Q(1, 1) ELSE p
\* The share of a transition that is done at a share of its span; of the
\* sinusoidal one in thousandths, at the quarters.
shape_fraction(shape, p) ==
  LET c == clamp01(p)
  IN CASE shape = "step" -> IF p.n > 0 THEN Q(1, 1) ELSE Q(0, 1)
       [] shape = "linear" -> c
       [] shape = "cubic" -> Q(c.n * c.n * (3 * c.d - 2 * c.n), c.d * c.d * c.d)
       [] shape = "sinusoidal" -> Q(<<0, 146, 500, 854, 1000>>[(4 * c.n) \div c.d + 1], 1000)
transition_value(shape, from, to, p) ==
  LET share == shape_fraction(shape, p) IN Q(from * share.d + (to - from) * share.n, share.d)

\* The steepest slope of a shape over a span of 1, its sharpest bend, and the
\* one a lane offset reckons with.  Mutant: a smooth shape is no steeper than a ramp.
shape_peak_gradient_factor_flat(shape) == IF shape = "step" THEN Q(0, 1) ELSE Q(1, 1)
shape_peak_gradient_factor(shape) ==
  [step |-> Q(0, 1), linear |-> Q(1, 1), cubic |-> Q(3, 2), sinusoidal |-> Q(1571, 1000)][shape]
shape_peak_jerk_factor(shape) ==
  [step |-> None, linear |-> None, cubic |-> Q(6, 1), sinusoidal |-> Q(4935, 1000)][shape]
shape_peak_curvature_factor(shape) ==
  [step |-> Q(0, 1), linear |-> Q(4, 1), cubic |-> Q(6, 1), sinusoidal |-> Q(4935, 1000)][shape]
follow_shape(shape) == IF shape = "sinusoidal" THEN "sinusoidal" ELSE "cubic"

---------------------------------------------------------------------------
(* Durations.                                                                  *)

Positive(x) == x # None /\ x > 0
Most(S) == CHOOSE x \in S : \A y \in S : x >= y
ByGradient(shape, magnitude, limit) ==
  LET factor == shape_peak_gradient_factor(shape)
  IN RoundedUp(Q(factor.n * magnitude, factor.d * limit))
ByBend(factor, magnitude, limit) == RootRoundedUp(RoundedUp(Q(factor.n * magnitude, factor.d * limit)))

\* The shortest duration within the limits, and none shorter than the authored one.
constrained_duration(shape, delta, acceleration_limit, jerk_limit, authored) ==
  LET magnitude == Magnitude(delta)
      jerk == shape_peak_jerk_factor(shape)
      begun == IF Positive(authored) THEN authored ELSE 0
  IN IF magnitude = 0 THEN begun
     ELSE Most({begun}
               \cup (IF Positive(acceleration_limit)
                     THEN {ByGradient(shape, magnitude, acceleration_limit)} ELSE {})
               \cup (IF Positive(jerk_limit) /\ jerk # None
                     THEN {ByBend(jerk, magnitude, jerk_limit)} ELSE {}))
\* None for a transition that is measured in metres.
transition_duration(td, from, to) ==
  IF td.shape = "step" \/ from = to \/ ~Positive(td.value) THEN 0
  ELSE CASE td.dimension = "time" -> td.value
         [] td.dimension = "rate" -> ByGradient(td.shape, Magnitude(to - from), td.value)
         [] td.dimension = "distance" -> None
lane_offset_duration(shape, delta, max_lateral_acc) ==
  IF shape = "step" \/ delta = 0 \/ ~Positive(max_lateral_acc) THEN 0
  ELSE ByBend(shape_peak_curvature_factor(shape), Magnitude(delta), max_lateral_acc)

---------------------------------------------------------------------------
(* The controller: its segments [from, to, shape, by_distance, span] and how   *)
(* far it has come.                                                            *)

Controller(segments) == [segments |-> segments, index |-> 1, elapsed |-> 0, traveled |-> 0]
done(c) == c.index > Len(c.segments)
speed(c) ==
  LET s == c.segments[c.index]
  IN IF c.segments = <<>> THEN Q(0, 1)
     ELSE IF done(c) THEN Q(c.segments[Len(c.segments)].to, 1)
     ELSE IF s.span <= 0 THEN Q(s.to, 1)
     ELSE transition_value(s.shape, s.from, s.to, Q(IF s.by_distance THEN c.traveled ELSE c.elapsed, s.span))

\* What is left of a step when a segment ends goes into the next one.
Segment(run, i) ==
  LET c == run.c
      s == c.segments[i]
      used == IF s.by_distance THEN c.traveled ELSE c.elapsed
      left == IF s.by_distance THEN run.distance ELSE run.dt
      next == [c EXCEPT !.index = i + 1, !.elapsed = 0, !.traveled = 0]
  IN IF i # c.index \/ run.held THEN run
     ELSE IF s.span <= 0 THEN [run EXCEPT !.c = next]
     ELSE IF left >= s.span - used
          THEN IF s.by_distance THEN [run EXCEPT !.c = next, !.distance = @ - (s.span - used)]
               ELSE [run EXCEPT !.c = next, !.dt = @ - (s.span - used)]
     ELSE IF s.by_distance THEN [run EXCEPT !.c.traveled = @ + left, !.distance = 0, !.held = TRUE]
     ELSE [run EXCEPT !.c.elapsed = @ + left, !.dt = 0, !.held = TRUE]
advance(c, dt, step_distance) ==
  FoldLeft(Segment, [c |-> c, dt |-> Clamped(dt, 0, dt), distance |-> Clamped(step_distance, 0, step_distance),
                     held |-> FALSE],
           [i \in DOMAIN c.segments |-> i]).c

---------------------------------------------------------------------------
(* What the engine makes of its actions.                                       *)

\* The smaller of an action's constraint and the entity's own limit, or the
\* constraint where there is one.
effective_limit(constraint, envelope) ==
  LET limits == {x \in {constraint, envelope} : Positive(x)}
  IN IF limits = {} THEN None ELSE Least(limits)
overriding_limit(constraint, envelope) ==
  IF Positive(constraint) THEN constraint ELSE IF Positive(envelope) THEN envelope ELSE None

\* Entities in the simulation have a speed; the entity itself stands in for another.
resolve_relative_speed(target, speeds, own) ==
  LET reference == IF target.ref \in DOMAIN speeds THEN speeds[target.ref] ELSE own
  IN IF target.value_type = "delta" THEN reference + target.value ELSE reference * target.value

\* One entry of a speed profile after the other, each from where the last one ends.
ProfileSegment(action, limits, reference, profile, entry) ==
  LET asked == IF action.ref = None THEN entry.speed ELSE reference + entry.speed
      to == IF limits.speed # None /\ asked > limits.speed THEN limits.speed ELSE asked
      from == profile.from
      limit == IF to >= from THEN limits.acceleration ELSE limits.deceleration
      rate == IF to >= from THEN limits.acceleration_rate ELSE limits.deceleration_rate
      shape == IF action.follow THEN follow_shape("linear") ELSE "linear"
      span == IF action.follow THEN constrained_duration(shape, to - from, limit, rate, entry.time)
              ELSE IF entry.time # None THEN entry.time
              ELSE IF limit = None \/ to = from THEN 0
              ELSE RoundedUp(Q(Magnitude(to - from), limit))
  IN [from |-> to,
      segments |-> Append(profile.segments, [from |-> from, to |-> to, shape |-> shape,
                                             by_distance |-> FALSE, span |-> span])]
Limits == {"acceleration", "deceleration", "acceleration_rate", "deceleration_rate", "speed"}
ProfileLimits(action, record) ==
  [l \in Limits |-> overriding_limit(action.constraints[l], record.performance[l])]
build_profile_controller(action, record, speeds) ==
  LET reference == IF action.ref \in DOMAIN speeds THEN speeds[action.ref] ELSE 0
  IN Controller(FoldLeft(LAMBDA profile, entry :
                           ProfileSegment(action, ProfileLimits(action, record), reference, profile, entry),
                         [from |-> record.speed, segments |-> <<>>], action.entries).segments)
=============================================================================
