---------------------------- MODULE EngineProofs ----------------------------
(***************************************************************************)
(* Proofs about the life of an engine, for every set of scenarios: an engine *)
(* without a run holds nothing but what the host has staged, the phase each   *)
(* signal controller shows is the one the clock says, an odometer agrees with *)
(* the position it belongs to, and a signal that was forced stays so until a  *)
(* phase is entered.                                                          *)
(***************************************************************************)
EXTENDS Engine, InductionFacts

---------------------------------------------------------------------------
(* The members of an engine, and what an operation of it leaves alone.      *)

Members == {"initialized", "scenario", "now", "last_dt", "entities", "variables",
            "parameter_overrides", "user_defined_values", "date", "lane_width", "environment",
            "signal_states", "controller_phases", "signal_controllers", "warned", "diagnostics"}
Shaped(e) == e = [y \in Members |-> e[y]]

\* From e an operation made f and wrote the members in S at most.
Changes(e, f, S) == Shaped(f) /\ \A y \in Members \ S : f[y] = e[y]

LEMMA ShapeFacts ==
  ASSUME NEW e, Shaped(e)
  PROVE  DOMAIN e = Members
BY DEF Shaped

\* An update of one member changes that one.
LEMMA OneMember ==
  ASSUME NEW e, Shaped(e), NEW x \in Members, NEW v
  PROVE  Changes(e, [e EXCEPT ![x] = v], {x}) /\ [e EXCEPT ![x] = v][x] = v
BY DEF Shaped, Changes

LEMMA ChangesMore ==
  ASSUME NEW e, NEW f, NEW S, NEW T, Changes(e, f, S), S \subseteq T
  PROVE  Changes(e, f, T)
BY DEF Changes

LEMMA ChangesNothing ==
  ASSUME NEW e, Shaped(e), NEW S
  PROVE  Changes(e, e, S)
BY DEF Changes

LEMMA ChangesOnAndOn ==
  ASSUME NEW e, NEW f, NEW g, NEW S, Changes(e, f, S), Changes(f, g, S)
  PROVE  Changes(e, g, S)
BY DEF Changes

\* What the storyboard's actions write.
Written == {"entities", "warned", "diagnostics", "variables", "parameter_overrides",
            "signal_states", "controller_phases", "signal_controllers", "environment", "date"}

LEMMA WarnOnce ==
  ASSUME NEW e, Shaped(e), NEW path, NEW code
  PROVE  Changes(e, warn_once(e, path, code), {"warned", "diagnostics"})
BY DEF Shaped, Changes, warn_once, Members

LEMMA WithRecordChanges ==
  ASSUME NEW e, Shaped(e), NEW id, NEW r
  PROVE  Changes(e, WithRecord(e, id, r), {"entities"})
BY DEF Shaped, Changes, WithRecord, Members

LEMMA RecordFor ==
  ASSUME NEW e, Shaped(e), NEW a, NEW r
  PROVE  Changes(e, record_for(e, a, r), {"entities", "warned", "diagnostics"})
<1>1. Changes(e, [e EXCEPT !.diagnostics = Append(@, Warning("UnknownEntity"))], {"diagnostics"})
  BY DEF Shaped, Changes, Members
<1>2. Changes(e, WithRecord(e, a.who, r), {"entities"})
  BY WithRecordChanges
<1>3. Changes(e, warn_once(e, <<"entities", a.who>>, "UnknownEntity"), {"warned", "diagnostics"})
  BY WarnOnce
<1> QED
  BY <1>1, <1>2, <1>3 DEF record_for, Changes

LEMMA ModifyNamedValue ==
  ASSUME NEW e, Shaped(e), NEW store \in {"variables", "parameter_overrides"}, NEW name, NEW amount
  PROVE  Changes(e, modify_named_value(e, store, name, amount), {store, "warned", "diagnostics"})
<1>1. Changes(e, warn_once(e, <<store, name>>, "UnsupportedFeature"), {"warned", "diagnostics"})
  BY WarnOnce
<1>2. Changes(e, [e EXCEPT ![store][name] = @ + amount], {store})
  BY DEF Shaped, Changes, Members
<1> QED
  BY <1>1, <1>2 DEF modify_named_value, Changes

LEMMA ParameterSlot ==
  ASSUME NEW e, Shaped(e), NEW name
  PROVE  Changes(e, parameter_slot(e, name), {"parameter_overrides", "warned", "diagnostics"})
<1> DEFINE f == warn_once(e, <<"parameters", name>>, "DeprecatedFeature")
           v == IF name \in DOMAIN f.parameter_overrides THEN f.parameter_overrides
                ELSE With(f.parameter_overrides, name, e.scenario.parameters[name])
<1>1. Changes(e, f, {"warned", "diagnostics"})
  BY WarnOnce
<1>2. Shaped(f)
  BY <1>1 DEF Changes
<1> HIDE DEF f
<1>3. Changes(f, [f EXCEPT !["parameter_overrides"] = v], {"parameter_overrides"})
  BY <1>2, OneMember DEF Members
<1>4. parameter_slot(e, name) = [f EXCEPT !["parameter_overrides"] = v]
  BY DEF parameter_slot, f, v
<1> HIDE DEF v
<1> QED
  BY <1>1, <1>3, <1>4 DEF Changes

LEMMA ApplySignalPhase ==
  ASSUME NEW e, Shaped(e), NEW entered
  PROVE  Changes(e, apply_signal_phase(e, entered),
                 {"signal_states", "controller_phases", "signal_controllers"})
BY DEF Shaped, Changes, apply_signal_phase, Members

LEMMA RestartPhaseChanges ==
  ASSUME NEW e, Shaped(e), NEW name, NEW phase
  PROVE  Changes(e, RestartPhase(e, name, phase),
                 {"signal_states", "controller_phases", "signal_controllers"})
<1> DEFINE f(start) == [e EXCEPT !.signal_controllers[name].anchor = start]
<1>1. \A start : Changes(e, f(start), {"signal_controllers"})
  BY DEF Shaped, Changes, Members
<1>2. \A start : Shaped(f(start))
  BY <1>1 DEF Changes
<1> HIDE DEF f
<1>3. \A start, entered : Changes(f(start), apply_signal_phase(f(start), entered),
                 {"signal_states", "controller_phases", "signal_controllers"})
  BY <1>2, ApplySignalPhase
<1>4. \A start, entered : Changes(e, apply_signal_phase(f(start), entered),
                 {"signal_states", "controller_phases", "signal_controllers"})
  BY <1>1, <1>3 DEF Changes
<1>5. CASE RestartPhase(e, name, phase) = e
  BY <1>5 DEF Changes
<1>6. CASE RestartPhase(e, name, phase) # e
  <2>1. \E start, entered : RestartPhase(e, name, phase) = apply_signal_phase(f(start), entered)
    BY <1>6 DEF RestartPhase, f
  <2> QED
    BY <2>1, <1>4
<1> QED
  BY <1>5, <1>6

LEMMA MergeEnvironmentChanges ==
  ASSUME NEW e, Shaped(e), NEW a
  PROVE  Changes(e, MergeEnvironment(e, a), {"environment", "date"})
BY DEF Shaped, Changes, MergeEnvironment, Members

\* What an action writes that is neither about the environment nor a controller's.
Recorded == {"entities", "warned", "diagnostics", "variables", "parameter_overrides",
             "signal_states"}

LEMMA ApplyChanges ==
  ASSUME NEW e, Shaped(e), NEW a
  PROVE  \/ a.kind = "phase" /\ apply(e, a) = RestartPhase(e, a.name, a.value)
         \/ a.kind = "environment" /\ apply(e, a) = MergeEnvironment(e, a)
         \/ Changes(e, apply(e, a), Recorded)
<1>1. \A r : Changes(e, record_for(e, a, r), Recorded)
  BY RecordFor DEF Changes, Recorded
<1>2. \A id, r : Changes(e, WithRecord(e, id, r), Recorded)
  BY WithRecordChanges DEF Changes, Recorded
<1>3. Changes(e, e, Recorded)
  BY DEF Changes
<1>4. \A store \in {"variables", "parameter_overrides"} : \A name, amount :
        Changes(e, modify_named_value(e, store, name, amount), Recorded)
  BY ModifyNamedValue DEF Changes, Recorded
<1>5. \A name : Changes(e, parameter_slot(e, name), Recorded)
  BY ParameterSlot DEF Changes, Recorded
<1>6. \A name, v : Changes(e, [parameter_slot(e, name) EXCEPT !.parameter_overrides[name] = v],
                          Recorded)
  <2> SUFFICES ASSUME NEW name, NEW v
               PROVE  Changes(e, [parameter_slot(e, name) EXCEPT !.parameter_overrides[name] = v],
                              Recorded)
    OBVIOUS
  <2> DEFINE f == parameter_slot(e, name)
             g == [f EXCEPT !["parameter_overrides"] = [f.parameter_overrides EXCEPT ![name] = v]]
  <2>1. Shaped(f)
    BY <1>5 DEF Changes
  <2>2. [f EXCEPT !.parameter_overrides[name] = v] = g
    BY DEF g
  <2> HIDE DEF f
  <2>3. Changes(f, g, {"parameter_overrides"})
    BY <2>1, OneMember DEF Members
  <2>4. Changes(e, f, Recorded)
    BY <1>5 DEF f
  <2>5. Changes(e, g, Recorded)
    BY <2>3, <2>4 DEF Changes, Recorded
  <2> QED
    BY <2>2, <2>5 DEF f
<1>7. \A name, amount : Changes(e, modify_named_value(parameter_slot(e, name), "parameter_overrides",
                                                 name, amount), Recorded)
  <2> SUFFICES ASSUME NEW name, NEW amount
               PROVE  Changes(e, modify_named_value(parameter_slot(e, name), "parameter_overrides",
                                                    name, amount), Recorded)
    OBVIOUS
  <2> DEFINE f == parameter_slot(e, name)
  <2>1. Shaped(f) /\ Changes(e, f, Recorded)
    BY <1>5 DEF Changes
  <2> HIDE DEF f
  <2>2. Changes(f, modify_named_value(f, "parameter_overrides", name, amount),
                {"parameter_overrides", "warned", "diagnostics"})
    BY <2>1, ModifyNamedValue
  <2> QED
    BY <2>1, <2>2 DEF Changes, Recorded, f
<1>8. \A name, v : Changes(e, [e EXCEPT !.variables[name] = v], Recorded)
  BY DEF Shaped, Changes, Recorded, Members
<1>9. \A v : Changes(e, [e EXCEPT !.signal_states = v], Recorded)
  BY DEF Shaped, Changes, Recorded, Members
<1>10. CASE a.kind = "phase"
  BY <1>10 DEF apply
<1>11. CASE a.kind = "environment"
  BY <1>11 DEF apply
<1>12. CASE a.kind \in {"add", "delete"}
  BY <1>12, <1>2, <1>3 DEF apply
<1>13. CASE a.kind \in {"setVariable", "modifyVariable", "setParameter", "modifyParameter"}
  BY <1>13, <1>4, <1>6, <1>7, <1>8 DEF apply
<1>14. CASE a.kind = "signal"
  BY <1>14, <1>9 DEF apply
<1>15. CASE a.kind = "custom"
  BY <1>15, <1>3 DEF apply
<1>16. CASE a.kind \notin {"phase", "environment", "add", "delete", "setVariable",
                          "modifyVariable", "setParameter", "modifyParameter", "signal", "custom"}
  BY <1>16, <1>1 DEF apply
<1> QED
  BY <1>10, <1>11, <1>12, <1>13, <1>14, <1>15, <1>16

LEMMA ApplyWrites ==
  ASSUME NEW e, Shaped(e), NEW a
  PROVE  Changes(e, apply(e, a), Written)
<1>1. CASE apply(e, a) = RestartPhase(e, a.name, a.value)
  BY <1>1, RestartPhaseChanges DEF Changes, Written
<1>2. CASE apply(e, a) = MergeEnvironment(e, a)
  BY <1>2, MergeEnvironmentChanges DEF Changes, Written
<1>3. CASE Changes(e, apply(e, a), Recorded)
  BY <1>3 DEF Changes, Written, Recorded
<1> QED
  BY <1>1, <1>2, <1>3, ApplyChanges

LEMMA RepollChanges ==
  ASSUME NEW e, Shaped(e)
  PROVE  Changes(e, Repoll(e), {"entities"})
BY DEF Shaped, Changes, Repoll, Members

---------------------------------------------------------------------------
(* The anchor of the time of day.                                           *)

\* The host's date is anchored no later than now.
Dated(e) == DOMAIN e.date = {"set", "epoch", "sim", "animated"}
Anchored(e) == Dated(e) /\ (e.date.set => e.date.sim \in Int /\ e.date.sim <= e.now)

LEMMA ApplyAnchored ==
  ASSUME NEW e, Shaped(e), NEW a, e.now \in Int, Anchored(e)
  PROVE  Anchored(apply(e, a))
<1>1. apply(e, a).now = e.now
  BY ApplyWrites DEF Changes, Written, Members
<1>2. CASE apply(e, a) = MergeEnvironment(e, a)
  <2>1. e.date = apply(e, a).date \/ (Dated(apply(e, a)) /\ apply(e, a).date.sim = e.now)
    <3> DEFINE time == a.update.timeOfDay
               anchored == [set |-> TRUE, epoch |-> time.epoch, sim |-> e.now,
                            animated |-> time.animated]
    <3>1. "date" \in DOMAIN e /\ "environment" \in DOMAIN e
      BY ShapeFacts DEF Members
    <3>2. MergeEnvironment(e, a).date = IF time = None THEN e.date ELSE anchored
      BY <3>1 DEF MergeEnvironment
    <3>3. anchored.sim = e.now /\ DOMAIN anchored = {"set", "epoch", "sim", "animated"}
      OBVIOUS
    <3> HIDE DEF anchored
    <3> QED
      BY <1>2, <3>2, <3>3 DEF Dated
  <2> QED
    BY <1>1, <2>1 DEF Anchored, Dated
<1>3. CASE apply(e, a) = RestartPhase(e, a.name, a.value)
  <2>1. apply(e, a).date = e.date
    BY <1>3, RestartPhaseChanges DEF Changes, Members
  <2> QED
    BY <1>1, <2>1 DEF Anchored, Dated
<1>4. CASE Changes(e, apply(e, a), Recorded)
  <2>1. apply(e, a).date = e.date
    BY <1>4 DEF Changes, Recorded, Members
  <2> QED
    BY <1>1, <2>1 DEF Anchored, Dated
<1> QED
  BY <1>2, <1>3, <1>4, ApplyChanges

---------------------------------------------------------------------------
(* The init actions, one after the other.                                   *)

LEMMA BegunInSteps ==
  ASSUME NEW e, NEW scn, Len(scn.init) \in Nat
  PROVE  \E run :
           /\ run[0] = advance_signal_controllers(Seeded(e, scn), 0)
           /\ \A i \in 1 .. Len(scn.init) : run[i] = InitAction(run[i - 1], scn.init[i])
           /\ Begun(e, scn) = run[Len(scn.init)]
<1> DEFINE n == Len(scn.init)
           base == advance_signal_controllers(Seeded(e, scn), 0)
           Runs(run, k) == run = [i \in 0 .. k |-> IF i = 0 THEN base
                                                  ELSE InitAction(run[i - 1], scn.init[i])]
           K == {k \in Nat : \E run : Runs(run, k)}
<1>1. 0 \in K
  <2> DEFINE run == [i \in 0 .. 0 |-> base]
  <2> HIDE DEF base
  <2>1. Runs(run, 0)
    OBVIOUS
  <2> QED
    BY <2>1
<1>2. ASSUME NEW k \in Nat, k \in K
      PROVE  k + 1 \in K
  <2> HIDE DEF base
  <2>1. PICK run : Runs(run, k)
    BY <1>2
  <2> DEFINE more == [i \in 0 .. k + 1 |-> IF i \in 0 .. k THEN run[i]
                                          ELSE InitAction(run[k], scn.init[k + 1])]
  <2>2. \A i \in 0 .. k : more[i] = run[i]
    OBVIOUS
  <2>3. \A i \in 0 .. k + 1 : more[i] = IF i = 0 THEN base ELSE InitAction(more[i - 1], scn.init[i])
    <3> SUFFICES ASSUME NEW i \in 0 .. k + 1
                 PROVE  more[i] = IF i = 0 THEN base ELSE InitAction(more[i - 1], scn.init[i])
      OBVIOUS
    <3>1. CASE i \in 0 .. k
      <4>1. i = 0 \/ more[i - 1] = run[i - 1]
        BY <3>1, <2>2
      <4> HIDE DEF more
      <4>2. more[i] = run[i]
        BY <3>1, <2>2
      <4>3. run[i] = IF i = 0 THEN base ELSE InitAction(run[i - 1], scn.init[i])
        BY <3>1, <2>1
      <4> QED
        BY <4>1, <4>2, <4>3
    <3>2. CASE i = k + 1
      <4>1. more[i] = InitAction(run[k], scn.init[k + 1]) /\ more[i - 1] = run[k] /\ i # 0
        BY <3>2
      <4> QED
        BY <4>1, <3>2
    <3> QED
      BY <3>1, <3>2
  <2>4. Runs(more, k + 1)
    <3>1. more = [i \in 0 .. k + 1 |-> more[i]]
      OBVIOUS
    <3> HIDE DEF more
    <3> QED
      BY <3>1, <2>3
  <2> HIDE DEF more, Runs
  <2>5. k + 1 \in Nat /\ \E any : Runs(any, k + 1)
    BY <2>4
  <2> QED
    BY <2>5
<1>3. n \in K
  <2> HIDE DEF K
  <2> QED
    BY <1>1, <1>2, NaturalInduction
<1>4. \E run : Runs(run, n)
  BY <1>3
<1> DEFINE chosen == CHOOSE run : Runs(run, n)
<1>5. Runs(chosen, n)
  BY <1>4
<1>6. Begun(e, scn) = chosen[n]
  BY DEF Begun
<1> HIDE DEF chosen, base
<1>7. chosen[0] = base
  BY <1>5
<1>8. \A i \in 1 .. n : chosen[i] = InitAction(chosen[i - 1], scn.init[i])
  BY <1>5
<1> QED
  BY <1>6, <1>7, <1>8 DEF base

---------------------------------------------------------------------------
(* The cycle of a signal controller.                                        *)

TimedPhases(phases) ==
  /\ phases \in Seq(Range(phases)) /\ Len(phases) \in Nat /\ DOMAIN phases = 1 .. Len(phases)
  /\ \A i \in 1 .. Len(phases) : phases[i].duration \in Nat

LEMMA CumulativeSums ==
  ASSUME NEW phases, TimedPhases(phases)
  PROVE  /\ Cumulative(phases) \in [0 .. Len(phases) -> Nat]
         /\ Cumulative(phases)[0] = 0
         /\ \A i \in 1 .. Len(phases) :
              Cumulative(phases)[i] = Cumulative(phases)[i - 1] + phases[i].duration
<1> DEFINE n == Len(phases)
           next == [p \in (1 .. n) \X Nat |-> p[2] + phases[p[1]].duration]
           Sums(f) == f = [i \in 0 .. n |-> IF i = 0 THEN 0 ELSE f[i - 1] + phases[i].duration]
<1>1. n \in Nat /\ \A i \in 1 .. n : phases[i].duration \in Nat
  BY DEF TimedPhases
<1>2. next \in [(1 .. n) \X Nat -> Nat]
  BY <1>1
<1>3. PICK f : Recursive(f, n, Nat, 0, next)
  <2> HIDE DEF next, n
  <2> QED
    BY <1>1, <1>2, IntervalRecursion
<1>4. f \in [0 .. n -> Nat] /\ f[0] = 0 /\ \A i \in 1 .. n : f[i] = next[<<i, f[i - 1]>>]
  <2> HIDE DEF next, n
  <2> QED
    BY <1>3 DEF Recursive
<1>5. \A i \in 1 .. n : next[<<i, f[i - 1]>>] = f[i - 1] + phases[i].duration
  <2> SUFFICES ASSUME NEW i \in 1 .. n
               PROVE  next[<<i, f[i - 1]>>] = f[i - 1] + phases[i].duration
    OBVIOUS
  <2>1. i - 1 \in 0 .. n
    BY <1>1
  <2>2. f[i - 1] \in Nat
    <3> HIDE DEF next, n
    <3> QED
      BY <1>4, <2>1
  <2>3. <<i, f[i - 1]>> \in (1 .. n) \X Nat
    BY <2>2
  <2> QED
    BY <2>3
<1>6. Sums(f)
  <2>1. \A i \in 0 .. n : f[i] = IF i = 0 THEN 0 ELSE f[i - 1] + phases[i].duration
    <3>1. \A i \in 0 .. n : i = 0 \/ (i # 0 /\ i \in 1 .. n)
      BY <1>1
    <3> HIDE DEF next, n
    <3>2. \A i \in 1 .. n : f[i] = f[i - 1] + phases[i].duration
      BY <1>4, <1>5, Zenon
    <3> QED
      BY <1>4, <3>1, <3>2
  <2>2. f = [i \in 0 .. n |-> f[i]]
    <3> HIDE DEF next, n
    <3> QED
      BY <1>4
  <2> QED
    BY <2>1, <2>2
<1> DEFINE ends == CHOOSE g : Sums(g)
<1>7. Sums(ends)
  BY <1>6
<1>8. Cumulative(phases) = ends
  BY DEF Cumulative
<1> HIDE DEF ends
<1>9. DOMAIN ends = 0 .. n /\ ends[0] = 0
        /\ \A i \in 1 .. n : ends[i] = ends[i - 1] + phases[i].duration
  BY <1>1, <1>7
<1>10. \A i \in 0 .. n : ends[i] \in Nat
  <2> DEFINE S == {i \in 0 .. n : ends[i] \in Nat}
  <2>1. 0 \in S
    BY <1>1, <1>9
  <2>2. ASSUME NEW i \in 1 .. n, i - 1 \in S
        PROVE  i \in S
    BY <1>1, <1>9, <2>2
  <2>3. \A i \in 0 .. n : i \in S
    <3> HIDE DEF S, n
    <3> QED
      BY <1>1, <2>1, <2>2, IntervalInduction
  <2> QED
    BY <2>3
<1>11. ends \in [0 .. n -> Nat]
  BY <1>7, <1>9, <1>10
<1> QED
  BY <1>8, <1>9, <1>11

LEMMA CumulativeGrows ==
  ASSUME NEW phases, TimedPhases(phases)
  PROVE  \A i, j \in 0 .. Len(phases) : i <= j => Cumulative(phases)[i] <= Cumulative(phases)[j]
<1> DEFINE n == Len(phases)
           ends == Cumulative(phases)
           S == {j \in 0 .. n : \A i \in 0 .. n : i <= j => ends[i] <= ends[j]}
<1>1. /\ n \in Nat /\ ends \in [0 .. n -> Nat]
      /\ \A i \in 1 .. n : ends[i - 1] <= ends[i]
  <2>1. n \in Nat /\ \A i \in 1 .. n : phases[i].duration \in Nat
    BY DEF TimedPhases
  <2>2. /\ ends \in [0 .. n -> Nat]
        /\ \A i \in 1 .. n : ends[i] = ends[i - 1] + phases[i].duration
    BY CumulativeSums
  <2> HIDE DEF n, ends
  <2>3. ASSUME NEW i \in 1 .. n
        PROVE  ends[i - 1] <= ends[i]
    <3>1. i - 1 \in 0 .. n /\ ends[i - 1] \in Nat /\ phases[i].duration \in Nat
      BY <2>1, <2>2
    <3> QED
      BY <2>2, <3>1
  <2> QED
    BY <2>1, <2>2, <2>3
<1> HIDE DEF n, ends
<1>2. 0 \in S
  BY <1>1
<1>3. ASSUME NEW j \in 1 .. n, j - 1 \in S
      PROVE  j \in S
  <2>1. ASSUME NEW i \in 0 .. n, i <= j
        PROVE  ends[i] <= ends[j]
    <3>1. CASE i = j
      BY <1>1, <3>1
    <3>2. CASE i # j
      <4>1. i <= j - 1 /\ j - 1 \in 0 .. n /\ j \in 0 .. n
        BY <1>1, <2>1, <3>2
      <4>2. ends[i] <= ends[j - 1] /\ ends[j - 1] <= ends[j]
        BY <1>1, <1>3, <4>1
      <4>3. ends[i] \in Nat /\ ends[j - 1] \in Nat /\ ends[j] \in Nat
        BY <1>1, <4>1
      <4> QED
        BY <4>2, <4>3
    <3> QED
      BY <3>1, <3>2
  <2> QED
    BY <1>1, <2>1
<1>4. \A j \in 0 .. n : j \in S
  <2> HIDE DEF S
  <2> QED
    BY <1>1, <1>2, <1>3, IntervalInduction
<1> QED
  BY <1>4 DEF n, ends

\* The phase shown is the one whose span holds the position in the cycle.
LEMMA PhaseIndexHolds ==
  ASSUME NEW phases, TimedPhases(phases), NEW at \in Nat, at < Total(phases)
  PROVE  LET k == phase_index(phases, at)
         IN  /\ k \in 1 .. Len(phases)
             /\ Cumulative(phases)[k - 1] <= at /\ at < Cumulative(phases)[k]
<1> DEFINE n == Len(phases)
           ends == Cumulative(phases)
           T == {i \in 1 .. n : i = n \/ at < ends[i]}
           Shown(i) == (i = n \/ at < ends[i]) /\ \A j \in 1 .. i - 1 : ends[j] <= at
<1>1. n \in Nat /\ DOMAIN phases = 1 .. n
  BY DEF TimedPhases
<1>2. ends \in [0 .. n -> Nat] /\ ends[0] = 0 /\ at < ends[n]
  BY CumulativeSums DEF Total
<1>3. n # 0
  BY <1>2
<1>4. phase_index(phases, at) = CHOOSE i \in 1 .. n : Shown(i)
  BY <1>1 DEF phase_index
<1> HIDE DEF n, ends
<1>5. \E i \in 1 .. n : Shown(i)
  <2>1. n \in T /\ T \subseteq Nat
    BY <1>1, <1>3
  <2>2. PICK i \in T : \A j \in T : i <= j
    <3> HIDE DEF T
    <3> QED
      BY <2>1, LeastNatural
  <2>3. ASSUME NEW j \in 1 .. i - 1
        PROVE  ends[j] <= at
    <3>1. j \notin T /\ j \in 1 .. n /\ j \in 0 .. n
      BY <1>1, <2>1, <2>2
    <3>2. ends[j] \in Nat
      BY <1>2, <3>1
    <3> QED
      BY <3>1, <3>2
  <2> QED
    BY <2>2, <2>3
<1> DEFINE k == CHOOSE i \in 1 .. n : Shown(i)
<1>6. k \in 1 .. n /\ Shown(k)
  <2> HIDE DEF Shown
  <2> QED
    BY <1>5
<1> HIDE DEF k
<1>7. ends[k - 1] <= at
  <2>1. CASE k = 1
    BY <1>2, <2>1
  <2>2. CASE k # 1
    <3>1. k - 1 \in 1 .. k - 1
      BY <1>1, <1>6, <2>2
    <3> QED
      BY <1>6, <3>1
  <2> QED
    BY <2>1, <2>2
<1> QED
  BY <1>2, <1>4, <1>6, <1>7 DEF k, n, ends

TimedControllers(controllers) ==
  /\ Len(controllers) \in Nat /\ DOMAIN controllers = 1 .. Len(controllers)
  /\ \A i \in 1 .. Len(controllers) :
       controllers[i].delay \in Optional(Nat) /\ TimedPhases(controllers[i].phases)

LEMMA FindController ==
  ASSUME NEW controllers, TimedControllers(controllers), NEW name
  PROVE  /\ find_controller(controllers, name) \in 0 .. Len(controllers)
         /\ (\E i \in DOMAIN controllers : controllers[i].name = name) =>
              find_controller(controllers, name) \in 1 .. Len(controllers)
<1> DEFINE found == {i \in DOMAIN controllers : controllers[i].name = name}
<1>1. Len(controllers) \in Nat /\ found \subseteq 1 .. Len(controllers)
  BY DEF TimedControllers
<1>2. CASE found = {}
  BY <1>1, <1>2 DEF find_controller
<1>3. CASE found # {}
  <2>1. \E i \in found : \A j \in found : i <= j
    <3> HIDE DEF found
    <3>1. found \subseteq Nat
      BY <1>1
    <3> QED
      BY <1>3, <3>1, LeastNatural
  <2>2. find_controller(controllers, name) \in found
    BY <2>1, <1>3 DEF find_controller
  <2>3. find_controller(controllers, name) \in 1 .. Len(controllers)
    <3> HIDE DEF found
    <3> QED
      BY <1>1, <2>2
  <2>4. 1 .. Len(controllers) \subseteq 0 .. Len(controllers)
    BY <1>1
  <2> QED
    BY <2>3, <2>4, Zenon
<1> QED
  BY <1>2, <1>3

LEMMA StartOffsetType ==
  ASSUME NEW controllers, TimedControllers(controllers), NEW c \in 1 .. Len(controllers)
  PROVE  StartOffset(controllers, c) \in Nat
<1> DEFINE n == Len(controllers)
           V == [at : 0 .. n, sum : Nat]
           chained(at) == at # 0 /\ controllers[at].reference # None
                            /\ controllers[at].delay # None
           up(at) == find_controller(controllers, controllers[at].reference)
           hop(last) == IF chained(last.at)
                        THEN [at |-> up(last.at), sum |-> last.sum + controllers[last.at].delay]
                        ELSE last
           first == [at |-> c, sum |-> 0]
           next == [p \in (1 .. n) \X V |-> hop(p[2])]
           Walks(f) == f = [i \in 0 .. n |-> IF i = 0 THEN first ELSE hop(f[i - 1])]
<1>1. n \in Nat /\ first \in V
  BY DEF TimedControllers
<1>2. \A last \in V : hop(last) \in V
  <2> SUFFICES ASSUME NEW last \in V, chained(last.at)
               PROVE  [at |-> up(last.at), sum |-> last.sum + controllers[last.at].delay] \in V
    OBVIOUS
  <2>1. last.at \in 1 .. n
    BY <1>1
  <2>2. controllers[last.at].delay \in Nat
    BY <2>1 DEF TimedControllers, Optional
  <2>3. up(last.at) \in 0 .. n
    BY FindController
  <2> QED
    BY <2>2, <2>3
<1> HIDE DEF hop, first, V, n
<1>3. next \in [(1 .. n) \X V -> V]
  BY <1>2
<1>4. PICK f : Recursive(f, n, V, first, next)
  <2> HIDE DEF next
  <2> QED
    BY <1>1, <1>3, IntervalRecursion
<1>5. f \in [0 .. n -> V] /\ f[0] = first /\ \A i \in 1 .. n : f[i] = next[<<i, f[i - 1]>>]
  <2> HIDE DEF next
  <2> QED
    BY <1>4 DEF Recursive
<1>6. \A i \in 1 .. n : f[i - 1] \in V
  <2>1. \A i \in 1 .. n : i - 1 \in 0 .. n
    BY <1>1
  <2> HIDE DEF next
  <2> QED
    BY <1>5, <2>1, Zenon
<1>7. \A i \in 1 .. n : next[<<i, f[i - 1]>>] = hop(f[i - 1])
  <2> SUFFICES ASSUME NEW i \in 1 .. n
               PROVE  next[<<i, f[i - 1]>>] = hop(f[i - 1])
    OBVIOUS
  <2>1. <<i, f[i - 1]>> \in (1 .. n) \X V
    BY <1>6
  <2> QED
    BY <2>1
<1>8. Walks(f)
  <2> HIDE DEF next
  <2>1. \A i \in 0 .. n : i = 0 \/ (i # 0 /\ i \in 1 .. n)
    BY <1>1
  <2>2. \A i \in 1 .. n : f[i] = hop(f[i - 1])
    BY <1>5, <1>7, Zenon
  <2>3. \A i \in 0 .. n : f[i] = IF i = 0 THEN first ELSE hop(f[i - 1])
    BY <1>5, <2>1, <2>2
  <2>4. f = [i \in 0 .. n |-> f[i]]
    BY <1>5
  <2> QED
    BY <2>3, <2>4
<1> DEFINE walk == CHOOSE f_1 : Walks(f_1)
<1>9. Walks(walk)
  BY <1>8
<1>10. StartOffset(controllers, c) = walk[n].sum
  BY DEF StartOffset, hop, first, n
<1> HIDE DEF walk
<1>11. walk[0] = first /\ \A i \in 1 .. n : walk[i] = hop(walk[i - 1])
  BY <1>1, <1>9
<1>12. \A i \in 0 .. n : walk[i] \in V
  <2> DEFINE S == {i \in 0 .. n : walk[i] \in V}
  <2>1. 0 \in S
    BY <1>1, <1>11
  <2>2. ASSUME NEW i \in 1 .. n, i - 1 \in S
        PROVE  i \in S
    BY <1>1, <1>2, <1>11, <2>2
  <2>3. \A i \in 0 .. n : i \in S
    <3> HIDE DEF S
    <3> QED
      BY <1>1, <2>1, <2>2, IntervalInduction
  <2> QED
    BY <2>3
<1>13. walk[n] \in V
  BY <1>1, <1>12
<1> QED
  BY <1>10, <1>13 DEF V

LEMMA SignalClocksType ==
  ASSUME NEW controllers, TimedControllers(controllers)
  PROVE  \A name \in DOMAIN SignalClocks(controllers) :
           LET clock == SignalClocks(controllers)[name]
           IN  TimedPhases(clock.phases) /\ clock.anchor \in Int /\ clock.applied = None
<1> SUFFICES ASSUME NEW name \in {controllers[i].name : i \in DOMAIN controllers}
             PROVE  LET clock == SignalClocks(controllers)[name]
                    IN  /\ TimedPhases(clock.phases) /\ clock.anchor \in Int
                        /\ clock.applied = None
  BY DEF SignalClocks
<1> DEFINE i == find_controller(controllers, name)
<1>1. i \in 1 .. Len(controllers)
  BY FindController
<1>2. TimedPhases(controllers[i].phases)
  BY <1>1 DEF TimedControllers
<1>3. StartOffset(controllers, i) \in Int
  BY <1>1, StartOffsetType
<1>4. SignalClocks(controllers)[name] =
        [phases |-> controllers[i].phases, anchor |-> StartOffset(controllers, i),
         applied |-> None]
  BY DEF SignalClocks
<1> QED
  BY <1>2, <1>3, <1>4

Clock(e, name) == e.signal_controllers[name]
Paced(clock) ==
  /\ clock = [phases |-> clock.phases, anchor |-> clock.anchor, applied |-> clock.applied]
  /\ TimedPhases(clock.phases) /\ clock.anchor \in Int
\* A controller shows the phase it has applied, or has not started.
Shown(e, name) ==
  \/ Clock(e, name).applied = None /\ name \notin DOMAIN e.controller_phases
  \/ /\ Clock(e, name).applied \in DOMAIN Clock(e, name).phases
     /\ name \in DOMAIN e.controller_phases
     /\ e.controller_phases[name] = Clock(e, name).phases[Clock(e, name).applied].name
     /\ Clock(e, name).anchor <= e.now
Controlled(e) ==
  /\ e.now \in Int
  /\ \A name \in DOMAIN e.signal_controllers : Paced(Clock(e, name)) /\ Shown(e, name)

\* The phase applied is that of the clock, or one of no duration just restarted.
InPhase(clock, now) ==
  LET ends == Cumulative(clock.phases)
      local == (now - clock.anchor) % Total(clock.phases)
      i == clock.applied
  IN  /\ i \in DOMAIN clock.phases
      /\ Total(clock.phases) > 0 =>
           \/ ends[i - 1] <= local /\ local < ends[i]
           \/ /\ clock.phases[i].duration = 0
              /\ ends[i - 1] = local \/ ends[i - 1] = Total(clock.phases)
Cyclic(e) ==
  /\ Controlled(e)
  /\ \A name \in DOMAIN e.signal_controllers :
       Started(Clock(e, name), e.now) => InPhase(Clock(e, name), e.now)

LEMMA ControllersStay ==
  ASSUME NEW e, Shaped(e), NEW entered
  PROVE  DOMAIN apply_signal_phase(e, entered).signal_controllers = DOMAIN e.signal_controllers
<1>1. "signal_controllers" \in DOMAIN e
  BY ShapeFacts DEF Members
<1> QED
  BY <1>1 DEF apply_signal_phase

LEMMA PhasesEntered ==
  ASSUME NEW e, Shaped(e), NEW entered, DOMAIN entered \subseteq DOMAIN e.signal_controllers,
         \A n \in DOMAIN e.signal_controllers : Paced(Clock(e, n)),
         NEW name \in DOMAIN e.signal_controllers
  PROVE  LET f == apply_signal_phase(e, entered)
         IN  /\ DOMAIN f.signal_controllers = DOMAIN e.signal_controllers
             /\ name \in DOMAIN entered =>
                  /\ Clock(f, name) = [phases |-> Clock(e, name).phases,
                                       anchor |-> Clock(e, name).anchor,
                                       applied |-> entered[name]]
                  /\ name \in DOMAIN f.controller_phases
                  /\ f.controller_phases[name] = Clock(e, name).phases[entered[name]].name
             /\ name \notin DOMAIN entered =>
                  /\ Clock(f, name) = Clock(e, name)
                  /\ name \in DOMAIN f.controller_phases <=> name \in DOMAIN e.controller_phases
                  /\ name \in DOMAIN e.controller_phases =>
                       f.controller_phases[name] = e.controller_phases[name]
<1> DEFINE f == apply_signal_phase(e, entered)
           phase == [n \in DOMAIN entered |-> e.signal_controllers[n].phases[entered[n]]]
           shown == [n \in DOMAIN entered |-> phase[n].name]
           clocks == [n \in DOMAIN e.signal_controllers |->
                        IF n \in DOMAIN entered
                        THEN [e.signal_controllers[n] EXCEPT !.applied = entered[n]]
                        ELSE e.signal_controllers[n]]
<1>1. "signal_controllers" \in DOMAIN e /\ "controller_phases" \in DOMAIN e
  BY ShapeFacts DEF Members
<1>2. f.signal_controllers = clocks
  BY <1>1 DEF apply_signal_phase
<1>3. f.controller_phases = Over(shown, e.controller_phases)
  BY <1>1 DEF apply_signal_phase
<1>4. DOMAIN f.signal_controllers = DOMAIN e.signal_controllers
  BY <1>2
<1>5. CASE name \in DOMAIN entered
  <2>1. Clock(f, name) = [Clock(e, name) EXCEPT !.applied = entered[name]]
    BY <1>2, <1>5 DEF Clock
  <2>2. Clock(f, name) = [phases |-> Clock(e, name).phases, anchor |-> Clock(e, name).anchor,
                          applied |-> entered[name]]
    BY <2>1 DEF Paced
  <2>3. shown[name] = Clock(e, name).phases[entered[name]].name
    BY <1>5 DEF Clock
  <2> HIDE DEF shown
  <2>4. name \in DOMAIN shown
    BY <1>5 DEF shown
  <2>5. name \in DOMAIN f.controller_phases /\ f.controller_phases[name] = shown[name]
    BY <1>3, <2>4 DEF Over
  <2> QED
    BY <1>4, <1>5, <2>2, <2>3, <2>5
<1>6. CASE name \notin DOMAIN entered
  <2>1. Clock(f, name) = Clock(e, name)
    BY <1>2, <1>6 DEF Clock
  <2>2. name \notin DOMAIN shown
    BY <1>6
  <2> HIDE DEF shown
  <2>3. /\ name \in DOMAIN f.controller_phases <=> name \in DOMAIN e.controller_phases
        /\ name \in DOMAIN e.controller_phases =>
             f.controller_phases[name] = e.controller_phases[name]
    BY <1>3, <2>2 DEF Over
  <2> QED
    BY <1>4, <1>6, <2>1, <2>3
<1> QED
  BY <1>5, <1>6

\* The phase of the clock.
LEMMA CurrentPhase ==
  ASSUME NEW clock, Paced(clock), NEW t \in Int, Started(clock, t)
  PROVE  /\ Current(clock, t) \in DOMAIN clock.phases
         /\ InPhase([clock EXCEPT !.applied = Current(clock, t)], t)
<1> DEFINE n == Len(clock.phases)
           total == Total(clock.phases)
           local == (t - clock.anchor) % total
           shown == [clock EXCEPT !.applied = Current(clock, t)]
<1>1. /\ TimedPhases(clock.phases) /\ n \in Nat /\ n # 0 /\ DOMAIN clock.phases = 1 .. n
      /\ clock.anchor \in Int /\ clock.anchor <= t
  BY DEF Paced, TimedPhases, Started
<1>2. total \in Nat
  BY <1>1, CumulativeSums DEF Total
<1>3. shown.phases = clock.phases /\ shown.anchor = clock.anchor
        /\ shown.applied = Current(clock, t)
  BY DEF Paced
<1>4. CASE total > 0
  <2>1. local \in Nat /\ local < total
    BY <1>1, <1>2, <1>4
  <2>2. Current(clock, t) = phase_index(clock.phases, local)
    BY <1>4 DEF Current
  <2>3. /\ Current(clock, t) \in 1 .. n
        /\ Cumulative(clock.phases)[Current(clock, t) - 1] <= local
        /\ local < Cumulative(clock.phases)[Current(clock, t)]
    <3> HIDE DEF local, n
    <3> QED
      BY <1>1, <2>1, <2>2, PhaseIndexHolds DEF n
  <2> QED
    BY <1>1, <1>3, <2>3 DEF InPhase
<1>5. CASE ~ (total > 0)
  <2>1. Current(clock, t) = 1
    BY <1>5 DEF Current
  <2>2. 1 \in DOMAIN clock.phases
    BY <1>1
  <2> QED
    BY <1>3, <1>5, <2>1, <2>2 DEF InPhase
<1> QED
  BY <1>4, <1>5

\* A tick brings every controller into the phase of the clock.
LEMMA AdvanceCycles ==
  ASSUME NEW e, Shaped(e), Controlled(e)
  PROVE  Cyclic(advance_signal_controllers(e, e.now))
<1> DEFINE f == advance_signal_controllers(e, e.now)
           entered == [n \in Entered(e.signal_controllers, e.now) |->
                         Current(e.signal_controllers[n], e.now)]
<1>1. f = apply_signal_phase(e, entered)
  BY DEF advance_signal_controllers
<1>2. DOMAIN entered \subseteq DOMAIN e.signal_controllers
  BY DEF Entered
<1>3. f.now = e.now /\ e.now \in Int
  BY <1>1, ApplySignalPhase DEF Changes, Members, Controlled
<1>4. DOMAIN f.signal_controllers = DOMAIN e.signal_controllers
  <2> HIDE DEF f, entered
  <2> QED
    BY <1>1, ControllersStay
<1>5. ASSUME NEW name \in DOMAIN e.signal_controllers
      PROVE  /\ Paced(Clock(f, name)) /\ Shown(f, name)
             /\ Started(Clock(f, name), f.now) => InPhase(Clock(f, name), f.now)
  <2> DEFINE c == Clock(e, name)
             index == Current(c, e.now)
  <2>1. Paced(c) /\ Shown(e, name)
    BY DEF Controlled
  <2>2. CASE name \in DOMAIN entered
    <3>1. Started(c, e.now) /\ entered[name] = index
      BY <2>2 DEF Entered, Clock
    <3>2. /\ Clock(f, name) = [phases |-> c.phases, anchor |-> c.anchor, applied |-> index]
          /\ name \in DOMAIN f.controller_phases
          /\ f.controller_phases[name] = c.phases[index].name
      BY <1>1, <1>2, <2>2, <3>1, PhasesEntered DEF Controlled
    <3>3. index \in DOMAIN c.phases /\ InPhase([c EXCEPT !.applied = index], e.now)
      BY <1>3, <2>1, <3>1, CurrentPhase
    <3>4. [c EXCEPT !.applied = index] = Clock(f, name)
      BY <2>1, <3>2 DEF Paced
    <3>5. Paced(Clock(f, name))
      BY <2>1, <3>2 DEF Paced
    <3>6. Shown(f, name)
      BY <1>3, <3>1, <3>2, <3>3 DEF Shown, Started
    <3> QED
      BY <1>3, <3>3, <3>4, <3>5, <3>6
  <2>3. CASE name \notin DOMAIN entered
    <3>1. /\ Clock(f, name) = c
          /\ name \in DOMAIN f.controller_phases <=> name \in DOMAIN e.controller_phases
          /\ name \in DOMAIN e.controller_phases =>
               f.controller_phases[name] = e.controller_phases[name]
      BY <1>1, <1>2, <2>3, PhasesEntered DEF Controlled
    <3>2. Shown(f, name)
      BY <1>3, <2>1, <3>1 DEF Shown
    <3>3. ASSUME Started(c, e.now)
          PROVE  InPhase(c, e.now)
      <4>1. c.applied = index
        BY <2>3, <3>3 DEF Entered, Clock
      <4>2. [c EXCEPT !.applied = index] = c
        BY <2>1, <4>1 DEF Paced
      <4> QED
        BY <1>3, <2>1, <3>3, <4>2, CurrentPhase
    <3> QED
      BY <1>3, <2>1, <3>1, <3>2, <3>3
  <2> QED
    BY <2>2, <2>3
<1> QED
  BY <1>3, <1>4, <1>5 DEF Cyclic, Controlled

\* A phase an action restarts is the phase of the clock from then on.
LEMMA RestartCycles ==
  ASSUME NEW e, Shaped(e), Cyclic(e), NEW name, NEW phase
  PROVE  Cyclic(RestartPhase(e, name, phase))
<1> DEFINE c == Clock(e, name)
           n == Len(c.phases)
           ends == Cumulative(c.phases)
           named == {i \in DOMAIN c.phases : c.phases[i].name = phase}
           index == CHOOSE i \in named : \A j \in named : i <= j
           start == e.now - ends[index - 1]
           g == [e EXCEPT !.signal_controllers[name].anchor = start]
           entered == [m \in {name} |-> index]
           f == apply_signal_phase(g, entered)
<1>1. SUFFICES ASSUME name \in DOMAIN e.signal_controllers, named # {}
               PROVE  Cyclic(f)
  BY DEF RestartPhase, Clock
<1>2. /\ e.now \in Int /\ Paced(c)
      /\ \A m \in DOMAIN e.signal_controllers : Paced(Clock(e, m)) /\ Shown(e, m)
  BY <1>1 DEF Cyclic, Controlled
<1>3. TimedPhases(c.phases) /\ n \in Nat /\ DOMAIN c.phases = 1 .. n
  BY <1>2 DEF Paced, TimedPhases
<1>4. index \in 1 .. n
  <2>1. \E i \in named : \A j \in named : i <= j
    <3>1. named \subseteq Nat
      BY <1>3
    <3> HIDE DEF named
    <3> QED
      BY <1>1, <3>1, LeastNatural
  <2>2. index \in named
    BY <2>1
  <2> HIDE DEF index
  <2> QED
    BY <1>3, <2>2
<1>5. /\ ends \in [0 .. n -> Nat] /\ ends[index] = ends[index - 1] + c.phases[index].duration
      /\ ends[index - 1] <= ends[n] /\ ends[index] <= ends[n]
      /\ ends[index - 1] \in Nat /\ c.phases[index].duration \in Nat /\ ends[n] \in Nat
  <2> HIDE DEF index, n
  <2>1. index \in 0 .. n /\ index - 1 \in 0 .. n /\ n \in 0 .. n /\ index - 1 <= n /\ index <= n
    BY <1>3, <1>4
  <2>2. /\ ends \in [0 .. n -> Nat] /\ ends[index] = ends[index - 1] + c.phases[index].duration
    BY <1>3, <1>4, CumulativeSums DEF n
  <2>3. ends[index - 1] <= ends[n] /\ ends[index] <= ends[n]
    BY <1>3, <2>1, CumulativeGrows DEF n
  <2>4. c.phases[index].duration \in Nat
    BY <1>3, <1>4 DEF TimedPhases, n
  <2> HIDE DEF ends
  <2> QED
    BY <2>1, <2>2, <2>3, <2>4
<1> HIDE DEF index
<1>6. start \in Int /\ start <= e.now /\ e.now - start = ends[index - 1]
  <2> HIDE DEF ends
  <2> QED
    BY <1>2, <1>5
<1> HIDE DEF start
<1>7. Shaped(g) /\ g.now = e.now /\ g.controller_phases = e.controller_phases
  BY DEF Shaped, Members
<1>8. g.signal_controllers = [e.signal_controllers EXCEPT ![name].anchor = start]
  <2>1. "signal_controllers" \in DOMAIN e
    BY ShapeFacts DEF Members
  <2> QED
    BY <2>1
<1>9. /\ DOMAIN g.signal_controllers = DOMAIN e.signal_controllers
      /\ Clock(g, name) = [phases |-> c.phases, anchor |-> start, applied |-> c.applied]
      /\ \A m \in DOMAIN e.signal_controllers \ {name} : Clock(g, m) = Clock(e, m)
  <2> HIDE DEF g
  <2>1. Clock(g, name) = [c EXCEPT !.anchor = start]
    BY <1>1, <1>8 DEF Clock
  <2>2. Clock(g, name) = [phases |-> c.phases, anchor |-> start, applied |-> c.applied]
    BY <1>2, <2>1 DEF Paced
  <2> QED
    BY <1>8, <2>2 DEF Clock
<1> HIDE DEF g
<1>10. \A m \in DOMAIN g.signal_controllers : Paced(Clock(g, m))
  <2>1. Paced(Clock(g, name))
    BY <1>3, <1>6, <1>9 DEF Paced
  <2> QED
    BY <1>2, <1>9, <2>1
<1>11. DOMAIN entered = {name} /\ DOMAIN entered \subseteq DOMAIN g.signal_controllers
         /\ entered[name] = index
  BY <1>1, <1>9
<1> HIDE DEF entered
<1>12. f.now = e.now /\ DOMAIN f.signal_controllers = DOMAIN e.signal_controllers
  <2>1. f.now = g.now
    BY <1>7, ApplySignalPhase DEF Changes, Members
  <2>2. DOMAIN f.signal_controllers = DOMAIN g.signal_controllers
    BY <1>1, <1>7, <1>9, <1>10, <1>11, PhasesEntered
  <2> QED
    BY <1>7, <1>9, <2>1, <2>2
<1>13. /\ Clock(f, name) = [phases |-> c.phases, anchor |-> start, applied |-> index]
       /\ name \in DOMAIN f.controller_phases
       /\ f.controller_phases[name] = c.phases[index].name
  BY <1>1, <1>7, <1>9, <1>10, <1>11, PhasesEntered
<1>14. InPhase(Clock(f, name), e.now)
  <2>1. Total(c.phases) = ends[n]
    BY DEF Total
  <2>2. ASSUME ends[n] > 0
        PROVE  LET local == ends[index - 1] % ends[n]
               IN  \/ ends[index - 1] <= local /\ local < ends[index]
                   \/ /\ c.phases[index].duration = 0
                      /\ ends[index - 1] = local \/ ends[index - 1] = ends[n]
    <3> HIDE DEF ends, n
    <3>1. CASE ends[index - 1] = ends[n]
      BY <1>5, <3>1
    <3>2. CASE ends[index - 1] < ends[n]
      <4>1. ends[index - 1] % ends[n] = ends[index - 1]
        BY <1>5, <3>2
      <4> QED
        BY <1>5, <4>1
    <3> QED
      BY <1>5, <3>1, <3>2
  <2> HIDE DEF f, ends, n
  <2>3. index \in DOMAIN c.phases
    BY <1>3, <1>4
  <2>4. Clock(f, name).phases = c.phases /\ Clock(f, name).anchor = start
          /\ Clock(f, name).applied = index
    BY <1>13
  <2> QED
    BY <1>6, <2>1, <2>2, <2>3, <2>4 DEF InPhase, ends
<1>15. ASSUME NEW m \in DOMAIN e.signal_controllers
       PROVE  /\ Paced(Clock(f, m)) /\ Shown(f, m)
              /\ Started(Clock(f, m), f.now) => InPhase(Clock(f, m), f.now)
  <2>1. CASE m = name
    <3> HIDE DEF f
    <3>1. Paced(Clock(f, name))
      BY <1>3, <1>6, <1>13 DEF Paced
    <3>2. Shown(f, name)
      BY <1>3, <1>4, <1>6, <1>12, <1>13 DEF Shown
    <3> QED
      BY <1>12, <1>14, <2>1, <3>1, <3>2
  <2>2. CASE m # name
    <3>1. /\ Clock(f, m) = Clock(e, m)
          /\ m \in DOMAIN f.controller_phases <=> m \in DOMAIN e.controller_phases
          /\ m \in DOMAIN e.controller_phases =>
               f.controller_phases[m] = e.controller_phases[m]
      <4>1. m \in DOMAIN g.signal_controllers /\ m \notin DOMAIN entered
        BY <1>9, <1>11, <2>2
      <4>2. /\ Clock(f, m) = Clock(g, m)
            /\ m \in DOMAIN f.controller_phases <=> m \in DOMAIN g.controller_phases
            /\ m \in DOMAIN g.controller_phases =>
                 f.controller_phases[m] = g.controller_phases[m]
        BY <1>7, <1>10, <1>11, <4>1, PhasesEntered
      <4> QED
        BY <1>7, <1>9, <2>2, <4>2
    <3> HIDE DEF f
    <3>2. Shown(f, m)
      BY <1>2, <1>12, <3>1 DEF Shown
    <3> QED
      BY <1>2, <1>12, <3>1, <3>2 DEF Cyclic
  <2> QED
    BY <2>1, <2>2
<1> HIDE DEF f
<1> QED
  BY <1>2, <1>12, <1>15 DEF Cyclic, Controlled

---------------------------------------------------------------------------
(* What is reported in a run is no error.                                   *)

Clean(found) == found \in Seq(Diagnostic) /\ ~ has_errors(found)

LEMMA WarnedClean ==
  ASSUME NEW found, Clean(found), NEW code \in Status
  PROVE  Clean(Append(found, Warning(code)))
<1>1. Warning(code) \in Diagnostic /\ Warning(code).severity # "error"
  BY DEF Warning, Diagnostic, Severity
<1> DEFINE more == Append(found, Warning(code))
<1>2. found \in Seq(Diagnostic) /\ more \in Seq(Diagnostic)
  BY <1>1 DEF Clean
<1>3. ASSUME NEW i \in DOMAIN more
      PROVE  more[i].severity # "error"
  <2>1. CASE i \in DOMAIN found
    <3>1. more[i] = found[i]
      BY <1>2, <2>1
    <3> QED
      BY <2>1, <3>1 DEF Clean, has_errors, errors
  <2>2. CASE i \notin DOMAIN found
    <3>1. more[i] = Warning(code)
      BY <1>2, <2>2
    <3> QED
      BY <1>1, <3>1
  <2> QED
    BY <2>1, <2>2
<1> QED
  BY <1>2, <1>3 DEF Clean, has_errors, errors

\* From e an operation made f and reported no error.
Warned(e, f) == Clean(e.diagnostics) => Clean(f.diagnostics)

LEMMA WarnOnceClean ==
  ASSUME NEW e, Shaped(e), NEW path, NEW code \in Status
  PROVE  Warned(e, warn_once(e, path, code))
<1>1. "diagnostics" \in DOMAIN e
  BY ShapeFacts DEF Members
<1>2. CASE path \in e.warned
  BY <1>2 DEF Warned, warn_once
<1>3. CASE path \notin e.warned
  <2>1. warn_once(e, path, code).diagnostics = Append(e.diagnostics, Warning(code))
    BY <1>1, <1>3 DEF warn_once
  <2> QED
    BY <2>1, WarnedClean DEF Warned
<1> QED
  BY <1>2, <1>3

LEMMA ChangesWarned ==
  ASSUME NEW e, NEW f, NEW S, Changes(e, f, S), "diagnostics" \notin S
  PROVE  Warned(e, f)
BY DEF Changes, Warned, Members

LEMMA RecordForClean ==
  ASSUME NEW e, Shaped(e), NEW a, NEW r
  PROVE  Warned(e, record_for(e, a, r))
<1>1. Warned(e, [e EXCEPT !.diagnostics = Append(@, Warning("UnknownEntity"))])
  <2>1. "diagnostics" \in DOMAIN e
    BY ShapeFacts DEF Members
  <2>2. Clean(e.diagnostics) => Clean(Append(e.diagnostics, Warning("UnknownEntity")))
    BY WarnedClean DEF Status
  <2> QED
    BY <2>1, <2>2 DEF Warned
<1>2. Warned(e, WithRecord(e, a.who, r))
  BY WithRecordChanges, ChangesWarned
<1>3. Warned(e, warn_once(e, <<"entities", a.who>>, "UnknownEntity"))
  BY WarnOnceClean DEF Status
<1> QED
  BY <1>1, <1>2, <1>3 DEF record_for

LEMMA ModifyNamedValueClean ==
  ASSUME NEW e, Shaped(e), NEW store \in {"variables", "parameter_overrides"}, NEW name, NEW amount
  PROVE  Warned(e, modify_named_value(e, store, name, amount))
<1>1. Warned(e, warn_once(e, <<store, name>>, "UnsupportedFeature"))
  BY WarnOnceClean DEF Status
<1>2. Changes(e, [e EXCEPT ![store][name] = @ + amount], {store})
  BY DEF Shaped, Changes, Members
<1>3. Warned(e, [e EXCEPT ![store][name] = @ + amount])
  BY <1>2, ChangesWarned
<1> QED
  BY <1>1, <1>3 DEF modify_named_value

LEMMA ParameterSlotClean ==
  ASSUME NEW e, Shaped(e), NEW name
  PROVE  Warned(e, parameter_slot(e, name))
<1> DEFINE f == warn_once(e, <<"parameters", name>>, "DeprecatedFeature")
           v == IF name \in DOMAIN f.parameter_overrides THEN f.parameter_overrides
                ELSE With(f.parameter_overrides, name, e.scenario.parameters[name])
<1>1. Warned(e, f)
  BY WarnOnceClean DEF Status
<1>2. Shaped(f)
  BY WarnOnce DEF Changes
<1> HIDE DEF f
<1>3. Changes(f, [f EXCEPT !["parameter_overrides"] = v], {"parameter_overrides"})
  BY <1>2, OneMember DEF Members
<1>4. parameter_slot(e, name) = [f EXCEPT !["parameter_overrides"] = v]
  BY DEF parameter_slot, f, v
<1> HIDE DEF v
<1>5. Warned(f, parameter_slot(e, name))
  BY <1>3, <1>4, ChangesWarned
<1> QED
  BY <1>1, <1>5 DEF Warned

LEMMA ApplyClean ==
  ASSUME NEW e, Shaped(e), NEW a
  PROVE  Warned(e, apply(e, a))
<1>1. \A r : Warned(e, record_for(e, a, r))
  BY RecordForClean
<1>2. \A id, r : Warned(e, WithRecord(e, id, r))
  BY WithRecordChanges, ChangesWarned
<1>3. Warned(e, e)
  BY DEF Warned
<1>4. \A store \in {"variables", "parameter_overrides"} : \A name, amount :
        Warned(e, modify_named_value(e, store, name, amount))
  BY ModifyNamedValueClean
<1>5. \A name : Shaped(parameter_slot(e, name)) /\ Warned(e, parameter_slot(e, name))
  BY ParameterSlot, ParameterSlotClean DEF Changes
<1>6. \A name, v : Warned(e, [parameter_slot(e, name) EXCEPT !.parameter_overrides[name] = v])
  <2> SUFFICES ASSUME NEW name, NEW v
               PROVE  Warned(e, [parameter_slot(e, name) EXCEPT !.parameter_overrides[name] = v])
    OBVIOUS
  <2> DEFINE f == parameter_slot(e, name)
             g == [f EXCEPT !["parameter_overrides"] = [f.parameter_overrides EXCEPT ![name] = v]]
  <2>1. Shaped(f) /\ Warned(e, f)
    BY <1>5
  <2>2. [f EXCEPT !.parameter_overrides[name] = v] = g
    BY DEF g
  <2> HIDE DEF f
  <2>3. Changes(f, g, {"parameter_overrides"})
    BY <2>1, OneMember DEF Members
  <2>4. Warned(f, g)
    BY <2>3, ChangesWarned
  <2>5. Warned(e, g)
    BY <2>1, <2>4 DEF Warned
  <2> QED
    BY <2>2, <2>5 DEF f
<1>7. \A name, amount : Warned(e, modify_named_value(parameter_slot(e, name), "parameter_overrides",
                                                name, amount))
  <2> SUFFICES ASSUME NEW name, NEW amount
               PROVE  Warned(e, modify_named_value(parameter_slot(e, name), "parameter_overrides",
                                                   name, amount))
    OBVIOUS
  <2> DEFINE f == parameter_slot(e, name)
  <2>1. Shaped(f) /\ Warned(e, f)
    BY <1>5
  <2> HIDE DEF f
  <2>2. Warned(f, modify_named_value(f, "parameter_overrides", name, amount))
    BY <2>1, ModifyNamedValueClean
  <2> QED
    BY <2>1, <2>2 DEF Warned, f
<1>8. \A name, v : Warned(e, [e EXCEPT !.variables[name] = v])
  BY DEF Shaped, Warned, Members
<1>9. \A v : Warned(e, [e EXCEPT !.signal_states = v])
  BY DEF Shaped, Warned, Members
<1>10. CASE a.kind = "phase"
  <2>1. Warned(e, RestartPhase(e, a.name, a.value))
    BY RestartPhaseChanges, ChangesWarned
  <2> QED
    BY <1>10, <2>1 DEF apply
<1>11. CASE a.kind = "environment"
  <2>1. Warned(e, MergeEnvironment(e, a))
    BY MergeEnvironmentChanges, ChangesWarned
  <2> QED
    BY <1>11, <2>1 DEF apply
<1>12. CASE a.kind \in {"add", "delete"}
  BY <1>12, <1>2, <1>3 DEF apply
<1>13. CASE a.kind \in {"setVariable", "modifyVariable", "setParameter", "modifyParameter"}
  BY <1>13, <1>4, <1>6, <1>7, <1>8 DEF apply
<1>14. CASE a.kind = "signal"
  BY <1>14, <1>9 DEF apply
<1>15. CASE a.kind = "custom"
  BY <1>15, <1>3 DEF apply
<1>16. CASE a.kind \notin {"phase", "environment", "add", "delete", "setVariable",
                          "modifyVariable", "setParameter", "modifyParameter", "signal", "custom"}
  BY <1>16, <1>1 DEF apply
<1> QED
  BY <1>10, <1>11, <1>12, <1>13, <1>14, <1>15, <1>16

---------------------------------------------------------------------------
(* A run, from its first evaluation.                                        *)

\* From e an operation within a call made f.
Carried(e, f) ==
  /\ Shaped(f) /\ f.initialized = e.initialized /\ f.scenario = e.scenario /\ f.now = e.now
  /\ Anchored(e) => Anchored(f)
  /\ Cyclic(e) => Cyclic(f)
  /\ Warned(e, f)

LEMMA CarriedOn ==
  ASSUME NEW e, NEW f, NEW g, Carried(e, f), Carried(f, g)
  PROVE  Carried(e, g)
BY DEF Carried, Warned

\* Controllers that are left alone stay in phase.
LEMMA SameCycles ==
  ASSUME NEW e, NEW f, f.now = e.now, f.signal_controllers = e.signal_controllers,
         f.controller_phases = e.controller_phases
  PROVE  (Controlled(e) => Controlled(f)) /\ (Cyclic(e) => Cyclic(f))
<1>1. \A name : Clock(f, name) = Clock(e, name) /\ (Shown(e, name) <=> Shown(f, name))
  BY DEF Clock, Shown
<1>2. Controlled(e) => Controlled(f)
  BY <1>1 DEF Controlled
<1> QED
  BY <1>1, <1>2 DEF Cyclic

LEMMA EntitiesCarried ==
  ASSUME NEW e, NEW f, Changes(e, f, {"entities"})
  PROVE  Carried(e, f) /\ (Controlled(e) => Controlled(f))
<1>1. /\ Shaped(f) /\ f.initialized = e.initialized /\ f.scenario = e.scenario /\ f.now = e.now
      /\ f.signal_controllers = e.signal_controllers
      /\ f.controller_phases = e.controller_phases /\ f.date = e.date
  BY DEF Changes, Members
<1>2. Warned(e, f)
  BY ChangesWarned
<1> QED
  BY <1>1, <1>2, SameCycles DEF Carried, Anchored, Dated

LEMMA ApplyCarried ==
  ASSUME NEW e, Shaped(e), e.now \in Int, NEW a
  PROVE  Carried(e, apply(e, a))
<1> DEFINE f == apply(e, a)
<1>1. Shaped(f) /\ f.initialized = e.initialized /\ f.scenario = e.scenario /\ f.now = e.now
  BY ApplyWrites DEF Changes, Members, Written
<1>2. (Anchored(e) => Anchored(f)) /\ Warned(e, f)
  BY ApplyAnchored, ApplyClean
<1>3. Cyclic(e) => Cyclic(f)
  <2>1. CASE f = RestartPhase(e, a.name, a.value)
    BY <2>1, RestartCycles
  <2>2. CASE f = MergeEnvironment(e, a)
    <3>1. f.signal_controllers = e.signal_controllers
          /\ f.controller_phases = e.controller_phases
      BY <2>2, MergeEnvironmentChanges DEF Changes, Members
    <3> HIDE DEF f
    <3> QED
      BY <1>1, <3>1, SameCycles
  <2>3. CASE Changes(e, f, Recorded)
    <3>1. f.signal_controllers = e.signal_controllers
          /\ f.controller_phases = e.controller_phases
      BY <2>3 DEF Changes, Members, Recorded
    <3> HIDE DEF f
    <3> QED
      BY <1>1, <3>1, SameCycles
  <2> QED
    BY <2>1, <2>2, <2>3, ApplyChanges
<1> QED
  BY <1>1, <1>2, <1>3 DEF Carried

LEMMA InitActionCarried ==
  ASSUME NEW e, Shaped(e), e.now \in Int, NEW a
  PROVE  Carried(e, InitAction(e, a))
<1> DEFINE f == apply(e, a)
<1>1. Carried(e, f)
  BY ApplyCarried
<1> HIDE DEF f
<1>2. Shaped(f)
  BY <1>1 DEF Carried
<1>3. Changes(f, finalize(f, a.who), {"entities"})
  BY <1>2 DEF Shaped, Changes, finalize, Members
<1>4. Carried(e, finalize(f, a.who))
  BY <1>1, <1>3, EntitiesCarried, CarriedOn
<1> QED
  BY <1>1, <1>4 DEF InitAction, f

\* One evaluation of the storyboard.
LEMMA EvaluationCarried ==
  ASSUME NEW e, Shaped(e), e.now \in Int, NEW f \in Evaluations(e)
  PROVE  Carried(e, f)
<1> DEFINE r == Repoll(e)
<1>1. Carried(e, r)
  BY RepollChanges, EntitiesCarried
<1> HIDE DEF r
<1>2. Shaped(r) /\ r.now \in Int
  BY <1>1 DEF Carried
<1>3. \A a : Carried(r, apply(r, a))
  BY <1>2, ApplyCarried
<1>4. f = r \/ \E a : f = apply(r, a)
  BY DEF Evaluations, r
<1> QED
  BY <1>1, <1>3, <1>4, CarriedOn

LEMMA SeededMembers ==
  ASSUME NEW e, Shaped(e), NEW scn
  PROVE  /\ Seeded(e, scn).initialized = TRUE
         /\ Seeded(e, scn).scenario = scn /\ Seeded(e, scn).now = 0
         /\ Seeded(e, scn).diagnostics = scn.defects
         /\ Seeded(e, scn).signal_controllers = SignalClocks(scn.controllers)
         /\ Seeded(e, scn).controller_phases = <<>>
<1> DEFINE f == Seeded(e, scn)
<1>1. \A x \in Members : x \in DOMAIN e
  BY ShapeFacts
<1>2. f.initialized = TRUE /\ f.scenario = scn /\ f.now = 0
  BY <1>1 DEF Seeded, Members
<1>3. f.diagnostics = scn.defects /\ f.controller_phases = <<>>
  BY <1>1 DEF Seeded, Members
<1>4. f.signal_controllers = SignalClocks(scn.controllers)
  BY <1>1 DEF Seeded, Members
<1> HIDE DEF f
<1> QED
  BY <1>2, <1>3, <1>4 DEF f

LEMMA SeededShaped ==
  ASSUME NEW e, Shaped(e), NEW scn
  PROVE  Shaped(Seeded(e, scn))
<1> DEFINE f == Seeded(e, scn)
<1>1. \A x \in Members : x \in DOMAIN e
  BY ShapeFacts
<1>2. DOMAIN f = Members
  BY ShapeFacts DEF Seeded
<1>3. f = [y \in Members |-> f[y]]
  BY <1>1, <1>2 DEF Seeded
<1> QED
  BY <1>3 DEF Shaped

LEMMA SeededControlled ==
  ASSUME NEW e, Shaped(e), NEW scn, TimedControllers(scn.controllers)
  PROVE  Controlled(Seeded(e, scn))
<1> DEFINE f == Seeded(e, scn)
<1>1. f.now = 0 /\ f.signal_controllers = SignalClocks(scn.controllers)
        /\ f.controller_phases = <<>>
  <2>1. f.now = 0
    BY SeededMembers
  <2>2. f.signal_controllers = SignalClocks(scn.controllers)
    BY SeededMembers
  <2>3. f.controller_phases = <<>>
    BY SeededMembers
  <2> QED
    BY <2>1, <2>2, <2>3
<1> HIDE DEF f
<1>2. ASSUME NEW name \in DOMAIN f.signal_controllers
      PROVE  Paced(Clock(f, name)) /\ Shown(f, name)
  <2> DEFINE i == find_controller(scn.controllers, name)
  <2>1. Clock(f, name) = SignalClocks(scn.controllers)[name]
    BY <1>1 DEF Clock
  <2>2. /\ TimedPhases(Clock(f, name).phases) /\ Clock(f, name).anchor \in Int
        /\ Clock(f, name).applied = None
    BY <1>1, <1>2, <2>1, SignalClocksType
  <2>3. Clock(f, name) = [phases |-> scn.controllers[i].phases,
                          anchor |-> StartOffset(scn.controllers, i), applied |-> None]
    BY <1>1, <1>2, <2>1 DEF SignalClocks
  <2>4. Clock(f, name) = [phases |-> Clock(f, name).phases, anchor |-> Clock(f, name).anchor,
                          applied |-> Clock(f, name).applied]
    BY <2>3
  <2>5. name \notin DOMAIN f.controller_phases
    BY <1>1
  <2> QED
    BY <2>2, <2>4, <2>5 DEF Paced, Shown
<1>3. f.now \in Int
  BY <1>1
<1> QED
  BY <1>2, <1>3 DEF Controlled, f

\* The anchor of a date that was set before the run is not ahead of its start.
LEMMA BegunCarried ==
  ASSUME NEW e, Shaped(e), Anchored(e), e.now = 0, NEW scn, Len(scn.init) \in Nat
  PROVE  LET f == Begun(e, scn)
         IN  /\ Shaped(f) /\ f.initialized = TRUE /\ f.scenario = scn /\ f.now = 0
             /\ Anchored(f)
             /\ TimedControllers(scn.controllers) => Cyclic(f)
             /\ Clean(scn.defects) => Clean(f.diagnostics)
<1> DEFINE n == Len(scn.init)
           first == advance_signal_controllers(Seeded(e, scn), 0)
<1>1. PICK run :
        /\ run[0] = first
        /\ \A i \in 1 .. n : run[i] = InitAction(run[i - 1], scn.init[i])
        /\ Begun(e, scn) = run[n]
  BY BegunInSteps
<1>2. /\ Shaped(first) /\ first.initialized = TRUE /\ first.scenario = scn /\ first.now = 0
      /\ Anchored(first)
      /\ TimedControllers(scn.controllers) => Cyclic(first)
      /\ Clean(scn.defects) => Clean(first.diagnostics)
  <2> DEFINE s == Seeded(e, scn)
  <2>1. /\ Shaped(s) /\ s.initialized = TRUE /\ s.scenario = scn /\ s.now = 0
        /\ s.diagnostics = scn.defects
    <3>1. Shaped(s)
      BY SeededShaped
    <3>2. s.scenario = scn /\ s.diagnostics = scn.defects
      BY SeededMembers
    <3>3. s.now = 0
      BY DEF Shaped, Seeded, Members
    <3>4. s.initialized = TRUE
      BY SeededMembers
    <3> QED
      BY <3>1, <3>2, <3>3, <3>4
  <2>7. s.date = [e.date EXCEPT !.animated = TRUE]
    BY DEF Shaped, Seeded, Members
  <2>8. Dated(s) /\ s.date.set = e.date.set /\ s.date.sim = e.date.sim
    <3>1. "set" \in DOMAIN e.date /\ "sim" \in DOMAIN e.date
          /\ DOMAIN s.date = DOMAIN e.date
      BY <2>7 DEF Anchored, Dated
    <3> HIDE DEF s
    <3> QED
      BY <2>7, <3>1 DEF Anchored, Dated
  <2>2. TimedControllers(scn.controllers) => Controlled(s)
    BY SeededControlled
  <2> HIDE DEF s
  <2>3. Changes(s, first, {"signal_states", "controller_phases", "signal_controllers"})
    BY <2>1, ApplySignalPhase DEF advance_signal_controllers, s
  <2>4. TimedControllers(scn.controllers) => Cyclic(first)
    BY <2>1, <2>2, AdvanceCycles DEF s
  <2> HIDE DEF first
  <2>5. /\ Shaped(first) /\ first.initialized = TRUE /\ first.scenario = scn /\ first.now = 0
        /\ first.diagnostics = scn.defects /\ first.date = s.date
    BY <2>1, <2>3 DEF Changes, Members
  <2>6. Anchored(first)
    BY <2>1, <2>5, <2>8 DEF Anchored, Dated
  <2> QED
    BY <2>4, <2>5, <2>6
<1> HIDE DEF first
<1> DEFINE S == {i \in 0 .. n : Carried(first, run[i])}
<1>3. 0 \in S
  <2>1. Carried(first, first)
    BY <1>2 DEF Carried, Warned
  <2> QED
    BY <1>1, <2>1
<1>4. ASSUME NEW i \in 1 .. n, i - 1 \in S
      PROVE  i \in S
  <2>1. Carried(first, run[i - 1])
    BY <1>4
  <2>2. Shaped(run[i - 1]) /\ run[i - 1].now \in Int
    BY <1>2, <2>1 DEF Carried
  <2>3. Carried(run[i - 1], InitAction(run[i - 1], scn.init[i]))
    BY <2>2, InitActionCarried
  <2>4. Carried(first, run[i])
    BY <1>1, <2>1, <2>3, CarriedOn
  <2> QED
    BY <2>4
<1>5. n \in S
  <2> HIDE DEF S
  <2>1. n \in 0 .. n
    OBVIOUS
  <2> QED
    BY <1>3, <1>4, <2>1, IntervalInduction
<1>6. Carried(first, Begun(e, scn))
  BY <1>1, <1>5
<1> QED
  BY <1>2, <1>6 DEF Carried, Warned

\* What init leaves when it has accepted a scenario.
LEMMA RunBegins ==
  ASSUME NEW e, Shaped(e), Anchored(e), e.now = 0, NEW scn, Len(scn.init) \in Nat,
         NEW f \in Evaluations(Run(e, scn))
  PROVE  /\ Shaped(f) /\ f.initialized = TRUE /\ f.scenario = scn /\ f.now = 0
         /\ Anchored(f)
         /\ TimedControllers(scn.controllers) => Cyclic(f)
         /\ Clean(scn.defects) => Clean(f.diagnostics)
<1> DEFINE b == Begun(e, scn)
           r == Run(e, scn)
<1>1. /\ Shaped(b) /\ b.initialized = TRUE /\ b.scenario = scn /\ b.now = 0 /\ Anchored(b)
      /\ TimedControllers(scn.controllers) => Cyclic(b)
      /\ Clean(scn.defects) => Clean(b.diagnostics)
  BY BegunCarried
<1>2. r = [b EXCEPT !.entities = [id \in DOMAIN b.entities |-> Baseline(b.entities[id])]]
  BY DEF Run
<1> HIDE DEF b, r
<1>3. Changes(b, r, {"entities"})
  BY <1>1, <1>2 DEF Shaped, Changes, Members
<1>4. Carried(b, r) /\ Shaped(r) /\ r.now \in Int
  BY <1>1, <1>3, EntitiesCarried DEF Carried
<1>5. Carried(r, f)
  BY <1>4, EvaluationCarried DEF r
<1>6. Carried(b, f)
  BY <1>4, <1>5, CarriedOn
<1> QED
  BY <1>1, <1>6 DEF Carried, Warned

---------------------------------------------------------------------------
(* Between the calls of the host.                                           *)

\* What an engine with no run still holds: what the host has staged, and what
\* close says it keeps.
Staged == {"user_defined_values", "lane_width", "date", "last_dt", "diagnostics"}
Forgotten(e) == \A y \in Members \ Staged : e[y] = Fresh[y]
Standing(e) ==
  /\ Shaped(e) /\ e.initialized \in BOOLEAN /\ e.now \in Int
  /\ Anchored(e)
  /\ ~ e.initialized => Forgotten(e)

\* From e a call that neither starts a run nor ends one made f.
Stood(e, f) ==
  /\ Standing(f)
  /\ f.initialized = e.initialized /\ f.scenario = e.scenario /\ f.now = e.now
  /\ Cyclic(e) => Cyclic(f)

LEMMA FreshStands == Standing(Fresh) /\ Cyclic(Fresh) /\ Forgotten(Fresh)
<1>1. Shaped(Fresh) /\ Anchored(Fresh)
  BY DEF Shaped, Members, Fresh, Anchored, Dated, NoDate
<1>2. Fresh.initialized = FALSE /\ Fresh.now = 0 /\ Fresh.signal_controllers = <<>>
  BY DEF Fresh
<1>3. Forgotten(Fresh)
  BY DEF Forgotten
<1>4. Cyclic(Fresh)
  BY <1>2 DEF Cyclic, Controlled
<1>5. Fresh.initialized \in BOOLEAN
  BY <1>2, Zenon
<1>6. Fresh.now \in Int
  BY <1>2
<1> QED
  BY <1>1, <1>3, <1>4, <1>5, <1>6 DEF Standing

LEMMA SameStands ==
  ASSUME NEW e, Standing(e)
  PROVE  Stood(e, e)
BY DEF Stood

LEMMA StagedStands ==
  ASSUME NEW e, Standing(e), NEW f,
         Changes(e, f, {"user_defined_values", "lane_width", "diagnostics"})
  PROVE  Stood(e, f)
<1>1. /\ Shaped(f) /\ f.initialized = e.initialized /\ f.scenario = e.scenario /\ f.now = e.now
      /\ f.date = e.date /\ f.signal_controllers = e.signal_controllers
      /\ f.controller_phases = e.controller_phases
  BY DEF Changes, Members
<1>2. Forgotten(e) => Forgotten(f)
  BY DEF Forgotten, Changes, Staged
<1> QED
  BY <1>1, <1>2, SameCycles DEF Standing, Stood, Anchored, Dated

LEMMA DateStands ==
  ASSUME NEW e, Standing(e), NEW f, Changes(e, f, {"date"}), Dated(f), f.date.sim = e.now
  PROVE  Stood(e, f)
<1>1. /\ Shaped(f) /\ f.initialized = e.initialized /\ f.scenario = e.scenario /\ f.now = e.now
      /\ f.signal_controllers = e.signal_controllers
      /\ f.controller_phases = e.controller_phases
  BY DEF Changes, Members
<1>2. Forgotten(e) => Forgotten(f)
  BY DEF Forgotten, Changes, Staged
<1>3. Anchored(f)
  BY <1>1 DEF Anchored, Standing
<1> QED
  BY <1>1, <1>2, <1>3, SameCycles DEF Standing, Stood

LEMMA RunningStands ==
  ASSUME NEW e, Standing(e), e.initialized, NEW f,
         Changes(e, f, {"entities", "variables", "signal_states"})
  PROVE  Stood(e, f)
<1>1. /\ Shaped(f) /\ f.initialized = e.initialized /\ f.scenario = e.scenario /\ f.now = e.now
      /\ f.date = e.date /\ f.signal_controllers = e.signal_controllers
      /\ f.controller_phases = e.controller_phases
  BY DEF Changes, Members
<1> QED
  BY <1>1, SameCycles DEF Standing, Stood, Anchored, Dated

\* The calls that set something leave the run alone.
LEMMA SettersStand ==
  ASSUME Standing(engine)
  PROVE  /\ \A id, s : report_state(id, s) => Stood(engine, engine')
         /\ \A name, v : set_variable(name, v) => Stood(engine, engine')
         /\ \A name, v : set_user_defined_value(name, v) => Stood(engine, engine')
         /\ \A width : set_default_lane_width(width) => Stood(engine, engine')
         /\ \A epoch : set_date_time(epoch) => Stood(engine, engine')
         /\ \A name, v : set_traffic_signal_state(name, v) => Stood(engine, engine')
         /\ clear_diagnostics => Stood(engine, engine')
         /\ \A attached : set_gateway(attached) => Stood(engine, engine')
<1>0. Shaped(engine) /\ Stood(engine, engine)
  BY SameStands DEF Standing
<1>1. ASSUME NEW id, NEW s, report_state(id, s)
      PROVE  Stood(engine, engine')
  <2>1. CASE engine' = engine
    BY <1>0, <2>1
  <2>2. CASE engine.initialized
             /\ engine' = [engine EXCEPT !.entities[id].x = s.x, !.entities[id].speed = s.speed]
    <3>1. Changes(engine, engine', {"entities"})
      BY <1>0, <2>2 DEF Shaped, Changes, Members
    <3> QED
      BY <2>2, <3>1, ChangesMore, RunningStands
  <2> QED
    BY <1>1, <2>1, <2>2 DEF report_state, Call
<1>2. ASSUME NEW name, NEW v, set_variable(name, v)
      PROVE  Stood(engine, engine')
  <2>1. CASE engine' = engine
    BY <1>0, <2>1
  <2>2. CASE engine.initialized /\ engine' = [engine EXCEPT !.variables[name] = v]
    <3>1. Changes(engine, engine', {"variables"})
      BY <1>0, <2>2 DEF Shaped, Changes, Members
    <3> QED
      BY <2>2, <3>1, ChangesMore, RunningStands
  <2> QED
    BY <1>2, <2>1, <2>2 DEF set_variable, Call
<1>3. ASSUME NEW name, NEW v, set_user_defined_value(name, v)
      PROVE  Stood(engine, engine')
  <2>1. Changes(engine, engine', {"user_defined_values"})
    BY <1>0, <1>3 DEF set_user_defined_value, Call, Shaped, Changes, Members
  <2> QED
    BY <2>1, ChangesMore, StagedStands
<1>4. ASSUME NEW width, set_default_lane_width(width)
      PROVE  Stood(engine, engine')
  <2>1. CASE engine' = engine
    BY <1>0, <2>1
  <2>2. CASE engine' = [engine EXCEPT !.lane_width = width]
    <3>1. Changes(engine, engine', {"lane_width"})
      BY <1>0, <2>2 DEF Shaped, Changes, Members
    <3> QED
      BY <3>1, ChangesMore, StagedStands
  <2> QED
    BY <1>4, <2>1, <2>2 DEF set_default_lane_width, Call
<1>5. ASSUME NEW epoch, set_date_time(epoch)
      PROVE  Stood(engine, engine')
  <2> DEFINE date == [set |-> TRUE, epoch |-> epoch, sim |-> engine.now, animated |-> TRUE]
  <2>1. engine' = [engine EXCEPT !.date = date]
    BY <1>5 DEF set_date_time, Call
  <2>2. date.sim = engine.now /\ DOMAIN date = {"set", "epoch", "sim", "animated"}
    OBVIOUS
  <2> HIDE DEF date
  <2>3. Changes(engine, engine', {"date"}) /\ engine'.date = date
    BY <1>0, <2>1 DEF Shaped, Changes, Members
  <2>4. Dated(engine') /\ engine'.date.sim = engine.now
    BY <2>2, <2>3 DEF Dated
  <2> QED
    BY <2>3, <2>4, DateStands
<1>6. ASSUME NEW name, NEW v, set_traffic_signal_state(name, v)
      PROVE  Stood(engine, engine')
  <2>1. CASE engine' = engine
    BY <1>0, <2>1
  <2>2. CASE engine.initialized
             /\ engine' = [engine EXCEPT !.signal_states = With(@, name, v)]
    <3>1. Changes(engine, engine', {"signal_states"})
      BY <1>0, <2>2 DEF Shaped, Changes, Members
    <3> QED
      BY <2>2, <3>1, ChangesMore, RunningStands
  <2> QED
    BY <1>6, <2>1, <2>2 DEF set_traffic_signal_state, Call
<1>7. ASSUME clear_diagnostics
      PROVE  Stood(engine, engine')
  <2>1. Changes(engine, engine', {"diagnostics"})
    BY <1>0, <1>7 DEF clear_diagnostics, Call, Shaped, Changes, Members
  <2> QED
    BY <2>1, ChangesMore, StagedStands
<1>8. ASSUME NEW attached, set_gateway(attached)
      PROVE  Stood(engine, engine')
  BY <1>0, <1>8 DEF set_gateway
<1> QED
  BY <1>1, <1>2, <1>3, <1>4, <1>5, <1>6, <1>7, <1>8

LEMMA CloseStands ==
  ASSUME Standing(engine), close
  PROVE  /\ Standing(engine') /\ (Cyclic(engine) => Cyclic(engine'))
         /\ \/ ~ engine.initialized /\ engine' = engine
            \/ engine.initialized /\ ~ engine'.initialized /\ engine'.now = 0
         /\ engine'.diagnostics = engine.diagnostics
<1>1. CASE ~ engine.initialized
  BY <1>1 DEF close
<1>2. CASE engine.initialized
  <2>1. /\ engine'.initialized = FALSE /\ engine'.now = 0 /\ engine'.signal_controllers = <<>>
        /\ engine'.diagnostics = engine.diagnostics
    BY <1>2 DEF close, Fresh
  <2>2. Shaped(engine') /\ Forgotten(engine')
    BY <1>2 DEF close, Fresh, Shaped, Forgotten, Members, Staged
  <2>3. Dated(engine') /\ ~ engine'.date.set
    <3>1. engine'.date = [NoDate EXCEPT !.epoch = engine.date.epoch, !.sim = engine.date.sim]
      BY <1>2 DEF close, Fresh
    <3> QED
      BY <3>1 DEF NoDate, Dated
  <2>4. Cyclic(engine')
    BY <2>1 DEF Cyclic, Controlled
  <2>5. engine'.initialized \in BOOLEAN /\ ~ engine'.initialized
    BY <2>1, Zenon
  <2>6. engine'.now \in Int
    BY <2>1
  <2> QED
    BY <1>2, <2>1, <2>2, <2>3, <2>4, <2>5, <2>6 DEF Standing, Anchored
<1> QED
  BY <1>1, <1>2

\* What init may leave: the engine as it was but for its diagnostics, or a run
\* of the scenario that starts at zero.
LEMMA OutcomeStands ==
  ASSUME NEW e, Standing(e), NEW scn, Len(scn.init) \in Nat, NEW o \in init_outcomes(e, scn)
  PROVE  /\ Standing(o.engine)
         /\ Cyclic(e) /\ TimedControllers(scn.controllers) => Cyclic(o.engine)
         /\ \/ /\ e.initialized \/ has_errors(scn.defects)
               /\ Changes(e, o.engine, {"diagnostics"})
            \/ /\ ~ e.initialized /\ ~ has_errors(scn.defects)
               /\ o.engine.initialized /\ o.engine.scenario = scn /\ o.engine.now = 0
<1>0. Shaped(e) /\ Stood(e, e)
  BY SameStands DEF Standing
<1>1. CASE e.initialized
  <2>1. o.engine = e
    BY <1>1 DEF init_outcomes
  <2>2. Changes(e, e, {"diagnostics"})
    BY <1>0, ChangesNothing
  <2> QED
    BY <1>0, <1>1, <2>1, <2>2 DEF Stood
<1>2. CASE ~ e.initialized /\ has_errors(scn.defects)
  <2>1. o.engine = [e EXCEPT !.diagnostics = scn.defects]
    BY <1>2 DEF init_outcomes
  <2>2. Changes(e, o.engine, {"diagnostics"})
    BY <1>0, <2>1 DEF Shaped, Changes, Members
  <2>3. Stood(e, o.engine)
    BY <2>2, ChangesMore, StagedStands
  <2> QED
    BY <1>2, <2>2, <2>3 DEF Stood
<1>3. CASE ~ e.initialized /\ ~ has_errors(scn.defects)
  <2>1. o.engine \in Evaluations(Run(e, scn))
    BY <1>3 DEF init_outcomes
  <2>2. e.now = 0 /\ Anchored(e)
    BY <1>3 DEF Standing, Forgotten, Members, Staged, Fresh
  <2>3. /\ Shaped(o.engine) /\ o.engine.initialized = TRUE /\ o.engine.scenario = scn
        /\ o.engine.now = 0 /\ Anchored(o.engine)
        /\ TimedControllers(scn.controllers) => Cyclic(o.engine)
    <3> DEFINE f == o.engine
    <3>1. f \in Evaluations(Run(e, scn))
      BY <2>1
    <3> HIDE DEF f
    <3>2. /\ Shaped(f) /\ f.initialized = TRUE /\ f.scenario = scn /\ f.now = 0 /\ Anchored(f)
          /\ TimedControllers(scn.controllers) => Cyclic(f)
      BY <1>0, <2>2, <3>1, RunBegins
    <3> QED
      BY <3>2 DEF f
  <2>4. o.engine.initialized \in BOOLEAN /\ o.engine.initialized
    BY <2>3, Zenon
  <2>5. o.engine.now \in Int
    BY <2>3
  <2> QED
    BY <1>3, <2>3, <2>4, <2>5 DEF Standing
<1> QED
  BY <1>1, <1>2, <1>3

\* Polling the host writes entities only.
LEMMA PolledChanges ==
  ASSUME NEW e, Shaped(e), NEW f \in Polled(e)
  PROVE  Changes(e, f, {"entities"})
<1>1. CASE ~ gateway
  BY <1>1, ChangesNothing DEF Polled
<1>2. CASE gateway
  <2>1. \E new : f = [e EXCEPT !.entities = new]
    BY <1>2 DEF Polled
  <2> QED
    BY <2>1, OneMember DEF Members
<1> QED
  BY <1>1, <1>2

LEMMA StepStands ==
  ASSUME Standing(engine), NEW dt \in Int, step(dt)
  PROVE  /\ Standing(engine') /\ (Cyclic(engine) => Cyclic(engine'))
         /\ \/ engine' = engine
            \/ /\ dt >= 0 /\ engine.initialized /\ engine'.initialized
               /\ engine'.scenario = engine.scenario /\ engine'.now = engine.now + dt
<1>0. Shaped(engine) /\ Stood(engine, engine)
  BY SameStands DEF Standing
<1>1. CASE engine' = engine
  BY <1>0, <1>1 DEF Stood
<1>2. CASE engine' # engine
  <2> DEFINE clocked == [engine EXCEPT !.last_dt = dt, !.now = @ + dt]
             observed(p) == IF dt > 0 THEN refresh_observations(p, dt) ELSE p
  <2>1. dt >= 0 /\ engine.initialized
    BY <1>2 DEF step
  <2>2. PICK polled \in Polled(clocked) :
          \E evaluated \in Evaluations(advance_signal_controllers(observed(polled),
                                                                   observed(polled).now)) :
            engine' = Integrated(evaluated, dt)
    BY <1>2 DEF step
  <2>3. /\ Shaped(clocked) /\ clocked.initialized = engine.initialized
        /\ clocked.scenario = engine.scenario /\ clocked.now = engine.now + dt
        /\ clocked.date = engine.date
        /\ clocked.signal_controllers = engine.signal_controllers
        /\ clocked.controller_phases = engine.controller_phases
    BY <1>0 DEF Shaped, Members
  <2> HIDE DEF clocked
  <2>4. engine.now \in Int /\ engine.now + dt \in Int /\ engine.now <= engine.now + dt
    BY <2>1 DEF Standing
  <2>5. Anchored(clocked)
    BY <2>3, <2>4 DEF Standing, Anchored, Dated
  <2>6. Controlled(engine) => Controlled(clocked)
    <3>1. SUFFICES ASSUME Controlled(engine), NEW name \in DOMAIN engine.signal_controllers
                   PROVE  Paced(Clock(clocked, name)) /\ Shown(clocked, name)
      BY <2>3, <2>4 DEF Controlled
    <3>2. Clock(clocked, name) = Clock(engine, name)
      BY <2>3 DEF Clock
    <3>3. Paced(Clock(engine, name)) /\ Shown(engine, name)
      BY <3>1 DEF Controlled
    <3>4. Clock(engine, name).anchor \in Int
      BY <3>3 DEF Paced
    <3> QED
      BY <2>3, <2>4, <3>2, <3>3, <3>4 DEF Shown
  <2> DEFINE seen == observed(polled)
  <2>7. Changes(clocked, polled, {"entities"})
    BY <2>3, PolledChanges
  <2>8. Changes(polled, seen, {"entities"})
    <3>1. Shaped(polled)
      BY <2>7 DEF Changes
    <3>2. Changes(polled, refresh_observations(polled, dt), {"entities"})
      BY <3>1 DEF refresh_observations, Shaped, Changes, Members
    <3> QED
      BY <3>1, <3>2, ChangesNothing
  <2> HIDE DEF observed
  <2>9. Changes(clocked, seen, {"entities"})
    BY <2>7, <2>8, ChangesOnAndOn
  <2>10. /\ Shaped(seen) /\ seen.initialized = engine.initialized
         /\ seen.scenario = engine.scenario /\ seen.now = engine.now + dt
         /\ Anchored(seen) /\ (Controlled(engine) => Controlled(seen))
    <3>1. Carried(clocked, seen) /\ (Controlled(clocked) => Controlled(seen))
      BY <2>9, EntitiesCarried
    <3> QED
      BY <2>3, <2>5, <2>6, <3>1 DEF Carried
  <2> DEFINE ticked == advance_signal_controllers(seen, seen.now)
  <2>11. PICK evaluated \in Evaluations(ticked) : engine' = Integrated(evaluated, dt)
    BY <2>2
  <2>12. Changes(seen, ticked, {"signal_states", "controller_phases", "signal_controllers"})
    BY <2>10, ApplySignalPhase DEF advance_signal_controllers
  <2>13. Controlled(engine) => Cyclic(ticked)
    BY <2>10, AdvanceCycles
  <2> HIDE DEF seen, ticked
  <2>14. /\ Shaped(ticked) /\ ticked.initialized = engine.initialized
         /\ ticked.scenario = engine.scenario /\ ticked.now = engine.now + dt
         /\ ticked.now \in Int /\ Anchored(ticked)
    BY <2>4, <2>10, <2>12 DEF Changes, Members, Anchored, Dated
  <2>15. Carried(ticked, evaluated)
    BY <2>14, EvaluationCarried
  <2>16. Changes(evaluated, engine', {"entities"})
    <3>1. Shaped(evaluated)
      BY <2>15 DEF Carried
    <3> QED
      BY <2>11, <3>1 DEF Integrated, Shaped, Changes, Members
  <2>17. Carried(evaluated, engine')
    BY <2>16, EntitiesCarried
  <2>18. Carried(ticked, engine')
    BY <2>15, <2>17, CarriedOn
  <2>19. /\ Shaped(engine') /\ engine'.initialized /\ engine'.scenario = engine.scenario
         /\ engine'.now = engine.now + dt /\ Anchored(engine')
         /\ Controlled(engine) => Cyclic(engine')
    BY <2>1, <2>13, <2>14, <2>18 DEF Carried
  <2>20. engine'.initialized \in BOOLEAN
    BY <2>14, <2>18 DEF Carried, Standing
  <2> QED
    BY <2>1, <2>4, <2>19, <2>20 DEF Standing, Cyclic
<1> QED
  BY <1>1, <1>2

---------------------------------------------------------------------------
(* The theorems.                                                            *)

EngineInv == Standing(engine) /\ Cyclic(engine)

LEMMA ScenariosTimed ==
  ASSUME NEW scn \in Scenarios
  PROVE  Len(scn.init) \in Nat /\ TimedControllers(scn.controllers)
<1> DEFINE controllers == scn.controllers
<1>1. Len(scn.init) \in Nat
  BY ScenariosAssumption
<1>2. controllers \in Seq(Range(controllers))
  BY ScenariosAssumption
<1>3. ASSUME NEW i \in 1 .. Len(controllers)
      PROVE  controllers[i].delay \in Optional(Nat) /\ TimedPhases(controllers[i].phases)
  <2> DEFINE phases == controllers[i].phases
  <2>1. controllers[i] \in Range(controllers)
    BY <1>2, <1>3 DEF Range
  <2>2. /\ controllers[i].delay \in Optional(Nat) /\ phases \in Seq(Range(phases))
        /\ \A p \in Range(phases) : p.duration \in Nat
    BY <2>1, ScenariosAssumption
  <2> HIDE DEF phases
  <2>3. \A k \in 1 .. Len(phases) : phases[k] \in Range(phases)
    BY <2>2 DEF Range
  <2>4. TimedPhases(phases)
    BY <2>2, <2>3 DEF TimedPhases
  <2> QED
    BY <2>2, <2>4 DEF phases
<1>4. Len(controllers) \in Nat /\ DOMAIN controllers = 1 .. Len(controllers)
  BY <1>2
<1> QED
  BY <1>1, <1>3, <1>4 DEF TimedControllers

LEMMA EngineBegins == Init => EngineInv
BY FreshStands DEF Init, EngineInv

LEMMA EngineGoesOn == EngineInv /\ [Next]_vars => EngineInv'
<1> SUFFICES ASSUME EngineInv, [Next]_vars
             PROVE  EngineInv'
  OBVIOUS
<1>0. Standing(engine) /\ Cyclic(engine)
  BY DEF EngineInv
<1>1. ASSUME NEW scn \in Scenarios, init(scn)
      PROVE  EngineInv'
  <2>1. PICK o \in init_outcomes(engine, scn) : engine' = o.engine
    BY <1>1 DEF init
  <2>2. Standing(o.engine) /\ Cyclic(o.engine)
    BY <1>0, ScenariosTimed, OutcomeStands
  <2> QED
    BY <2>1, <2>2 DEF EngineInv
<1>2. ASSUME NEW dt \in Steps, step(dt)
      PROVE  EngineInv'
  <2>1. dt \in Int
    BY StepsAssumption
  <2> QED
    BY <1>0, <1>2, <2>1, StepStands DEF EngineInv
<1>3. CASE close
  BY <1>0, <1>3, CloseStands DEF EngineInv
<1>4. CASE HostCalls
  <2>1. Stood(engine, engine')
    BY <1>0, <1>4, SettersStand DEF HostCalls
  <2> QED
    BY <1>0, <2>1 DEF Stood, EngineInv
<1>5. CASE UNCHANGED vars
  BY <1>0, <1>5 DEF vars, EngineInv
<1> QED
  BY <1>1, <1>2, <1>3, <1>4, <1>5 DEF Next

\* Every reachable state of an engine: no run leaves anything behind, no anchor
\* of the time of day is ahead of the clock, and each controller is in phase.
THEOREM EngineStands == Spec => []EngineInv
<1> QED
  BY EngineBegins, EngineGoesOn, PTL DEF Spec

\* Whatever has run, an engine with no run holds nothing but what the host has
\* staged.
THEOREM NoRunLeavesATrace == Spec => []ClosedForgets
<1>1. EngineInv => ClosedForgets
  <2> SUFFICES ASSUME EngineInv, ~ engine.initialized
               PROVE  /\ [engine EXCEPT !.user_defined_values = <<>>,
                                        !.lane_width = DefaultLaneWidth, !.date = NoDate,
                                        !.last_dt = 0, !.diagnostics = <<>>] = Fresh
                      /\ engine.date.set => engine.date.sim <= engine.now
    BY DEF ClosedForgets
  <2>1. Shaped(engine) /\ Forgotten(engine) /\ Anchored(engine)
    BY DEF EngineInv, Standing
  <2> DEFINE bare == [engine EXCEPT !.user_defined_values = <<>>,
                                    !.lane_width = DefaultLaneWidth, !.date = NoDate,
                                    !.last_dt = 0, !.diagnostics = <<>>]
  <2>2. bare = [y \in Members |-> bare[y]] /\ Fresh = [y \in Members |-> Fresh[y]]
    BY <2>1 DEF Shaped, Fresh, Members
  <2>3. ASSUME NEW y \in Members
        PROVE  bare[y] = Fresh[y]
    <3>1. CASE y \in Staged
      <4>1. \A x \in Members : x \in DOMAIN engine
        BY <2>1 DEF Shaped
      <4>2. /\ bare.user_defined_values = <<>> /\ bare.lane_width = DefaultLaneWidth
            /\ bare.date = NoDate /\ bare.last_dt = 0 /\ bare.diagnostics = <<>>
        BY <4>1 DEF Members
      <4>3. /\ Fresh.user_defined_values = <<>> /\ Fresh.lane_width = DefaultLaneWidth
            /\ Fresh.date = NoDate /\ Fresh.last_dt = 0 /\ Fresh.diagnostics = <<>>
        BY DEF Fresh
      <4> HIDE DEF bare
      <4> QED
        BY <3>1, <4>2, <4>3 DEF Staged
    <3>2. CASE y \notin Staged
      <4>1. bare[y] = engine[y]
        BY <2>1, <3>2 DEF Shaped, Members, Staged
      <4> QED
        BY <2>1, <3>2, <4>1 DEF Forgotten
    <3> QED
      BY <3>1, <3>2
  <2>4. bare = Fresh
    <3> HIDE DEF bare
    <3> QED
      BY <2>2, <2>3
  <2> QED
    BY <2>1, <2>4 DEF Anchored
<1> QED
  BY <1>1, EngineStands, PTL

\* Every controller shows the phase that the clock alone tells, whatever delays,
\* references, restarts and steps went before.
THEOREM ControllersFollowTheClock == Spec => []SignalsFollowCycle
<1>1. EngineInv => SignalsFollowCycle
  <2> SUFFICES ASSUME EngineInv, NEW name \in DOMAIN engine.signal_controllers,
                      Clock(engine, name).phases # <<>>, Total(Clock(engine, name).phases) > 0
               PROVE  LET clock == Clock(engine, name)
                          ends == Cumulative(clock.phases)
                          local == (engine.now - clock.anchor) % Total(clock.phases)
                          i == clock.applied
                      IN  IF engine.now < clock.anchor
                          THEN clock.applied = None /\ name \notin DOMAIN engine.controller_phases
                          ELSE /\ i \in DOMAIN clock.phases
                               /\ \/ ends[i - 1] <= local /\ local < ends[i]
                                  \/ /\ clock.phases[i].duration = 0
                                     /\ ends[i - 1] \in {local, Total(clock.phases)}
                               /\ engine.controller_phases[name] = clock.phases[i].name
    BY Zenon DEF SignalsFollowCycle, Clock
  <2> DEFINE clock == Clock(engine, name)
  <2>1. /\ engine.now \in Int /\ Paced(clock) /\ Shown(engine, name)
        /\ Started(clock, engine.now) => InPhase(clock, engine.now)
    BY DEF EngineInv, Cyclic, Controlled
  <2>2. clock.anchor \in Int /\ DOMAIN clock.phases \subseteq Nat
    BY <2>1 DEF Paced, TimedPhases
  <2>3. CASE engine.now < clock.anchor
    <3>1. ~ (clock.anchor <= engine.now)
      BY <2>1, <2>2, <2>3
    <3>2. clock.applied = None /\ name \notin DOMAIN engine.controller_phases
      BY <2>1, <3>1 DEF Shown
    <3> QED
      BY <2>3, <3>2
  <2>4. CASE ~ (engine.now < clock.anchor)
    <3>1. InPhase(clock, engine.now)
      BY <2>1, <2>2, <2>4 DEF Started
    <3>2. clock.applied # None
      BY <2>2, <3>1, ScenariosAssumption DEF InPhase
    <3>3. engine.controller_phases[name] = clock.phases[clock.applied].name
      BY <2>1, <3>2 DEF Shown
    <3> QED
      BY <2>4, <3>1, <3>3 DEF InPhase
  <2> QED
    BY <2>3, <2>4
<1> QED
  BY <1>1, EngineStands, PTL

---------------------------------------------------------------------------
(* The odometer.                                                            *)

\* What a scenario says of the entities the engine drives: no speed is set below
\* zero, positions are numbers, and only init actions teleport.
Onward(scn) ==
  \A a \in scn.actions \cup Range(scn.init) :
    a.kind \in {"setSpeed", "add", "teleport"} /\ scn.entities[a.who] = "engine" =>
      /\ a.kind = "setSpeed" => a.value \in Nat
      /\ a.kind \in {"add", "teleport"} => a.value \in Int
      /\ a.kind = "teleport" => a \notin scn.actions
OnwardOnly == \A scn \in Scenarios : Onward(scn)

RecordFields == {"mode", "active", "x", "speed", "keeps_gap", "assigned", "visible", "has_prev",
                 "prev", "acceleration", "traveled", "standstill", "end_of_road", "offroad"}
Filled(r) == r = [m \in RecordFields |-> r[m]]

\* Where a driven entity is: at an entrance while init places it, and from then
\* on as far from one as its odometer says, but for what it has moved since its
\* last sample.
AtEntrance(r, S) == r.x \in S /\ r.traveled = 0
Metered(r, S) ==
  /\ r.x \in Int /\ r.prev.x \in Int /\ r.has_prev = TRUE /\ r.prev.x <= r.x
  /\ \E at \in S : r.traveled = r.prev.x - at
OnCourse(r, S, run) ==
  r.speed \in Nat /\ (run => Metered(r, S)) /\ (~ run => AtEntrance(r, S))
Measured(r, S, run) ==
  /\ Filled(r)
  /\ r.mode = "engine" => (r.active => OnCourse(r, S, run)) /\ (~ r.active => r.traveled = 0)

\* The record of an entity in an engine that runs, or that init has begun.
Tracked(e, run) ==
  /\ e.last_dt \in Nat
  /\ \A id \in DOMAIN e.entities :
       LET r == e.entities[id]
       IN r.mode = e.scenario.entities[id] /\ Measured(r, Entrances(e.scenario, id), run)

LEMMA EntrancesAreNumbers ==
  ASSUME NEW scn, Onward(scn), NEW id, scn.entities[id] = "engine"
  PROVE  Entrances(scn, id) \subseteq Int
BY DEF Onward, Entrances

\* What leaves the place of an entity alone keeps it on its course.
LEMMA SameCourse ==
  ASSUME NEW r, NEW q, NEW S, NEW run, Measured(r, S, run), Filled(q),
         q.mode = r.mode, q.active = r.active, q.x = r.x, q.prev = r.prev,
         q.has_prev = r.has_prev, q.traveled = r.traveled,
         r.mode = "engine" /\ r.active => q.speed \in Nat
  PROVE  Measured(q, S, run)
BY DEF Measured, OnCourse, Metered, AtEntrance

LEMMA SpedUp ==
  ASSUME NEW v \in Nat, NEW dt \in Nat
  PROVE  Clamp(v + dt, MaxSpeed) \in Nat
BY RoadAssumption DEF Clamp

LEMMA KeepingGap ==
  ASSUME NEW e, e.last_dt \in Nat, NEW r, NEW S, NEW run, Measured(r, S, run)
  PROVE  /\ Measured(drive_distance_keeping(e, r), S, run)
         /\ drive_distance_keeping(e, r).mode = r.mode
<1> DEFINE q == drive_distance_keeping(e, r)
<1>1. DOMAIN r = RecordFields
  BY DEF Measured, Filled
<1>2. Filled(q) /\ q.mode = r.mode /\ q.active = r.active /\ q.x = r.x /\ q.prev = r.prev
      /\ q.has_prev = r.has_prev /\ q.traveled = r.traveled
      /\ q.speed = Clamp(r.speed + e.last_dt, MaxSpeed)
  BY <1>1 DEF drive_distance_keeping, Filled, RecordFields
<1>3. r.mode = "engine" /\ r.active => q.speed \in Nat
  BY <1>2, SpedUp DEF Measured, OnCourse
<1> HIDE DEF q
<1> QED
  BY <1>2, <1>3, SameCourse DEF q

\* An entity that enters starts its odometer where it enters.
LEMMA Entering ==
  ASSUME NEW r, NEW S, NEW run, Measured(r, S, run), ~ r.active, NEW x,
         r.mode = "engine" => x \in S /\ x \in Int
  PROVE  Measured(activate_entity(r, x), S, run) /\ activate_entity(r, x).mode = r.mode
<1> DEFINE q == activate_entity(r, x)
<1>1. DOMAIN r = RecordFields
  BY DEF Measured, Filled
<1>2. Filled(q) /\ q.mode = r.mode /\ q.active = TRUE /\ q.x = x /\ q.speed = 0
      /\ q.prev = [x |-> x, speed |-> 0] /\ q.has_prev = TRUE /\ q.traveled = r.traveled
  BY <1>1 DEF activate_entity, Filled, RecordFields
<1>3. q.prev.x = x
  BY <1>2
<1> HIDE DEF q
<1>4. ASSUME r.mode = "engine"
      PROVE  r.traveled = 0 /\ x - x = 0 /\ x <= x
  BY <1>4 DEF Measured
<1>5. Measured(q, S, run)
  BY <1>2, <1>3, <1>4 DEF Measured, OnCourse, Metered, AtEntrance
<1> QED
  BY <1>2, <1>5 DEF q

LEMMA Leaving ==
  ASSUME NEW r, NEW S, NEW run, Measured(r, S, run)
  PROVE  Measured(deactivate_entity(r), S, run) /\ deactivate_entity(r).mode = r.mode
<1> DEFINE q == deactivate_entity(r)
<1>1. DOMAIN r = RecordFields
  BY DEF Measured, Filled
<1>2. Filled(q) /\ q.mode = r.mode /\ q.active = FALSE /\ q.traveled = 0
  BY <1>1 DEF deactivate_entity, Filled, RecordFields
<1> HIDE DEF q
<1>3. Measured(q, S, run)
  BY <1>2 DEF Measured
<1> QED
  BY <1>2, <1>3 DEF q

---------------------------------------------------------------------------
(* One action.                                                              *)

LEMMA ClockedTracked ==
  ASSUME NEW e, NEW f, NEW run, Tracked(e, run), f.entities = e.entities,
         f.scenario = e.scenario, f.last_dt \in Nat
  PROVE  Tracked(f, run)
BY DEF Tracked

LEMMA SameTracked ==
  ASSUME NEW e, NEW f, NEW run, Tracked(e, run), f.entities = e.entities,
         f.scenario = e.scenario, f.last_dt = e.last_dt
  PROVE  Tracked(f, run)
BY DEF Tracked

LEMMA RecordTracked ==
  ASSUME NEW e, NEW run, Shaped(e), Tracked(e, run), NEW id, NEW q,
         id \in DOMAIN e.entities =>
           q.mode = e.entities[id].mode /\ Measured(q, Entrances(e.scenario, id), run)
  PROVE  Tracked(WithRecord(e, id, q), run)
<1> DEFINE f == WithRecord(e, id, q)
<1>1. f.entities = [e.entities EXCEPT ![id] = q] /\ f.scenario = e.scenario
      /\ f.last_dt = e.last_dt
  BY DEF WithRecord, Shaped, Members
<1> HIDE DEF f
<1>2. f.last_dt \in Nat /\ DOMAIN f.entities = DOMAIN e.entities
  BY <1>1 DEF Tracked
<1>3. ASSUME NEW i \in DOMAIN e.entities
      PROVE  /\ f.entities[i].mode = e.scenario.entities[i]
             /\ Measured(f.entities[i], Entrances(e.scenario, i), run)
  <2>1. CASE i = id
    BY <1>1, <2>1 DEF Tracked
  <2>2. CASE i # id
    BY <1>1, <2>2 DEF Tracked
  <2> QED
    BY <2>1, <2>2
<1>4. Tracked(f, run)
  BY <1>1, <1>2, <1>3 DEF Tracked
<1> QED
  BY <1>4 DEF f

LEMMA RecordForTracked ==
  ASSUME NEW e, NEW run, Shaped(e), Tracked(e, run), NEW a, NEW q,
         a.who \in DOMAIN e.entities /\ e.entities[a.who].active =>
           q.mode = e.entities[a.who].mode /\ Measured(q, Entrances(e.scenario, a.who), run)
  PROVE  Tracked(record_for(e, a, q), run)
<1> DEFINE f == [e EXCEPT !.diagnostics = Append(@, Warning("UnknownEntity"))]
           w == warn_once(e, <<"entities", a.who>>, "UnknownEntity")
<1>1. Changes(e, f, {"warned", "diagnostics"}) /\ Changes(e, w, {"warned", "diagnostics"})
  <2>1. Changes(e, f, {"diagnostics"})
    BY DEF Shaped, Changes, Members
  <2> QED
    BY <2>1, ChangesMore, WarnOnce
<1> HIDE DEF f, w
<1>2. Tracked(f, run) /\ Tracked(w, run)
  BY <1>1, SameTracked DEF Changes, Members
<1>3. CASE a.who \in DOMAIN e.entities /\ e.entities[a.who].active
  BY <1>3, RecordTracked DEF record_for
<1> QED
  BY <1>2, <1>3 DEF record_for, f, w

\* The kinds of actions that are not about an entity's record.
Elsewhere == {"phase", "environment", "setVariable", "modifyVariable", "setParameter",
              "modifyParameter", "signal", "custom"}

LEMMA ApplyElsewhere ==
  ASSUME NEW e, Shaped(e), NEW a, a.kind \in Elsewhere
  PROVE  apply(e, a).entities = e.entities
<1>1. CASE a.kind = "phase"
  <2>1. RestartPhase(e, a.name, a.value).entities = e.entities
    BY RestartPhaseChanges DEF Changes, Members
  <2> QED
    BY <1>1, <2>1 DEF apply
<1>2. CASE a.kind = "environment"
  <2>1. MergeEnvironment(e, a).entities = e.entities
    BY MergeEnvironmentChanges DEF Changes, Members
  <2> QED
    BY <1>2, <2>1 DEF apply
<1>3. CASE a.kind \in {"setVariable", "signal", "custom"}
  BY <1>3 DEF apply, Shaped, Members
<1>4. CASE a.kind = "modifyVariable"
  <2>1. modify_named_value(e, "variables", a.name, a.value).entities = e.entities
    BY ModifyNamedValue DEF Changes, Members
  <2> QED
    BY <1>4, <2>1 DEF apply
<1> DEFINE p == parameter_slot(e, a.name)
<1>5. Shaped(p) /\ p.entities = e.entities
  BY ParameterSlot DEF Changes, Members
<1>6. CASE a.kind = "setParameter"
  <2>1. apply(e, a) = [p EXCEPT !.parameter_overrides[a.name] = a.value]
    BY <1>6 DEF apply
  <2> HIDE DEF p
  <2>2. [p EXCEPT !.parameter_overrides[a.name] = a.value].entities = p.entities
    BY <1>5 DEF Shaped, Members
  <2> QED
    BY <1>5, <2>1, <2>2
<1>7. CASE a.kind = "modifyParameter"
  <2>1. apply(e, a) = modify_named_value(p, "parameter_overrides", a.name, a.value)
    BY <1>7 DEF apply
  <2> HIDE DEF p
  <2>2. modify_named_value(p, "parameter_overrides", a.name, a.value).entities = p.entities
    BY <1>5, ModifyNamedValue DEF Changes, Members
  <2> QED
    BY <1>5, <2>1, <2>2
<1> QED
  BY <1>1, <1>2, <1>3, <1>4, <1>6, <1>7 DEF Elsewhere

\* While init places entities any of its actions, and from then on any of the
\* storyboard's, keeps every entity on its course.
LEMMA ApplyTracked ==
  ASSUME NEW e, NEW run \in BOOLEAN, Shaped(e), Tracked(e, run), Onward(e.scenario),
         NEW a \in e.scenario.actions \cup Range(e.scenario.init),
         run => a \in e.scenario.actions
  PROVE  Tracked(apply(e, a), run)
<1> DEFINE id == a.who
           r == e.entities[id]
           S == Entrances(e.scenario, id)
           Kept(q) == Filled(q) /\ q.mode = r.mode /\ q.active = r.active /\ q.x = r.x
                      /\ q.prev = r.prev /\ q.has_prev = r.has_prev /\ q.traveled = r.traveled
<1>1. ASSUME id \in DOMAIN e.entities
      PROVE  /\ r.mode = e.scenario.entities[id] /\ Measured(r, S, run)
             /\ DOMAIN r = RecordFields
  BY <1>1 DEF Tracked, Measured, Filled
<1>2. ASSUME NEW q, id \in DOMAIN e.entities,
             Kept(q), r.mode = "engine" /\ r.active => q.speed \in Nat
      PROVE  q.mode = r.mode /\ Measured(q, S, run)
  BY <1>1, <1>2, SameCourse
<1>3. CASE a.kind = "setSpeed"
  <2> DEFINE q == [r EXCEPT !.speed = a.value]
  <2>1. ASSUME id \in DOMAIN e.entities PROVE Kept(q) /\ q.speed = a.value
    BY <1>1, <2>1 DEF Measured, Filled, RecordFields
  <2>2. id \in DOMAIN e.entities /\ r.mode = "engine" => a.value \in Nat
    BY <1>1, <1>3 DEF Onward
  <2> HIDE DEF q
  <2>3. id \in DOMAIN e.entities => q.mode = r.mode /\ Measured(q, S, run)
    BY <1>2, <2>1, <2>2
  <2>4. apply(e, a) = record_for(e, a, q)
    BY <1>3 DEF apply, q
  <2> QED
    BY <2>3, <2>4, RecordForTracked
<1>4. CASE a.kind = "keepGap"
  <2>1. id \in DOMAIN e.entities =>
          LET q == drive_distance_keeping(e, r) IN q.mode = r.mode /\ Measured(q, S, run)
    BY <1>1, KeepingGap DEF Tracked
  <2>2. apply(e, a) = record_for(e, a, drive_distance_keeping(e, r))
    BY <1>4 DEF apply
  <2> QED
    BY <2>1, <2>2, RecordForTracked
<1>5. CASE a.kind \in {"assignController", "visibility"}
  <2> DEFINE q == IF a.kind = "assignController" THEN [r EXCEPT !.assigned = TRUE]
                  ELSE [r EXCEPT !.visible = a.value]
  <2>1. ASSUME id \in DOMAIN e.entities PROVE Kept(q) /\ q.speed = r.speed
    BY <1>1, <2>1 DEF Measured, Filled, RecordFields
  <2>2. apply(e, a) = record_for(e, a, q)
    BY <1>5 DEF apply
  <2> HIDE DEF q
  <2>3. id \in DOMAIN e.entities => q.mode = r.mode /\ Measured(q, S, run)
    BY <1>1, <1>2, <2>1 DEF Measured, OnCourse
  <2> QED
    BY <2>2, <2>3, RecordForTracked
<1>6. CASE a.kind = "add"
  <2>1. CASE r.active
    BY <1>6, <2>1 DEF apply
  <2>2. CASE ~ r.active
    <3> DEFINE q == activate_entity(r, a.value)
    <3>1. id \in DOMAIN e.entities /\ r.mode = "engine" => a.value \in S /\ a.value \in Int
      BY <1>1, <1>6 DEF Onward, Entrances
    <3>2. id \in DOMAIN e.entities => q.mode = r.mode /\ Measured(q, S, run)
      BY <1>1, <2>2, <3>1, Entering
    <3>3. apply(e, a) = WithRecord(e, id, q)
      BY <1>6, <2>2 DEF apply
    <3> QED
      BY <3>2, <3>3, RecordTracked
  <2> QED
    BY <2>1, <2>2
<1>7. CASE a.kind = "delete"
  <2>1. CASE ~ r.active
    BY <1>7, <2>1 DEF apply
  <2>2. CASE r.active
    <3> DEFINE q == deactivate_entity(r)
    <3>1. id \in DOMAIN e.entities => q.mode = r.mode /\ Measured(q, S, run)
      BY <1>1, Leaving
    <3>2. apply(e, a) = WithRecord(e, id, q)
      BY <1>7, <2>2 DEF apply
    <3> QED
      BY <3>1, <3>2, RecordTracked
  <2> QED
    BY <2>1, <2>2
<1>8. CASE a.kind = "teleport"
  <2> DEFINE q == [r EXCEPT !.x = a.value]
  <2>1. ASSUME id \in DOMAIN e.entities
        PROVE  /\ Filled(q) /\ q.mode = r.mode /\ q.active = r.active /\ q.x = a.value
               /\ q.traveled = r.traveled /\ q.speed = r.speed
    BY <1>1, <2>1 DEF Measured, Filled, RecordFields
  <2>2. id \in DOMAIN e.entities /\ r.mode = "engine" => ~ run /\ a.value \in S
    BY <1>1, <1>8 DEF Onward, Entrances
  <2>3. apply(e, a) = record_for(e, a, q)
    BY <1>8 DEF apply
  <2> HIDE DEF q
  <2>4. id \in DOMAIN e.entities => q.mode = r.mode /\ Measured(q, S, run)
    BY <1>1, <2>1, <2>2 DEF Measured, OnCourse, AtEntrance
  <2> QED
    BY <2>3, <2>4, RecordForTracked
<1>9. CASE a.kind \in Elsewhere
  <2>1. apply(e, a).entities = e.entities
    BY <1>9, ApplyElsewhere
  <2>2. apply(e, a).scenario = e.scenario /\ apply(e, a).last_dt = e.last_dt
    BY ApplyWrites DEF Changes, Members, Written
  <2> QED
    BY <2>1, <2>2, SameTracked
<1>10. CASE a.kind \notin Elsewhere \cup {"setSpeed", "keepGap", "assignController",
                                         "visibility", "add", "delete", "teleport"}
  <2>1. apply(e, a) = record_for(e, a, r)
    BY <1>10 DEF apply, Elsewhere
  <2> QED
    BY <1>1, <2>1, RecordForTracked
<1> QED
  BY <1>3, <1>4, <1>5, <1>6, <1>7, <1>8, <1>9, <1>10

---------------------------------------------------------------------------
(* The parts of a call.                                                     *)

LEMMA EachTracked ==
  ASSUME NEW e, NEW run, Tracked(e, run), NEW f, NEW then, f.scenario = e.scenario,
         f.last_dt = e.last_dt, DOMAIN f.entities = DOMAIN e.entities,
         \A id \in DOMAIN e.entities :
           Measured(e.entities[id], Entrances(e.scenario, id), run) =>
             /\ f.entities[id].mode = e.entities[id].mode
             /\ Measured(f.entities[id], Entrances(e.scenario, id), then)
  PROVE  Tracked(f, then)
BY DEF Tracked

LEMMA InitActionTracked ==
  ASSUME NEW e, Shaped(e), Tracked(e, FALSE), Onward(e.scenario),
         NEW a \in Range(e.scenario.init)
  PROVE  Tracked(InitAction(e, a), FALSE)
<1> DEFINE f == apply(e, a)
           who == a.who
           g == finalize(f, who)
<1>1. Shaped(f) /\ Tracked(f, FALSE)
  BY ApplyTracked, ApplyWrites DEF Changes
<1>2. CASE a.kind # "keepGap"
  BY <1>1, <1>2 DEF InitAction
<1>3. CASE a.kind = "keepGap"
  <2>1. InitAction(e, a) = g
    BY <1>3 DEF InitAction
  <2> HIDE DEF f, who
  <2>2. g.entities = [f.entities EXCEPT ![who] = [f.entities[who] EXCEPT !.keeps_gap = FALSE]]
        /\ g.scenario = f.scenario /\ g.last_dt = f.last_dt
    BY <1>1 DEF finalize, Shaped, Members
  <2> HIDE DEF g
  <2>3. ASSUME NEW id \in DOMAIN f.entities, NEW S, Measured(f.entities[id], S, FALSE)
        PROVE  g.entities[id].mode = f.entities[id].mode /\ Measured(g.entities[id], S, FALSE)
    <3> DEFINE r == f.entities[id]
               q == [r EXCEPT !.keeps_gap = FALSE]
    <3>1. DOMAIN r = RecordFields
      BY <2>3 DEF Measured, Filled
    <3>2. Filled(q) /\ q.mode = r.mode /\ q.active = r.active /\ q.x = r.x /\ q.prev = r.prev
          /\ q.has_prev = r.has_prev /\ q.traveled = r.traveled /\ q.speed = r.speed
      BY <2>3, <3>1 DEF Measured, Filled, RecordFields
    <3>3. g.entities[id] = IF id = who THEN q ELSE r
      BY <2>2, <2>3
    <3> HIDE DEF q, r
    <3>4. r.mode = "engine" /\ r.active => q.speed \in Nat
      BY <2>3, <3>2 DEF Measured, OnCourse, r
    <3> QED
      BY <2>3, <3>2, <3>3, <3>4, SameCourse DEF r
  <2>4. Tracked(g, FALSE)
    BY <1>1, <2>2, <2>3, EachTracked
  <2> QED
    BY <2>1, <2>4
<1> QED
  BY <1>2, <1>3

LEMMA RepollTracked ==
  ASSUME NEW e, Shaped(e), Tracked(e, TRUE)
  PROVE  Tracked(Repoll(e), TRUE)
<1> DEFINE f == Repoll(e)
<1>1. /\ f.entities = [id \in DOMAIN e.entities |->
                         IF e.entities[id].keeps_gap THEN drive_distance_keeping(e, e.entities[id])
                         ELSE e.entities[id]]
      /\ f.scenario = e.scenario /\ f.last_dt = e.last_dt
  BY DEF Repoll, Shaped, Members
<1> HIDE DEF f
<1>2. e.last_dt \in Nat
  BY DEF Tracked
<1>3. ASSUME NEW id \in DOMAIN e.entities, Measured(e.entities[id], Entrances(e.scenario, id), TRUE)
      PROVE  /\ f.entities[id].mode = e.entities[id].mode
             /\ Measured(f.entities[id], Entrances(e.scenario, id), TRUE)
  <2>1. CASE e.entities[id].keeps_gap
    <3>1. f.entities[id] = drive_distance_keeping(e, e.entities[id])
      BY <1>1, <2>1
    <3> QED
      BY <1>2, <1>3, <3>1, KeepingGap
  <2>2. CASE ~ e.entities[id].keeps_gap
    BY <1>1, <1>3, <2>2
  <2> QED
    BY <2>1, <2>2
<1>4. DOMAIN f.entities = DOMAIN e.entities
  BY <1>1
<1>5. Tracked(f, TRUE)
  <2>1. f.scenario = e.scenario /\ f.last_dt = e.last_dt
    BY <1>1
  <2> QED
    BY <1>3, <1>4, <2>1, EachTracked
<1> QED
  BY <1>5 DEF f

LEMMA EvaluationTracked ==
  ASSUME NEW e, Shaped(e), Tracked(e, TRUE), Onward(e.scenario), NEW f \in Evaluations(e)
  PROVE  Tracked(f, TRUE)
<1> DEFINE r == Repoll(e)
<1>1. Shaped(r) /\ r.scenario = e.scenario /\ Tracked(r, TRUE)
  BY RepollChanges, RepollTracked DEF Changes, Members
<1>2. f = r \/ \E a \in e.scenario.actions : f = apply(r, a)
  BY DEF Evaluations
<1> HIDE DEF r
<1> QED
  BY <1>1, <1>2, ApplyTracked

\* The sample taken when init has placed the entities is where they are.
LEMMA BaselineTracked ==
  ASSUME NEW e, Tracked(e, FALSE), Onward(e.scenario), NEW f,
         f.entities = [id \in DOMAIN e.entities |-> Baseline(e.entities[id])],
         f.scenario = e.scenario, f.last_dt = e.last_dt
  PROVE  Tracked(f, TRUE)
<1>1. ASSUME NEW id \in DOMAIN e.entities, Measured(e.entities[id], Entrances(e.scenario, id), FALSE)
      PROVE  /\ f.entities[id].mode = e.entities[id].mode
             /\ Measured(f.entities[id], Entrances(e.scenario, id), TRUE)
  <2> DEFINE r == e.entities[id]
             S == Entrances(e.scenario, id)
             q == Baseline(r)
  <2>1. DOMAIN r = RecordFields
    BY <1>1 DEF Measured, Filled
  <2>2. /\ Filled(q) /\ q.mode = r.mode /\ q.active = r.active /\ q.x = r.x /\ q.speed = r.speed
        /\ q.prev = Sample(r) /\ q.has_prev = TRUE /\ q.traveled = r.traveled
    BY <1>1, <2>1 DEF Baseline, Measured, Filled, RecordFields
  <2>3. q.prev.x = r.x /\ f.entities[id] = q
    BY <1>1, <2>2 DEF Sample
  <2>4. r.mode = "engine" => S \subseteq Int
    <3>1. r.mode = e.scenario.entities[id]
      BY <1>1 DEF Tracked
    <3> QED
      BY <3>1, EntrancesAreNumbers
  <2> HIDE DEF q
  <2>5. ASSUME r.mode = "engine", r.active
        PROVE  OnCourse(q, S, TRUE)
    <3>1. r.x \in S /\ r.x \in Int /\ r.traveled = r.x - r.x /\ r.x <= r.x /\ r.speed \in Nat
      BY <1>1, <2>4, <2>5 DEF Measured, OnCourse, AtEntrance
    <3> QED
      BY <2>2, <2>3, <3>1 DEF OnCourse, Metered
  <2> QED
    BY <1>1, <2>2, <2>3, <2>5 DEF Measured
<1> QED
  BY <1>1, EachTracked

LEMMA SeededTracked ==
  ASSUME NEW e, Shaped(e), e.last_dt \in Nat, NEW scn
  PROVE  Tracked(Seeded(e, scn), FALSE)
<1> DEFINE f == Seeded(e, scn)
<1>0. \A y \in Members : y \in DOMAIN e
  BY ShapeFacts
<1>1. /\ f.entities = [id \in DOMAIN scn.entities |-> NewRecord(scn.entities[id])]
      /\ f.scenario = scn /\ f.last_dt = e.last_dt
  <2>1. f.entities = [id \in DOMAIN scn.entities |-> NewRecord(scn.entities[id])]
    BY <1>0 DEF Seeded, Members
  <2>2. f.last_dt = e.last_dt
    BY <1>0 DEF Seeded, Members
  <2>3. f.scenario = scn
    BY SeededMembers
  <2> QED
    BY <2>1, <2>2, <2>3
<1> HIDE DEF f
<1>2. ASSUME NEW mode, NEW id
      PROVE  NewRecord(mode).mode = mode /\ Measured(NewRecord(mode), Entrances(scn, id), FALSE)
  <2>1. 0 \in Entrances(scn, id)
    BY DEF Entrances
  <2> DEFINE r == NewRecord(mode)
  <2>2. Filled(r) /\ r.mode = mode /\ r.x = 0 /\ r.speed = 0 /\ r.traveled = 0
    BY DEF NewRecord, Filled, RecordFields
  <2> HIDE DEF r
  <2>3. Measured(r, Entrances(scn, id), FALSE)
    BY <2>1, <2>2 DEF Measured, OnCourse, AtEntrance
  <2> QED
    BY <2>2, <2>3 DEF r
<1>3. ASSUME NEW id \in DOMAIN f.entities
      PROVE  /\ f.entities[id].mode = f.scenario.entities[id]
             /\ Measured(f.entities[id], Entrances(f.scenario, id), FALSE)
  <2>1. f.entities[id] = NewRecord(scn.entities[id]) /\ f.scenario = scn
    BY <1>1, <1>3
  <2> QED
    BY <1>2, <2>1
<1>4. f.last_dt \in Nat
  BY <1>1
<1>5. Tracked(f, FALSE)
  BY <1>3, <1>4 DEF Tracked
<1> QED
  BY <1>5 DEF f

\* What the init actions leave between one and the next.
Beginning(e, scn) == Shaped(e) /\ e.now = 0 /\ e.scenario = scn /\ Tracked(e, FALSE)

LEMMA RunTracked ==
  ASSUME NEW e, Shaped(e), Anchored(e), e.now = 0, e.last_dt \in Nat,
         NEW scn, scn.init \in Seq(Range(scn.init)), Onward(scn),
         NEW f \in Evaluations(Run(e, scn))
  PROVE  Tracked(f, TRUE) /\ f.scenario = scn
<1> DEFINE n == Len(scn.init)
           seeded == Seeded(e, scn)
           first == advance_signal_controllers(seeded, 0)
<1>1. n \in Nat /\ \A i \in 1 .. n : scn.init[i] \in Range(scn.init)
  BY DEF Range
<1>2. PICK run :
        /\ run[0] = first
        /\ \A i \in 1 .. n : run[i] = InitAction(run[i - 1], scn.init[i])
        /\ Begun(e, scn) = run[n]
  BY <1>1, BegunInSteps
<1>3. Beginning(first, scn)
  <2>1. Beginning(seeded, scn)
    <3>1. Shaped(seeded)
      BY SeededShaped
    <3>2. seeded.scenario = scn
      BY SeededMembers
    <3>3. seeded.now = 0
      BY DEF Shaped, Seeded, Members
    <3>4. Tracked(seeded, FALSE)
      BY SeededTracked
    <3> QED
      BY <3>1, <3>2, <3>3, <3>4 DEF Beginning
  <2> HIDE DEF seeded
  <2>2. Changes(seeded, first, {"signal_states", "controller_phases", "signal_controllers"})
    BY <2>1, ApplySignalPhase DEF advance_signal_controllers, Beginning
  <2> HIDE DEF first
  <2>3. Tracked(first, FALSE)
    BY <2>1, <2>2, SameTracked DEF Changes, Members, Beginning
  <2> QED
    BY <2>1, <2>2, <2>3 DEF Changes, Members, Beginning
<1> HIDE DEF first
<1> DEFINE S == {i \in 0 .. n : Beginning(run[i], scn)}
<1>4. 0 \in S
  BY <1>1, <1>2, <1>3
<1>5. ASSUME NEW i \in 1 .. n, i - 1 \in S
      PROVE  i \in S
  <2>1. Beginning(run[i - 1], scn)
    BY <1>5
  <2>2. Carried(run[i - 1], InitAction(run[i - 1], scn.init[i]))
    BY <2>1, InitActionCarried DEF Beginning
  <2>3. Tracked(InitAction(run[i - 1], scn.init[i]), FALSE)
    BY <1>1, <2>1, InitActionTracked DEF Beginning
  <2>4. Beginning(run[i], scn)
    BY <1>2, <2>1, <2>2, <2>3 DEF Carried, Beginning
  <2> QED
    BY <2>4
<1>6. n \in S
  <2> HIDE DEF S
  <2>1. n \in 0 .. n
    BY <1>1
  <2> QED
    BY <1>1, <1>4, <1>5, <2>1, IntervalInduction
<1> DEFINE b == Begun(e, scn)
           r == Run(e, scn)
<1>7. Beginning(b, scn)
  BY <1>2, <1>6
<1>8. r = [b EXCEPT !.entities = [id \in DOMAIN b.entities |-> Baseline(b.entities[id])]]
  BY DEF Run
<1>9. f \in Evaluations(r)
  OBVIOUS
<1> HIDE DEF b, r
<1>10. /\ r.entities = [id \in DOMAIN b.entities |-> Baseline(b.entities[id])]
       /\ r.scenario = b.scenario /\ r.last_dt = b.last_dt /\ Shaped(r) /\ r.now = b.now
  BY <1>7, <1>8 DEF Shaped, Members, Beginning
<1>11. Tracked(r, TRUE)
  BY <1>7, <1>10, BaselineTracked DEF Beginning
<1>12. Carried(r, f)
  BY <1>7, <1>9, <1>10, EvaluationCarried DEF Beginning
<1> QED
  BY <1>7, <1>9, <1>10, <1>11, <1>12, EvaluationTracked DEF Carried, Beginning

\* An entity that drives does not fall behind its last sample.
LEMMA IntegratedTracked ==
  ASSUME NEW e, Shaped(e), Tracked(e, TRUE), NEW dt \in Int, dt >= 0
  PROVE  Tracked(Integrated(e, dt), TRUE)
<1> DEFINE f == Integrated(e, dt)
           Drives(id) == e.entities[id].active /\ e.entities[id].mode = "engine"
           Moved(id) == [e.entities[id] EXCEPT !.x = @ + e.entities[id].speed * dt]
<1>1. /\ f.entities = [id \in DOMAIN e.entities |-> IF Drives(id) THEN Moved(id) ELSE e.entities[id]]
      /\ f.scenario = e.scenario /\ f.last_dt = e.last_dt
  <2> DEFINE new == [id \in DOMAIN e.entities |-> IF Drives(id) THEN Moved(id) ELSE e.entities[id]]
  <2>1. f = [e EXCEPT !.entities = new]
    BY DEF Integrated
  <2> HIDE DEF f, new
  <2>2. f.entities = new /\ f.scenario = e.scenario /\ f.last_dt = e.last_dt
    BY <2>1 DEF Shaped, Members
  <2> QED
    BY <2>2 DEF new
<1> HIDE DEF f
<1>2. ASSUME NEW id \in DOMAIN e.entities, Measured(e.entities[id], Entrances(e.scenario, id), TRUE)
      PROVE  /\ f.entities[id].mode = e.entities[id].mode
             /\ Measured(f.entities[id], Entrances(e.scenario, id), TRUE)
  <2> DEFINE r == e.entities[id]
             q == Moved(id)
             S == Entrances(e.scenario, id)
  <2>1. CASE ~ Drives(id)
    <3>1. f.entities[id] = e.entities[id]
      BY <1>1, <2>1
    <3> QED
      BY <1>2, <3>1
  <2>2. CASE Drives(id)
    <3>1. DOMAIN r = RecordFields
      BY <1>2 DEF Measured, Filled
    <3>2. /\ Filled(q) /\ q.mode = r.mode /\ q.active = r.active /\ q.x = r.x + r.speed * dt
          /\ q.speed = r.speed /\ q.prev = r.prev /\ q.has_prev = r.has_prev
          /\ q.traveled = r.traveled
      BY <1>2, <3>1 DEF Measured, Filled, RecordFields
    <3>3. f.entities[id] = q
      BY <1>1, <2>2
    <3> HIDE DEF q
    <3>4. OnCourse(r, S, TRUE)
      BY <1>2, <2>2 DEF Measured
    <3>5. q.x \in Int /\ q.prev.x <= q.x
      <4> DEFINE v == r.speed
                 x == r.x
                 p == r.prev.x
      <4>1. v \in Nat /\ x \in Int /\ p \in Int /\ p <= x
        BY <3>4 DEF OnCourse, Metered
      <4>2. q.x = x + v * dt /\ q.prev.x = p
        BY <3>2
      <4> HIDE DEF v, x, p
      <4>3. v * dt \in Nat
        BY <4>1
      <4> QED
        BY <4>1, <4>2, <4>3
    <3>6. OnCourse(q, S, TRUE)
      BY <3>2, <3>4, <3>5 DEF OnCourse, Metered
    <3>7. Measured(q, S, TRUE)
      BY <2>2, <3>2, <3>6 DEF Measured
    <3> QED
      BY <3>2, <3>3, <3>7
  <2> QED
    BY <2>1, <2>2
<1>3. DOMAIN f.entities = DOMAIN e.entities
  BY <1>1
<1>4. Tracked(f, TRUE)
  <2>1. f.scenario = e.scenario /\ f.last_dt = e.last_dt
    BY <1>1
  <2> QED
    BY <1>2, <1>3, <2>1, EachTracked
<1> QED
  BY <1>4 DEF f

\* The sample taken adds to the odometer what the entity has moved since the last.
LEMMA RefreshTracked ==
  ASSUME NEW e, Shaped(e), Tracked(e, TRUE), Onward(e.scenario), NEW dt
  PROVE  Tracked(refresh_observations(e, dt), TRUE)
<1> DEFINE f == refresh_observations(e, dt)
           road == gateway /\ HasRoads
<1>1. /\ f.entities = [id \in DOMAIN e.entities |-> Observed(e.entities[id], dt, road)]
      /\ f.scenario = e.scenario /\ f.last_dt = e.last_dt
  BY DEF refresh_observations, Shaped, Members
<1> HIDE DEF f, road
<1>2. ASSUME NEW id \in DOMAIN e.entities, Measured(e.entities[id], Entrances(e.scenario, id), TRUE)
      PROVE  /\ f.entities[id].mode = e.entities[id].mode
             /\ Measured(f.entities[id], Entrances(e.scenario, id), TRUE)
  <2> DEFINE r == e.entities[id]
             S == Entrances(e.scenario, id)
             q == Observed(r, dt, road)
  <2>1. f.entities[id] = q
    BY <1>1
  <2>2. CASE ~ r.active
    <3>1. q = r
      BY <2>2 DEF Observed
    <3> QED
      BY <1>2, <2>1, <3>1
  <2>3. CASE r.active
    <3> DEFINE moved == IF r.x >= r.prev.x THEN r.x - r.prev.x ELSE r.prev.x - r.x
               timed == [r EXCEPT !.acceleration = (r.speed - r.prev.speed),
                                  !.traveled = @ + moved,
                                  !.standstill = IF r.speed = 0 THEN @ + dt ELSE 0]
               placed == [timed EXCEPT !.offroad = IF r.x \in 0..RoadLength THEN 0 ELSE @ + dt,
                                       !.end_of_road = IF r.x \in 0..RoadLength /\ r.x = RoadLength
                                                       THEN @ + dt ELSE 0]
               derived == IF ~ r.has_prev THEN r ELSE IF road THEN placed ELSE timed
               Beside(p) == /\ Filled(p) /\ p.mode = r.mode /\ p.active = r.active /\ p.x = r.x
                            /\ p.speed = r.speed
    <3>1. DOMAIN r = RecordFields
      BY <1>2 DEF Measured, Filled
    <3>2. Beside(r) /\ Beside(timed) /\ timed.traveled = r.traveled + moved
      BY <1>2, <3>1 DEF Measured, Filled, RecordFields
    <3>3. q = [derived EXCEPT !.prev = Sample(r), !.has_prev = TRUE]
      BY <2>3 DEF Observed
    <3> HIDE DEF moved, timed
    <3>4. Beside(placed) /\ placed.traveled = timed.traveled
      BY <3>2 DEF Filled, RecordFields
    <3> HIDE DEF q, placed
    <3>5. Beside(derived) /\ (r.has_prev => derived.traveled = r.traveled + moved)
      BY <3>2, <3>4
    <3> HIDE DEF derived
    <3>6. /\ Beside(q) /\ q.prev = Sample(r) /\ q.has_prev = TRUE
          /\ q.traveled = derived.traveled
      BY <3>3, <3>5 DEF Filled, RecordFields
    <3>7. ASSUME r.mode = "engine"
          PROVE  OnCourse(q, S, TRUE)
      <4>1. /\ r.speed \in Nat /\ r.x \in Int /\ r.prev.x \in Int /\ r.has_prev = TRUE
            /\ r.prev.x <= r.x
        BY <1>2, <2>3, <3>7 DEF Measured, OnCourse, Metered
      <4>2. PICK at \in S : r.traveled = r.prev.x - at
        BY <1>2, <2>3, <3>7 DEF Measured, OnCourse, Metered
      <4>3. at \in Int
        <5>1. r.mode = e.scenario.entities[id]
          BY <1>2 DEF Tracked
        <5> QED
          BY <3>7, <5>1, EntrancesAreNumbers
      <4>4. moved = r.x - r.prev.x
        BY <4>1 DEF moved
      <4>5. q.traveled = r.x - at
        BY <3>5, <3>6, <4>1, <4>2, <4>3, <4>4
      <4>6. q.prev.x = r.x
        BY <3>6 DEF Sample
      <4> QED
        BY <3>6, <4>1, <4>5, <4>6 DEF OnCourse, Metered
    <3>8. Measured(q, S, TRUE)
      BY <2>3, <3>6, <3>7 DEF Measured
    <3> QED
      BY <2>1, <3>6, <3>8
  <2> QED
    BY <2>2, <2>3
<1>3. DOMAIN f.entities = DOMAIN e.entities
  BY <1>1
<1>4. Tracked(f, TRUE)
  <2>1. f.scenario = e.scenario /\ f.last_dt = e.last_dt
    BY <1>1
  <2> QED
    BY <1>2, <1>3, <2>1, EachTracked
<1> QED
  BY <1>4 DEF f

\* The host moves none but its own entities.
LEMMA PlacedByHost ==
  ASSUME NEW r, NEW S, Measured(r, S, TRUE), r.mode = "host", NEW x, NEW speed
  PROVE  /\ [r EXCEPT !.x = x, !.speed = speed].mode = r.mode
         /\ Measured([r EXCEPT !.x = x, !.speed = speed], S, TRUE)
<1> DEFINE q == [r EXCEPT !.x = x, !.speed = speed]
<1>1. Filled(q) /\ q.mode = r.mode
  BY DEF Measured, Filled, RecordFields
<1> HIDE DEF q
<1> QED
  BY <1>1 DEF Measured, q

LEMMA PolledTracked ==
  ASSUME NEW e, Shaped(e), Tracked(e, TRUE), NEW f \in Polled(e)
  PROVE  Tracked(f, TRUE)
<1>1. CASE ~ gateway
  BY <1>1 DEF Polled
<1>2. CASE gateway
  <2> DEFINE hosted == {id \in DOMAIN e.entities :
                          e.entities[id].active /\ e.entities[id].mode = "host"}
             Taken(answer) ==
               [id \in DOMAIN e.entities |->
                  IF id \in hosted /\ answer[id] # None
                  THEN [e.entities[id] EXCEPT !.x = answer[id].x, !.speed = answer[id].speed]
                  ELSE e.entities[id]]
  <2>1. PICK answer : f = [e EXCEPT !.entities = Taken(answer)]
    BY <1>2 DEF Polled
  <2>2. f.entities = Taken(answer) /\ f.scenario = e.scenario /\ f.last_dt = e.last_dt
    BY <2>1 DEF Shaped, Members
  <2>3. DOMAIN f.entities = DOMAIN e.entities
    BY <2>2
  <2>4. ASSUME NEW id \in DOMAIN e.entities, Measured(e.entities[id], Entrances(e.scenario, id), TRUE)
        PROVE  /\ f.entities[id].mode = e.entities[id].mode
               /\ Measured(f.entities[id], Entrances(e.scenario, id), TRUE)
    <3>1. CASE f.entities[id] = e.entities[id]
      BY <2>4, <3>1
    <3>2. CASE /\ e.entities[id].mode = "host"
               /\ f.entities[id] = [e.entities[id] EXCEPT !.x = answer[id].x,
                                                          !.speed = answer[id].speed]
      <4> DEFINE r == e.entities[id]
                 S == Entrances(e.scenario, id)
                 x == answer[id].x
                 v == answer[id].speed
      <4>1. Measured(r, S, TRUE) /\ r.mode = "host" /\ f.entities[id] = [r EXCEPT !.x = x, !.speed = v]
        BY <2>4, <3>2
      <4> HIDE DEF r, S, x, v
      <4>2. /\ [r EXCEPT !.x = x, !.speed = v].mode = r.mode
            /\ Measured([r EXCEPT !.x = x, !.speed = v], S, TRUE)
        BY <4>1, PlacedByHost
      <4>3. f.entities[id].mode = r.mode /\ Measured(f.entities[id], S, TRUE)
        BY <4>1, <4>2
      <4> QED
        BY <4>3 DEF r, S
    <3> QED
      BY <2>2, <3>1, <3>2
  <2> QED
    BY <2>2, <2>3, <2>4, EachTracked
<1> QED
  BY <1>1, <1>2

---------------------------------------------------------------------------
(* The calls.                                                               *)

LEMMA StepTracked ==
  ASSUME Standing(engine), Tracked(engine, TRUE), Onward(engine.scenario), NEW dt \in Int, step(dt)
  PROVE  Tracked(engine', TRUE)
<1>0. Shaped(engine)
  BY DEF Standing
<1>1. CASE engine' = engine
  BY <1>1
<1>2. CASE engine' # engine
  <2> DEFINE clocked == [engine EXCEPT !.last_dt = dt, !.now = @ + dt]
             observed(p) == IF dt > 0 THEN refresh_observations(p, dt) ELSE p
  <2>1. dt >= 0
    BY <1>2 DEF step
  <2>2. PICK polled \in Polled(clocked) :
          \E evaluated \in Evaluations(advance_signal_controllers(observed(polled),
                                                                   observed(polled).now)) :
            engine' = Integrated(evaluated, dt)
    BY <1>2 DEF step
  <2>3. /\ Shaped(clocked) /\ clocked.entities = engine.entities
        /\ clocked.scenario = engine.scenario /\ clocked.last_dt = dt
        /\ clocked.now = engine.now + dt
    BY <1>0 DEF Shaped, Members
  <2> HIDE DEF clocked
  <2>4. Tracked(clocked, TRUE)
    <3>1. dt \in Nat
      BY <2>1
    <3> QED
      BY <2>3, <3>1, ClockedTracked
  <2>5. Shaped(polled) /\ Tracked(polled, TRUE) /\ polled.scenario = engine.scenario
        /\ polled.now = engine.now + dt
    BY <2>3, <2>4, PolledChanges, PolledTracked DEF Changes, Members
  <2> DEFINE seen == observed(polled)
  <2>6. Shaped(seen) /\ Tracked(seen, TRUE) /\ seen.scenario = engine.scenario
        /\ seen.now = engine.now + dt
    <3> DEFINE fresh == refresh_observations(polled, dt)
    <3>1. Changes(polled, fresh, {"entities"})
      BY <2>5 DEF refresh_observations, Shaped, Changes, Members
    <3>2. Tracked(fresh, TRUE)
      BY <2>5, RefreshTracked
    <3>3. seen = fresh \/ seen = polled
      OBVIOUS
    <3> HIDE DEF fresh, seen
    <3> QED
      BY <2>5, <3>1, <3>2, <3>3 DEF Changes, Members
  <2> DEFINE ticked == advance_signal_controllers(seen, seen.now)
  <2>7. PICK evaluated \in Evaluations(ticked) : engine' = Integrated(evaluated, dt)
    BY <2>2
  <2> HIDE DEF observed, seen
  <2>8. Changes(seen, ticked, {"signal_states", "controller_phases", "signal_controllers"})
    BY <2>6, ApplySignalPhase DEF advance_signal_controllers
  <2> HIDE DEF ticked
  <2>9. Shaped(ticked) /\ Tracked(ticked, TRUE) /\ ticked.scenario = engine.scenario
        /\ ticked.now = engine.now + dt
    BY <2>6, <2>8, SameTracked DEF Changes, Members
  <2>10. Tracked(evaluated, TRUE)
    BY <2>9, EvaluationTracked
  <2>11. Shaped(evaluated)
    <3>1. ticked.now \in Int
      BY <2>9 DEF Standing
    <3> QED
      BY <2>9, <3>1, EvaluationCarried DEF Carried
  <2> QED
    BY <2>1, <2>7, <2>10, <2>11, IntegratedTracked
<1> QED
  BY <1>1, <1>2

LEMMA SettersTrack ==
  ASSUME Standing(engine), Tracked(engine, TRUE), HostCalls
  PROVE  Tracked(engine', TRUE)
<1>0. Shaped(engine)
  BY DEF Standing
<1>1. ASSUME NEW id, NEW s, report_state(id, s)
      PROVE  Tracked(engine', TRUE)
  <2>1. CASE engine' = engine
    BY <2>1
  <2>2. CASE /\ id \in DOMAIN engine.entities /\ engine.entities[id].mode = "host"
             /\ engine' = [engine EXCEPT !.entities[id].x = s.x, !.entities[id].speed = s.speed]
    <3> DEFINE r == engine.entities[id]
               q == [r EXCEPT !.x = s.x, !.speed = s.speed]
    <3>1. engine'.entities = [engine.entities EXCEPT ![id] = q]
          /\ engine'.scenario = engine.scenario /\ engine'.last_dt = engine.last_dt
      BY <1>0, <2>2 DEF Shaped, Members
    <3>2. Measured(r, Entrances(engine.scenario, id), TRUE)
      BY <2>2 DEF Tracked
    <3>3. q.mode = r.mode /\ Measured(q, Entrances(engine.scenario, id), TRUE)
      BY <2>2, <3>2, PlacedByHost
    <3> HIDE DEF q
    <3>4. WithRecord(engine, id, q) = [engine EXCEPT !.entities = [engine.entities EXCEPT ![id] = q]]
      BY DEF WithRecord
    <3>5. Tracked(WithRecord(engine, id, q), TRUE)
      BY <1>0, <3>3, RecordTracked
    <3>6. /\ WithRecord(engine, id, q).entities = engine'.entities
          /\ WithRecord(engine, id, q).scenario = engine'.scenario
          /\ WithRecord(engine, id, q).last_dt = engine'.last_dt
      BY <1>0, <3>1, <3>4 DEF Shaped, Members
    <3> QED
      BY <3>5, <3>6, SameTracked
  <2> QED
    BY <1>1, <2>1, <2>2 DEF report_state, Call
<1>2. ASSUME engine'.entities = engine.entities, engine'.scenario = engine.scenario,
             engine'.last_dt = engine.last_dt
      PROVE  Tracked(engine', TRUE)
  BY <1>2, SameTracked
<1>3. ASSUME NEW name, NEW v, set_variable(name, v) PROVE Tracked(engine', TRUE)
  BY <1>0, <1>2, <1>3 DEF set_variable, Call, Shaped, Members
<1>4. ASSUME NEW name, NEW v, set_user_defined_value(name, v) PROVE Tracked(engine', TRUE)
  BY <1>0, <1>2, <1>4 DEF set_user_defined_value, Call, Shaped, Members
<1>5. ASSUME NEW width, set_default_lane_width(width) PROVE Tracked(engine', TRUE)
  BY <1>0, <1>2, <1>5 DEF set_default_lane_width, Call, Shaped, Members
<1>6. ASSUME NEW epoch, set_date_time(epoch) PROVE Tracked(engine', TRUE)
  BY <1>0, <1>2, <1>6 DEF set_date_time, Call, Shaped, Members
<1>7. ASSUME NEW name, NEW v, set_traffic_signal_state(name, v) PROVE Tracked(engine', TRUE)
  BY <1>0, <1>2, <1>7 DEF set_traffic_signal_state, Call, Shaped, Members
<1>8. CASE clear_diagnostics
  BY <1>0, <1>2, <1>8 DEF clear_diagnostics, Call, Shaped, Members
<1>9. ASSUME NEW attached, set_gateway(attached) PROVE Tracked(engine', TRUE)
  BY <1>2, <1>9 DEF set_gateway
<1> QED
  BY <1>1, <1>3, <1>4, <1>5, <1>6, <1>7, <1>8, <1>9 DEF HostCalls

\* What runs is one of the scenarios, and every entity of it is on its course.
OdometerInv ==
  /\ EngineInv
  /\ engine.initialized => engine.scenario \in Scenarios
  /\ Tracked(engine, TRUE)

LEMMA OdometerBegins == Init => OdometerInv
<1> SUFFICES ASSUME Init PROVE OdometerInv
  OBVIOUS
<1>1. EngineInv /\ engine = Fresh
  BY EngineBegins DEF Init
<1>2. Fresh.initialized = FALSE /\ Fresh.last_dt = 0 /\ Fresh.entities = <<>>
  BY DEF Fresh
<1>3. Tracked(engine, TRUE)
  BY <1>1, <1>2 DEF Tracked
<1> QED
  BY <1>1, <1>2, <1>3 DEF OdometerInv

LEMMA OdometerGoesOn ==
  ASSUME OnwardOnly
  PROVE  OdometerInv /\ [Next]_vars => OdometerInv'
<1> SUFFICES ASSUME OdometerInv, [Next]_vars
             PROVE  OdometerInv'
  OBVIOUS
<1>0. /\ EngineInv /\ EngineInv' /\ Standing(engine) /\ Tracked(engine, TRUE) /\ Shaped(engine)
      /\ engine.initialized => engine.scenario \in Scenarios
  BY EngineGoesOn DEF OdometerInv, EngineInv, Standing
<1>1. ASSUME NEW scn \in Scenarios, init(scn)
      PROVE  OdometerInv'
  <2>1. PICK o \in init_outcomes(engine, scn) : engine' = o.engine
    BY <1>1 DEF init
  <2>2. CASE engine.initialized
    <3>1. engine' = engine
      BY <2>1, <2>2 DEF init_outcomes
    <3> QED
      BY <1>0, <3>1 DEF OdometerInv
  <2>3. CASE ~ engine.initialized /\ has_errors(scn.defects)
    <3>1. engine' = [engine EXCEPT !.diagnostics = scn.defects]
      BY <2>1, <2>3 DEF init_outcomes
    <3>2. engine'.initialized = engine.initialized /\ engine'.scenario = engine.scenario
          /\ engine'.entities = engine.entities /\ engine'.last_dt = engine.last_dt
      BY <1>0, <3>1 DEF Shaped, Members
    <3> QED
      BY <1>0, <2>3, <3>2, SameTracked DEF OdometerInv
  <2>4. CASE ~ engine.initialized /\ ~ has_errors(scn.defects)
    <3> DEFINE f == engine'
    <3>1. f \in Evaluations(Run(engine, scn))
      BY <2>1, <2>4 DEF init_outcomes
    <3>2. engine.now = 0 /\ Anchored(engine) /\ engine.last_dt \in Nat
      BY <1>0, <2>4 DEF Standing, Forgotten, Members, Staged, Fresh, Tracked
    <3>3. Onward(scn) /\ scn.init \in Seq(Range(scn.init))
      BY ScenariosAssumption DEF OnwardOnly
    <3> HIDE DEF f
    <3>4. Tracked(f, TRUE) /\ f.scenario = scn
      BY <1>0, <3>1, <3>2, <3>3, RunTracked
    <3> QED
      BY <1>0, <3>4 DEF OdometerInv, f
  <2> QED
    BY <2>2, <2>3, <2>4
<1>2. ASSUME NEW dt \in Steps, step(dt)
      PROVE  OdometerInv'
  <2>1. dt \in Int
    BY StepsAssumption
  <2>2. CASE engine' = engine
    BY <1>0, <2>2 DEF OdometerInv
  <2>3. CASE engine' # engine
    <3>1. engine.initialized /\ engine'.scenario = engine.scenario
      BY <1>0, <1>2, <2>1, <2>3, StepStands
    <3>2. Tracked(engine', TRUE)
      BY <1>0, <1>2, <2>1, <3>1, StepTracked DEF OnwardOnly
    <3> QED
      BY <1>0, <3>1, <3>2 DEF OdometerInv
  <2> QED
    BY <2>2, <2>3
<1>3. CASE close
  <2>1. CASE engine' = engine
    BY <1>0, <2>1 DEF OdometerInv
  <2>2. CASE engine' # engine
    <3>1. engine'.entities = <<>> /\ engine'.last_dt = engine.last_dt
          /\ engine'.initialized = FALSE
      BY <1>3, <2>2 DEF close, Fresh
    <3>2. Tracked(engine', TRUE)
      BY <1>0, <3>1 DEF Tracked
    <3> QED
      BY <1>0, <3>1, <3>2 DEF OdometerInv
  <2> QED
    BY <2>1, <2>2
<1>4. CASE HostCalls
  <2>1. Stood(engine, engine')
    BY <1>0, <1>4, SettersStand DEF HostCalls
  <2>2. Tracked(engine', TRUE)
    BY <1>0, <1>4, SettersTrack
  <2> QED
    BY <1>0, <2>1, <2>2 DEF Stood, OdometerInv
<1>5. CASE UNCHANGED vars
  BY <1>0, <1>5 DEF vars, OdometerInv
<1> QED
  BY <1>1, <1>2, <1>3, <1>4, <1>5 DEF Next

\* The odometer of every entity the engine drives agrees with its position,
\* through deletions, additions, runs and steps of no length, in every scenario
\* whose entities go on only: an odometer counts a way back as a way too.
THEOREM OdometerFollowsPosition ==
  ASSUME OnwardOnly
  PROVE  Spec => []OdometerMeetsPosition
<1>1. OdometerInv => OdometerMeetsPosition
  BY DEF OdometerInv, Tracked, Measured, OnCourse, Metered, OdometerMeetsPosition
<1> QED
  BY <1>1, OdometerBegins, OdometerGoesOn, PTL DEF Spec

---------------------------------------------------------------------------
(* Signals that were forced.                                                *)

\* All phases of a controller set the same signals.
Agree(phases) == \A i, j \in DOMAIN phases : DOMAIN phases[i].states = DOMAIN phases[j].states
SameSignals == \A scn \in Scenarios : \A i \in DOMAIN scn.controllers : Agree(scn.controllers[i].phases)

Wired(e) == \A n \in DOMAIN e.signal_controllers : n \in Int /\ Agree(Clock(e, n).phases)

\* f has the controllers of e, whatever phases they are in.
SamePhases(e, f) ==
  /\ DOMAIN f.signal_controllers = DOMAIN e.signal_controllers
  /\ \A n \in DOMAIN e.signal_controllers : Clock(f, n).phases = Clock(e, n).phases

\* The state of a signal is in f what it is in e.
Untouched(e, f, s) ==
  /\ s \in DOMAIN f.signal_states <=> s \in DOMAIN e.signal_states
  /\ s \in DOMAIN e.signal_states => f.signal_states[s] = e.signal_states[s]

LEMMA SameControllers ==
  ASSUME NEW e, NEW f, f.signal_controllers = e.signal_controllers
  PROVE  SamePhases(e, f)
BY DEF SamePhases, Clock

LEMMA StaysWired ==
  ASSUME NEW e, NEW f, Wired(e), SamePhases(e, f)
  PROVE  Wired(f)
BY DEF Wired, SamePhases

LEMMA MaxOfOne ==
  ASSUME NEW n \in Int
  PROVE  Max({n}) = n
BY DEF Max

\* The controllers that enter a phase write the signals of that phase.
LEMMA SignalsEntered ==
  ASSUME NEW e, Shaped(e), NEW entered, NEW s
  PROVE  LET f == apply_signal_phase(e, entered)
             EnteredPhase(n) == Clock(e, n).phases[entered[n]]
         IN  /\ (\A n \in DOMAIN entered : s \notin DOMAIN EnteredPhase(n).states) => Untouched(e, f, s)
             /\ \A n \in Int : DOMAIN entered = {n} /\ s \in DOMAIN EnteredPhase(n).states =>
                  s \in DOMAIN f.signal_states /\ f.signal_states[s] = EnteredPhase(n).states[s]
<1> DEFINE f == apply_signal_phase(e, entered)
           EnteredPhase(n) == Clock(e, n).phases[entered[n]]
           phase == [n \in DOMAIN entered |-> EnteredPhase(n)]
           drivers(x) == {n \in DOMAIN entered : x \in DOMAIN phase[n].states}
           driven == UNION {DOMAIN phase[n].states : n \in DOMAIN entered}
           set == [x \in driven |-> phase[Max(drivers(x))].states[x]]
<1>1. f.signal_states = Over(set, e.signal_states)
  BY DEF apply_signal_phase, Shaped, Members, Clock
<1>2. ASSUME \A n \in DOMAIN entered : s \notin DOMAIN EnteredPhase(n).states
      PROVE  Untouched(e, f, s)
  <2>1. s \notin driven
    BY <1>2
  <2> HIDE DEF driven, f
  <2>2. s \notin DOMAIN set
    BY <2>1
  <2> HIDE DEF set
  <2> QED
    BY <1>1, <2>2 DEF Over, Untouched
<1>3. ASSUME NEW n \in Int, DOMAIN entered = {n}, s \in DOMAIN EnteredPhase(n).states
      PROVE  s \in DOMAIN f.signal_states /\ f.signal_states[s] = EnteredPhase(n).states[s]
  <2>1. drivers(s) = {n} /\ s \in driven /\ phase[n] = EnteredPhase(n)
    BY <1>3
  <2>2. Max(drivers(s)) = n
    BY <2>1, MaxOfOne
  <2> HIDE DEF driven, drivers, phase, f
  <2>3. s \in DOMAIN set /\ set[s] = EnteredPhase(n).states[s]
    BY <2>1, <2>2
  <2> HIDE DEF set
  <2> QED
    BY <1>1, <2>3 DEF Over
<1> QED
  BY <1>2, <1>3

LEMMA EnteredSamePhases ==
  ASSUME NEW e, Shaped(e), NEW entered, DOMAIN entered \subseteq DOMAIN e.signal_controllers,
         \A n \in DOMAIN e.signal_controllers : Paced(Clock(e, n))
  PROVE  SamePhases(e, apply_signal_phase(e, entered))
<1> DEFINE f == apply_signal_phase(e, entered)
<1>1. DOMAIN f.signal_controllers = DOMAIN e.signal_controllers
  BY ControllersStay
<1>2. ASSUME NEW n \in DOMAIN e.signal_controllers
      PROVE  Clock(f, n).phases = Clock(e, n).phases
  <2>1. CASE n \in DOMAIN entered
    <3>1. Clock(f, n) = [phases |-> Clock(e, n).phases, anchor |-> Clock(e, n).anchor,
                         applied |-> entered[n]]
      BY <2>1, PhasesEntered
    <3> HIDE DEF f
    <3> QED
      BY <3>1
  <2>2. CASE n \notin DOMAIN entered
    BY <2>2, PhasesEntered
  <2> QED
    BY <2>1, <2>2
<1> QED
  BY <1>1, <1>2 DEF SamePhases

\* What a tick does to a controller that enters a phase, and to the others.
LEMMA TickSignals ==
  ASSUME NEW e, Shaped(e), Controlled(e)
  PROVE  LET f == advance_signal_controllers(e, e.now)
             entered == Entered(e.signal_controllers, e.now)
         IN  /\ SamePhases(e, f)
             /\ \A n \in entered : n \in DOMAIN e.signal_controllers /\ Clock(f, n) # Clock(e, n)
             /\ \A s : (\A n \in entered : \A p \in DOMAIN Clock(e, n).phases :
                          s \notin DOMAIN Clock(e, n).phases[p].states) => Untouched(e, f, s)
<1> DEFINE f == advance_signal_controllers(e, e.now)
           names == Entered(e.signal_controllers, e.now)
           entered == [n \in names |-> Current(e.signal_controllers[n], e.now)]
<1>1. f = apply_signal_phase(e, entered) /\ DOMAIN entered = names
  BY DEF advance_signal_controllers
<1>2. names \subseteq DOMAIN e.signal_controllers
        /\ \A n \in DOMAIN e.signal_controllers : Paced(Clock(e, n))
  BY DEF Entered, Controlled
<1>3. ASSUME NEW n \in names
      PROVE  /\ Started(Clock(e, n), e.now) /\ Clock(e, n).applied # entered[n]
             /\ entered[n] \in DOMAIN Clock(e, n).phases
  <2>1. Started(Clock(e, n), e.now) /\ Clock(e, n).applied # entered[n]
          /\ entered[n] = Current(Clock(e, n), e.now)
    BY DEF Entered, Clock
  <2> HIDE DEF entered, names
  <2>2. Paced(Clock(e, n)) /\ e.now \in Int
    BY <1>2 DEF Controlled
  <2> QED
    BY <2>1, <2>2, CurrentPhase
<1> HIDE DEF f, entered, names
<1>4. SamePhases(e, f)
  BY <1>1, <1>2, EnteredSamePhases
<1>5. ASSUME NEW n \in names
      PROVE  n \in DOMAIN e.signal_controllers /\ Clock(f, n) # Clock(e, n)
  <2>1. Clock(f, n) = [phases |-> Clock(e, n).phases, anchor |-> Clock(e, n).anchor,
                       applied |-> entered[n]]
    BY <1>1, <1>2, PhasesEntered
  <2> QED
    BY <1>2, <1>3, <2>1
<1>6. ASSUME NEW s, \A n \in names : \A p \in DOMAIN Clock(e, n).phases :
                      s \notin DOMAIN Clock(e, n).phases[p].states
      PROVE  Untouched(e, f, s)
  BY <1>1, <1>3, <1>6, SignalsEntered
<1> QED
  BY <1>4, <1>5, <1>6 DEF f, names

\* An action that restarts a phase of a controller it finds writes its signals.
LEMMA RestartSignals ==
  ASSUME NEW e, Shaped(e), Cyclic(e), NEW name, NEW phase,
         \A n \in DOMAIN e.signal_controllers : n \in Int
  PROVE  LET f == RestartPhase(e, name, phase)
         IN  \/ f = e
             \/ /\ name \in DOMAIN e.signal_controllers
                /\ SamePhases(e, f)
                /\ \A m \in DOMAIN e.signal_controllers \ {name} : Clock(f, m) = Clock(e, m)
                /\ name \in DOMAIN f.controller_phases /\ f.controller_phases[name] = phase
                /\ \E i \in DOMAIN Clock(e, name).phases :
                     /\ Clock(f, name).applied = i
                     /\ \A s : IF s \in DOMAIN Clock(e, name).phases[i].states
                               THEN /\ s \in DOMAIN f.signal_states
                                    /\ f.signal_states[s] = Clock(e, name).phases[i].states[s]
                               ELSE Untouched(e, f, s)
<1> DEFINE c == Clock(e, name)
           named == {i \in DOMAIN c.phases : c.phases[i].name = phase}
           index == CHOOSE i \in named : \A j \in named : i <= j
           start == e.now - Cumulative(c.phases)[index - 1]
           g == [e EXCEPT !.signal_controllers[name].anchor = start]
           entered == [m \in {name} |-> index]
           f == apply_signal_phase(g, entered)
<1>1. CASE ~ (name \in DOMAIN e.signal_controllers /\ named # {})
  BY <1>1 DEF RestartPhase, Clock
<1>2. CASE name \in DOMAIN e.signal_controllers /\ named # {}
  <2>1. RestartPhase(e, name, phase) = f
    BY <1>2 DEF RestartPhase, Clock
  <2>2. Paced(c) /\ \A m \in DOMAIN e.signal_controllers : Paced(Clock(e, m))
    BY <1>2 DEF Cyclic, Controlled
  <2>3. index \in DOMAIN c.phases /\ c.phases[index].name = phase
    <3>1. named \subseteq Nat
      BY <2>2 DEF Paced, TimedPhases
    <3>2. \E i \in named : \A j \in named : i <= j
      <4> HIDE DEF named
      <4> QED
        BY <1>2, <3>1, LeastNatural
    <3>3. index \in named
      BY <3>2
    <3> HIDE DEF index
    <3> QED
      BY <3>3
  <2> HIDE DEF index
  <2>4. start \in Int
    <3>1. index - 1 \in 0 .. Len(c.phases) /\ Cumulative(c.phases) \in [0 .. Len(c.phases) -> Nat]
      <4>1. TimedPhases(c.phases)
        BY <2>2 DEF Paced
      <4>2. index \in 1 .. Len(c.phases) /\ Len(c.phases) \in Nat
        BY <2>3, <4>1 DEF TimedPhases
      <4>3. index - 1 \in 0 .. Len(c.phases)
        BY <4>2
      <4> QED
        BY <4>1, <4>3, CumulativeSums
    <3>2. e.now \in Int
      BY DEF Cyclic, Controlled
    <3>3. Cumulative(c.phases)[index - 1] \in Nat
      BY <3>1
    <3> QED
      BY <3>2, <3>3
  <2> HIDE DEF start
  <2>5. /\ Shaped(g) /\ g.signal_controllers = [e.signal_controllers EXCEPT ![name].anchor = start]
        /\ g.signal_states = e.signal_states
    BY DEF Shaped, Members
  <2> HIDE DEF g
  <2>6. /\ DOMAIN g.signal_controllers = DOMAIN e.signal_controllers
        /\ Clock(g, name) = [phases |-> c.phases, anchor |-> start, applied |-> c.applied]
        /\ \A m \in DOMAIN e.signal_controllers \ {name} : Clock(g, m) = Clock(e, m)
    <3>1. Clock(g, name) = [c EXCEPT !.anchor = start]
      BY <1>2, <2>5 DEF Clock
    <3>2. Clock(g, name) = [phases |-> c.phases, anchor |-> start, applied |-> c.applied]
      BY <2>2, <3>1 DEF Paced
    <3> QED
      BY <2>5, <3>2 DEF Clock
  <2>7. Clock(g, name).phases = c.phases
    BY <2>6
  <2>8. \A m \in DOMAIN g.signal_controllers : Paced(Clock(g, m))
    <3>1. Paced(Clock(g, name))
      BY <2>2, <2>4, <2>6 DEF Paced
    <3> QED
      BY <2>2, <2>6, <3>1
  <2>9. DOMAIN entered = {name} /\ entered[name] = index
    OBVIOUS
  <2> HIDE DEF entered, f
  <2>10. SamePhases(e, f)
    <3>1. SamePhases(g, f)
      BY <1>2, <2>5, <2>6, <2>8, <2>9, EnteredSamePhases DEF f
    <3> QED
      BY <2>6, <2>7, <3>1 DEF SamePhases
  <2>11. \A m \in DOMAIN e.signal_controllers \ {name} : Clock(f, m) = Clock(e, m)
    <3>1. ASSUME NEW m \in DOMAIN e.signal_controllers \ {name}
          PROVE  Clock(f, m) = Clock(g, m)
      BY <1>2, <2>5, <2>6, <2>8, <2>9, PhasesEntered DEF f
    <3> QED
      BY <2>6, <3>1
  <2>12. /\ name \in DOMAIN f.controller_phases /\ f.controller_phases[name] = phase
         /\ Clock(f, name).applied = index
    <3>1. /\ Clock(f, name) = [phases |-> Clock(g, name).phases, anchor |-> Clock(g, name).anchor,
                               applied |-> entered[name]]
          /\ name \in DOMAIN f.controller_phases
          /\ f.controller_phases[name] = Clock(g, name).phases[entered[name]].name
      BY <1>2, <2>5, <2>6, <2>8, <2>9, PhasesEntered DEF f
    <3> QED
      BY <2>3, <2>7, <2>9, <3>1
  <2>13. ASSUME NEW s, s \in DOMAIN c.phases[index].states
         PROVE  s \in DOMAIN f.signal_states /\ f.signal_states[s] = c.phases[index].states[s]
    BY <1>2, <2>5, <2>7, <2>9, <2>13, SignalsEntered DEF f
  <2>14. ASSUME NEW s, s \notin DOMAIN c.phases[index].states
         PROVE  Untouched(e, f, s)
    <3>1. Untouched(g, f, s)
      BY <2>5, <2>7, <2>9, <2>14, SignalsEntered DEF f
    <3> QED
      BY <2>5, <3>1 DEF Untouched
  <2> HIDE DEF c
  <2> QED
    BY <1>2, <2>1, <2>3, <2>10, <2>11, <2>12, <2>13, <2>14 DEF c
<1> QED
  BY <1>1, <1>2

\* No other action writes what a signal shows, but the one that forces it.
LEMMA ApplySignals ==
  ASSUME NEW e, Shaped(e), NEW a, a.kind # "phase"
  PROVE  /\ apply(e, a).signal_controllers = e.signal_controllers
         /\ apply(e, a).controller_phases = e.controller_phases
         /\ apply(e, a).signal_states =
              IF a.kind = "signal" THEN With(e.signal_states, a.name, a.value) ELSE e.signal_states
<1> DEFINE Quiet == {"entities", "warned", "diagnostics", "variables", "parameter_overrides",
                     "environment", "date"}
<1>1. CASE a.kind = "signal"
  BY <1>1 DEF apply, Shaped, Members
<1>2. CASE a.kind = "environment"
  <2>1. Changes(e, MergeEnvironment(e, a), Quiet)
    BY MergeEnvironmentChanges DEF Changes
  <2> QED
    BY <1>2, <2>1 DEF apply, Changes, Members
<1>3. CASE a.kind \notin {"signal", "environment"}
  <2>1. \A r : Changes(e, record_for(e, a, r), Quiet)
    BY RecordFor DEF Changes
  <2>2. \A id, r : Changes(e, WithRecord(e, id, r), Quiet)
    BY WithRecordChanges DEF Changes
  <2>3. Changes(e, e, Quiet)
    BY DEF Changes
  <2>4. \A store \in {"variables", "parameter_overrides"} : \A name, amount :
          Changes(e, modify_named_value(e, store, name, amount), Quiet)
    BY ModifyNamedValue DEF Changes
  <2>5. \A name, v : Changes(e, [e EXCEPT !.variables[name] = v], Quiet)
    BY DEF Shaped, Changes, Members
  <2> DEFINE p == parameter_slot(e, a.name)
             q == [p EXCEPT !.parameter_overrides[a.name] = a.value]
             m == modify_named_value(p, "parameter_overrides", a.name, a.value)
  <2>6. Changes(e, p, Quiet)
    BY ParameterSlot DEF Changes
  <2>7. Changes(e, q, Quiet) /\ Changes(e, m, Quiet)
    <3> HIDE DEF p
    <3>1. Shaped(p)
      BY <2>6 DEF Changes
    <3>2. Changes(p, q, {"parameter_overrides"})
      BY <3>1 DEF Shaped, Changes, Members
    <3>3. Changes(p, m, {"parameter_overrides", "warned", "diagnostics"})
      BY <3>1, ModifyNamedValue
    <3> HIDE DEF q, m
    <3> QED
      BY <2>6, <3>2, <3>3 DEF Changes
  <2>8. Changes(e, apply(e, a), Quiet)
    <3>1. CASE a.kind \in {"add", "delete"}
      BY <2>2, <2>3, <3>1 DEF apply
    <3>2. CASE a.kind \in {"setVariable", "modifyVariable", "custom"}
      BY <2>3, <2>4, <2>5, <3>2 DEF apply
    <3>3. CASE a.kind = "setParameter"
      BY <2>7, <3>3 DEF apply
    <3>4. CASE a.kind = "modifyParameter"
      BY <2>7, <3>4 DEF apply
    <3>5. CASE a.kind \notin {"add", "delete", "setVariable", "modifyVariable", "custom",
                              "setParameter", "modifyParameter"}
      BY <1>3, <2>1, <3>5 DEF apply
    <3> QED
      BY <3>1, <3>2, <3>3, <3>4, <3>5
  <2> QED
    BY <1>3, <2>8 DEF Changes, Members
<1> QED
  BY <1>1, <1>2, <1>3

LEMMA ApplyWired ==
  ASSUME NEW e, Shaped(e), Cyclic(e), Wired(e), NEW a
  PROVE  Wired(apply(e, a))
<1>1. CASE a.kind = "phase"
  <2> DEFINE f == RestartPhase(e, a.name, a.value)
  <2>1. f = e \/ SamePhases(e, f)
    BY RestartSignals DEF Wired
  <2>2. apply(e, a) = f
    BY <1>1 DEF apply
  <2> HIDE DEF f
  <2> QED
    BY <2>1, <2>2, StaysWired
<1>2. CASE a.kind # "phase"
  BY <1>2, ApplySignals, SameControllers, StaysWired
<1> QED
  BY <1>1, <1>2

LEMMA InitActionWired ==
  ASSUME NEW e, Shaped(e), Cyclic(e), Wired(e), NEW a
  PROVE  Wired(InitAction(e, a))
<1> DEFINE f == apply(e, a)
           g == finalize(f, a.who)
<1>1. Shaped(f) /\ Wired(f)
  BY ApplyWired, ApplyWrites DEF Changes
<1> HIDE DEF f
<1>2. g.signal_controllers = f.signal_controllers
  BY <1>1 DEF finalize, Shaped, Members
<1> HIDE DEF g
<1>3. Wired(g)
  BY <1>1, <1>2, SameControllers, StaysWired
<1> QED
  BY <1>1, <1>3 DEF InitAction, f, g

LEMMA RepollFacts ==
  ASSUME NEW e, Shaped(e)
  PROVE  LET r == Repoll(e)
         IN  /\ Shaped(r) /\ r.signal_controllers = e.signal_controllers
             /\ r.controller_phases = e.controller_phases /\ r.signal_states = e.signal_states
             /\ r.scenario = e.scenario /\ r.now = e.now /\ (Cyclic(e) => Cyclic(r))
<1> DEFINE r == Repoll(e)
<1>1. Changes(e, r, {"entities"})
  BY RepollChanges
<1> HIDE DEF r
<1> QED
  BY <1>1, EntitiesCarried DEF Changes, Carried, Members, r

LEMMA EvaluationWired ==
  ASSUME NEW e, Shaped(e), Cyclic(e), Wired(e), NEW f \in Evaluations(e)
  PROVE  Wired(f)
<1> DEFINE r == Repoll(e)
<1>1. Shaped(r) /\ Cyclic(r) /\ r.signal_controllers = e.signal_controllers
  BY RepollFacts
<1>2. f = r \/ \E a : f = apply(r, a)
  BY DEF Evaluations
<1> HIDE DEF r
<1>3. Wired(r)
  BY <1>1, SameControllers, StaysWired
<1> QED
  BY <1>1, <1>2, <1>3, ApplyWired

\* The controllers a run starts with are those of its scenario.
LEMMA SeededWired ==
  ASSUME NEW e, Shaped(e), NEW scn, TimedControllers(scn.controllers),
         \A i \in DOMAIN scn.controllers :
           scn.controllers[i].name \in Int /\ Agree(scn.controllers[i].phases)
  PROVE  Wired(Seeded(e, scn))
<1> DEFINE f == Seeded(e, scn)
           controllers == scn.controllers
<1>1. f.signal_controllers = SignalClocks(controllers)
  BY SeededMembers
<1> HIDE DEF f
<1>2. ASSUME NEW name \in DOMAIN SignalClocks(controllers)
      PROVE  name \in Int /\ Agree(SignalClocks(controllers)[name].phases)
  <2> DEFINE i == find_controller(controllers, name)
  <2>1. \E k \in DOMAIN controllers : controllers[k].name = name
    BY DEF SignalClocks
  <2>2. i \in 1 .. Len(controllers) /\ DOMAIN controllers = 1 .. Len(controllers)
    BY <2>1, FindController DEF TimedControllers
  <2>3. SignalClocks(controllers)[name] =
          [phases |-> controllers[i].phases, anchor |-> StartOffset(controllers, i),
           applied |-> None]
    BY DEF SignalClocks
  <2> HIDE DEF i
  <2>4. SignalClocks(controllers)[name].phases = controllers[i].phases
    BY <2>3
  <2> QED
    BY <2>1, <2>2, <2>4
<1>3. Wired(f)
  BY <1>1, <1>2 DEF Wired, Clock
<1> QED
  BY <1>3 DEF f

\* Between one init action and the next the controllers are in phase.
Turning(e, scn) ==
  Shaped(e) /\ e.now = 0 /\ e.scenario = scn /\ Cyclic(e) /\ Wired(e)

LEMMA RunWired ==
  ASSUME NEW e, Shaped(e), Anchored(e), e.now = 0, NEW scn, Len(scn.init) \in Nat,
         TimedControllers(scn.controllers),
         \A i \in DOMAIN scn.controllers :
           scn.controllers[i].name \in Int /\ Agree(scn.controllers[i].phases),
         NEW f \in Evaluations(Run(e, scn))
  PROVE  Wired(f)
<1> DEFINE n == Len(scn.init)
           seeded == Seeded(e, scn)
           first == advance_signal_controllers(seeded, 0)
<1>1. PICK run :
        /\ run[0] = first
        /\ \A i \in 1 .. n : run[i] = InitAction(run[i - 1], scn.init[i])
        /\ Begun(e, scn) = run[n]
  BY BegunInSteps
<1>2. Turning(first, scn)
  <2>1. Shaped(seeded) /\ seeded.now = 0
    <3>1. Shaped(seeded)
      BY SeededShaped
    <3>2. seeded.now = 0
      BY DEF Shaped, Seeded, Members
    <3> QED
      BY <3>1, <3>2
  <2>2. seeded.scenario = scn /\ Controlled(seeded) /\ Wired(seeded)
    <3>1. seeded.scenario = scn
      BY SeededMembers
    <3> QED
      BY <3>1, SeededControlled, SeededWired
  <2> HIDE DEF seeded
  <2>3. Cyclic(first) /\ SamePhases(seeded, first)
    BY <2>1, <2>2, AdvanceCycles, TickSignals
  <2>4. Changes(seeded, first, {"signal_states", "controller_phases", "signal_controllers"})
    BY <2>1, ApplySignalPhase DEF advance_signal_controllers
  <2> HIDE DEF first
  <2>5. Wired(first)
    BY <2>2, <2>3, StaysWired
  <2> QED
    BY <2>1, <2>2, <2>3, <2>4, <2>5 DEF Changes, Members, Turning
<1> HIDE DEF first
<1> DEFINE S == {i \in 0 .. n : Turning(run[i], scn)}
<1>3. 0 \in S
  BY <1>1, <1>2
<1>4. ASSUME NEW i \in 1 .. n, i - 1 \in S
      PROVE  i \in S
  <2>1. Turning(run[i - 1], scn)
    BY <1>4
  <2>2. Carried(run[i - 1], InitAction(run[i - 1], scn.init[i]))
    BY <2>1, InitActionCarried DEF Turning
  <2>3. Wired(InitAction(run[i - 1], scn.init[i]))
    BY <2>1, InitActionWired DEF Turning
  <2>4. Turning(run[i], scn)
    BY <1>1, <2>1, <2>2, <2>3 DEF Carried, Turning
  <2> QED
    BY <2>4
<1>5. n \in S
  <2> HIDE DEF S
  <2>1. n \in 0 .. n
    OBVIOUS
  <2> QED
    BY <1>3, <1>4, <2>1, IntervalInduction
<1> DEFINE b == Begun(e, scn)
           r == Run(e, scn)
<1>6. Turning(b, scn)
  BY <1>1, <1>5
<1>7. r = [b EXCEPT !.entities = [id \in DOMAIN b.entities |-> Baseline(b.entities[id])]]
  BY DEF Run
<1>8. f \in Evaluations(r)
  OBVIOUS
<1> HIDE DEF b, r
<1>9. Changes(b, r, {"entities"}) /\ r.signal_controllers = b.signal_controllers
  BY <1>6, <1>7 DEF Shaped, Changes, Members, Turning
<1>10. Shaped(r) /\ Cyclic(r) /\ Wired(r)
  BY <1>6, <1>9, EntitiesCarried, SameControllers, StaysWired DEF Carried, Turning
<1> QED
  BY <1>8, <1>10, EvaluationWired

\* A step is a tick of the controllers and an evaluation of the storyboard, the
\* rest of it leaves the signals alone.
LEMMA StepTicks ==
  ASSUME Standing(engine), Cyclic(engine), NEW dt \in Int, step(dt), engine' # engine
  PROVE  \E seen : \E evaluated \in Evaluations(advance_signal_controllers(seen, seen.now)) :
           /\ engine.initialized /\ Shaped(seen) /\ Controlled(seen)
           /\ seen.signal_controllers = engine.signal_controllers
           /\ seen.signal_states = engine.signal_states /\ seen.scenario = engine.scenario
           /\ engine'.signal_controllers = evaluated.signal_controllers
           /\ engine'.controller_phases = evaluated.controller_phases
           /\ engine'.signal_states = evaluated.signal_states
<1> DEFINE clocked == [engine EXCEPT !.last_dt = dt, !.now = @ + dt]
           observed(p) == IF dt > 0 THEN refresh_observations(p, dt) ELSE p
<1>0. Shaped(engine)
  BY DEF Standing
<1>1. dt >= 0 /\ engine.initialized
  BY DEF step
<1>2. PICK polled \in Polled(clocked) :
        \E evaluated \in Evaluations(advance_signal_controllers(observed(polled),
                                                                 observed(polled).now)) :
          engine' = Integrated(evaluated, dt)
  BY DEF step
<1>3. /\ Shaped(clocked) /\ clocked.scenario = engine.scenario /\ clocked.now = engine.now + dt
      /\ clocked.signal_controllers = engine.signal_controllers
      /\ clocked.controller_phases = engine.controller_phases
      /\ clocked.signal_states = engine.signal_states
  BY <1>0 DEF Shaped, Members
<1> HIDE DEF clocked
<1>4. engine.now \in Int /\ engine.now + dt \in Int /\ engine.now <= engine.now + dt
  BY <1>1 DEF Standing
<1>5. Controlled(clocked)
  <2>1. SUFFICES ASSUME NEW name \in DOMAIN engine.signal_controllers
                 PROVE  Paced(Clock(clocked, name)) /\ Shown(clocked, name)
    BY <1>3, <1>4 DEF Controlled
  <2>2. Clock(clocked, name) = Clock(engine, name)
    BY <1>3 DEF Clock
  <2>3. Paced(Clock(engine, name)) /\ Shown(engine, name)
    BY DEF Cyclic, Controlled
  <2>4. Clock(engine, name).anchor \in Int
    BY <2>3 DEF Paced
  <2> QED
    BY <1>3, <1>4, <2>2, <2>3, <2>4 DEF Shown
<1> DEFINE seen == observed(polled)
<1>6. Changes(clocked, seen, {"entities"})
  <2>1. Changes(clocked, polled, {"entities"})
    BY <1>3, PolledChanges
  <2>2. Changes(polled, refresh_observations(polled, dt), {"entities"})
    BY <2>1 DEF refresh_observations, Shaped, Changes, Members
  <2> QED
    BY <2>1, <2>2, ChangesOnAndOn
<1>7. PICK evaluated \in Evaluations(advance_signal_controllers(seen, seen.now)) :
        engine' = Integrated(evaluated, dt)
  BY <1>2
<1> HIDE DEF observed, seen
<1>8. /\ Shaped(seen) /\ Controlled(seen) /\ seen.scenario = engine.scenario
      /\ seen.signal_controllers = engine.signal_controllers
      /\ seen.signal_states = engine.signal_states
  BY <1>3, <1>5, <1>6, EntitiesCarried DEF Changes, Members
<1> DEFINE ticked == advance_signal_controllers(seen, seen.now)
<1>9. Shaped(ticked) /\ ticked.now \in Int
  BY <1>8, ApplySignalPhase DEF advance_signal_controllers, Changes, Members, Controlled
<1>10. Shaped(evaluated)
  BY <1>7, <1>9, EvaluationCarried DEF Carried
<1>11. Changes(evaluated, engine', {"entities"})
  BY <1>7, <1>10 DEF Integrated, Shaped, Changes, Members
<1>12. /\ engine'.signal_controllers = evaluated.signal_controllers
       /\ engine'.controller_phases = evaluated.controller_phases
       /\ engine'.signal_states = evaluated.signal_states
  BY <1>11 DEF Changes, Members
<1> QED
  BY <1>1, <1>7, <1>8, <1>12

\* What may change the state of a signal from e to f, the controllers standing.
Accounted(e, f, s) ==
  \/ \E a \in Forced : a.name = s /\ a.value = f.signal_states[s]
  \/ \E a \in Restarts(e.scenario) :
       f.signal_states[s] \in PhaseStates(f, s) /\ a.value = Lookup(f.controller_phases, a.name)

LEMMA StepAccounts ==
  ASSUME Standing(engine), Cyclic(engine), Wired(engine), engine.scenario \in Scenarios,
         NEW dt \in Int, step(dt)
  PROVE  /\ Wired(engine')
         /\ \A s \in DOMAIN engine.signal_states :
              engine.signal_states[s] # engine'.signal_states[s]
              /\ engine'.signal_controllers = engine.signal_controllers => Accounted(engine, engine', s)
<1>1. CASE engine' = engine
  BY <1>1
<1>2. CASE engine' # engine
  <2>1. PICK seen : \E evaluated \in Evaluations(advance_signal_controllers(seen, seen.now)) :
           /\ Shaped(seen) /\ Controlled(seen)
           /\ seen.signal_controllers = engine.signal_controllers
           /\ seen.signal_states = engine.signal_states /\ seen.scenario = engine.scenario
           /\ engine'.signal_controllers = evaluated.signal_controllers
           /\ engine'.controller_phases = evaluated.controller_phases
           /\ engine'.signal_states = evaluated.signal_states
    BY <1>2, StepTicks
  <2> DEFINE ticked == advance_signal_controllers(seen, seen.now)
             entered == Entered(seen.signal_controllers, seen.now)
             r == Repoll(ticked)
  <2>2. PICK evaluated \in Evaluations(ticked) :
           /\ engine'.signal_controllers = evaluated.signal_controllers
           /\ engine'.controller_phases = evaluated.controller_phases
           /\ engine'.signal_states = evaluated.signal_states
    BY <2>1
  <2>3. Cyclic(ticked) /\ SamePhases(seen, ticked)
        /\ \A n \in entered : n \in DOMAIN seen.signal_controllers /\ Clock(ticked, n) # Clock(seen, n)
    BY <2>1, AdvanceCycles, TickSignals
  <2>4. ASSUME NEW s, \A n \in entered : \A p \in DOMAIN Clock(seen, n).phases :
                        s \notin DOMAIN Clock(seen, n).phases[p].states
        PROVE  Untouched(seen, ticked, s)
    BY <2>1, <2>4, TickSignals
  <2>5. Shaped(ticked) /\ ticked.scenario = engine.scenario
    BY <2>1, ApplySignalPhase DEF advance_signal_controllers, Changes, Members
  <2>6. evaluated = r \/ \E a \in ticked.scenario.actions : evaluated = apply(r, a)
    BY <2>2 DEF Evaluations
  <2> HIDE DEF ticked, entered
  <2>7. /\ Shaped(r) /\ r.signal_controllers = ticked.signal_controllers
        /\ r.controller_phases = ticked.controller_phases /\ r.signal_states = ticked.signal_states
        /\ Cyclic(r)
    BY <2>3, <2>5, RepollFacts
  <2>8. Wired(ticked) /\ Wired(r) /\ Wired(engine')
    <3>1. Wired(seen)
      BY <2>1, SameControllers, StaysWired
    <3>2. Wired(ticked)
      BY <2>3, <3>1, StaysWired
    <3>3. Wired(evaluated)
      BY <2>2, <2>3, <2>5, <3>2, EvaluationWired
    <3> HIDE DEF r
    <3> QED
      BY <2>2, <2>7, <3>2, <3>3, SameControllers, StaysWired
  <2> HIDE DEF r
  <2>9. ASSUME NEW s \in DOMAIN engine.signal_states,
               engine.signal_states[s] # engine'.signal_states[s],
               engine'.signal_controllers = engine.signal_controllers
        PROVE  Accounted(engine, engine', s)
    <3>1. ASSUME evaluated.signal_controllers = r.signal_controllers
          PROVE  Untouched(engine, r, s)
      <4>1. entered = {}
        <5>1. \A n : Clock(ticked, n) = Clock(seen, n)
          BY <2>1, <2>2, <2>7, <2>9, <3>1 DEF Clock
        <5> QED
          BY <2>3, <5>1
      <4>2. Untouched(seen, ticked, s)
        BY <2>4, <4>1
      <4> QED
        BY <2>1, <2>7, <4>2 DEF Untouched
    <3>2. evaluated.signal_states # r.signal_states \/ evaluated.signal_controllers # r.signal_controllers
      BY <2>2, <2>9, <3>1 DEF Untouched
    <3>3. PICK a \in engine.scenario.actions : evaluated = apply(r, a)
      BY <2>5, <2>6, <3>2
    <3>4. CASE a.kind # "phase"
      <4>1. /\ evaluated.signal_controllers = r.signal_controllers
            /\ evaluated.signal_states = IF a.kind = "signal" THEN With(r.signal_states, a.name, a.value)
                                         ELSE r.signal_states
        BY <2>7, <3>3, <3>4, ApplySignals
      <4>2. a.kind = "signal" /\ evaluated.signal_states = With(r.signal_states, a.name, a.value)
        BY <3>2, <4>1
      <4>3. s \in DOMAIN r.signal_states /\ r.signal_states[s] = engine.signal_states[s]
        BY <3>1, <4>1 DEF Untouched
      <4>4. evaluated.signal_states[s] = IF s = a.name THEN a.value ELSE r.signal_states[s]
        <5> DEFINE one == [y \in {a.name} |-> a.value]
        <5>1. DOMAIN one = {a.name} /\ one[a.name] = a.value
          OBVIOUS
        <5>2. evaluated.signal_states = Over(one, r.signal_states)
          BY <4>2 DEF With
        <5> HIDE DEF one
        <5> QED
          BY <4>3, <5>1, <5>2 DEF Over
      <4>5. a \in Forced /\ a.name = s /\ a.value = engine'.signal_states[s]
        BY <2>2, <2>9, <4>2, <4>3, <4>4 DEF Forced
      <4> QED
        BY <4>5 DEF Accounted
    <3>5. CASE a.kind = "phase"
      <4> DEFINE name == a.name
                 c == Clock(r, name)
                 f == RestartPhase(r, name, a.value)
      <4>1. evaluated = f
        BY <3>3, <3>5 DEF apply
      <4> HIDE DEF f
      <4>2. f # r
        BY <3>2, <4>1
      <4>3. /\ name \in DOMAIN r.signal_controllers /\ SamePhases(r, f)
            /\ \A m \in DOMAIN r.signal_controllers \ {name} : Clock(f, m) = Clock(r, m)
            /\ name \in DOMAIN f.controller_phases /\ f.controller_phases[name] = a.value
            /\ \E i \in DOMAIN c.phases :
                 /\ Clock(f, name).applied = i
                 /\ \A x : IF x \in DOMAIN c.phases[i].states
                           THEN x \in DOMAIN f.signal_states /\ f.signal_states[x] = c.phases[i].states[x]
                           ELSE Untouched(r, f, x)
        BY <2>7, <2>8, <4>2, RestartSignals DEF Wired, f
      <4>4. PICK i \in DOMAIN c.phases :
                 /\ Clock(f, name).applied = i
                 /\ \A x : IF x \in DOMAIN c.phases[i].states
                           THEN x \in DOMAIN f.signal_states /\ f.signal_states[x] = c.phases[i].states[x]
                           ELSE Untouched(r, f, x)
        BY <4>3
      <4>5. Clock(f, name).phases = c.phases /\ Agree(c.phases)
        BY <2>8, <4>3 DEF SamePhases, Wired
      <4>6. s \in DOMAIN c.phases[i].states
        <5>1. SUFFICES ASSUME s \notin DOMAIN c.phases[i].states
                       PROVE  FALSE
          OBVIOUS
        <5>2. entered \subseteq {name}
          <6>1. ASSUME NEW m \in entered, m # name
                PROVE  FALSE
            <7>1. m \in DOMAIN r.signal_controllers /\ Clock(f, m) = Clock(r, m)
              BY <2>3, <2>7, <4>3, <6>1 DEF SamePhases
            <7>2. Clock(f, m) = Clock(seen, m) /\ Clock(r, m) = Clock(ticked, m)
              BY <2>1, <2>2, <2>7, <2>9, <4>1 DEF Clock
            <7> QED
              BY <2>3, <6>1, <7>1, <7>2
          <6> QED
            BY <6>1
        <5>3. name \in entered => Clock(seen, name).phases = c.phases
          BY <2>3, <2>7 DEF SamePhases, Clock
        <5>4. \A p \in DOMAIN c.phases : s \notin DOMAIN c.phases[p].states
          BY <4>4, <4>5, <5>1 DEF Agree
        <5>5. Untouched(seen, ticked, s)
          <6> HIDE DEF c, name
          <6> QED
            BY <2>4, <5>2, <5>3, <5>4
        <5>6. Untouched(r, f, s)
          BY <4>4, <5>1
        <5> QED
          BY <2>1, <2>2, <2>7, <2>9, <4>1, <5>5, <5>6 DEF Untouched
      <4>7. engine'.signal_states[s] = c.phases[i].states[s]
        BY <2>2, <4>1, <4>4, <4>6
      <4>8. engine'.signal_states[s] \in PhaseStates(engine', s)
        <5> DEFINE k == engine'.signal_controllers[name]
        <5>1. k.phases = c.phases /\ k.applied = i
          BY <2>2, <4>1, <4>4, <4>5 DEF Clock
        <5>2. i # None
          <6>1. i \in Nat
            BY <2>7, <4>3, <4>4 DEF Cyclic, Controlled, Paced, TimedPhases
          <6> QED
            BY <6>1, ScenariosAssumption
        <5>3. name \in DOMAIN engine'.signal_controllers
          BY <2>2, <4>1, <4>3 DEF SamePhases
        <5>4. k.applied # None /\ s \in DOMAIN k.phases[k.applied].states
          BY <4>6, <5>1, <5>2
        <5>5. engine'.signal_states[s] = k.phases[k.applied].states[s]
          BY <4>7, <5>1
        <5> QED
          BY <5>3, <5>4, <5>5 DEF PhaseStates
      <4>9. a \in Restarts(engine.scenario) /\ a.value = Lookup(engine'.controller_phases, a.name)
        BY <2>2, <3>5, <4>1, <4>3 DEF Restarts, Lookup
      <4> QED
        BY <4>8, <4>9 DEF Accounted
    <3> QED
      BY <3>4, <3>5
  <2> QED
    BY <2>8, <2>9
<1> QED
  BY <1>1, <1>2

LEMMA HostCallsLeaveControllers ==
  ASSUME Shaped(engine), HostCalls
  PROVE  engine'.signal_controllers = engine.signal_controllers
BY DEF HostCalls, report_state, set_variable, set_user_defined_value, set_default_lane_width,
       set_date_time, set_traffic_signal_state, clear_diagnostics, set_gateway, Call, Shaped, Members

\* A call of the host writes a signal only to force it.
LEMMA HostForces ==
  ASSUME Shaped(engine), HostCalls, NEW s \in DOMAIN engine.signal_states,
         engine.signal_states[s] # engine'.signal_states[s]
  PROVE  Accounted(engine, engine', s)
<1>1. ASSUME NEW a \in UNION {scn.actions : scn \in Scenarios}, a.kind = "signal",
             set_traffic_signal_state(a.name, a.value)
      PROVE  Accounted(engine, engine', s)
  <2> DEFINE one == [y \in {a.name} |-> a.value]
  <2>1. DOMAIN one = {a.name} /\ one[a.name] = a.value
    OBVIOUS
  <2>2. engine'.signal_states = Over(one, engine.signal_states)
    BY <1>1 DEF set_traffic_signal_state, Call, Shaped, Members, With
  <2> HIDE DEF one
  <2>3. a.name = s /\ a.value = engine'.signal_states[s]
    BY <2>1, <2>2 DEF Over
  <2> QED
    BY <1>1, <2>3 DEF Accounted, Forced
<1>2. ASSUME engine'.signal_states = engine.signal_states
      PROVE  FALSE
  BY <1>2
<1>3. ASSUME NEW id, NEW v, report_state(id, v) PROVE FALSE
  BY <1>2, <1>3 DEF report_state, Call, Shaped, Members
<1>4. ASSUME NEW name, NEW v, set_variable(name, v) PROVE FALSE
  BY <1>2, <1>4 DEF set_variable, Call, Shaped, Members
<1>5. ASSUME NEW name, NEW v, set_user_defined_value(name, v) PROVE FALSE
  BY <1>2, <1>5 DEF set_user_defined_value, Call, Shaped, Members
<1>6. ASSUME NEW width, set_default_lane_width(width) PROVE FALSE
  BY <1>2, <1>6 DEF set_default_lane_width, Call, Shaped, Members
<1>7. ASSUME NEW epoch, set_date_time(epoch) PROVE FALSE
  BY <1>2, <1>7 DEF set_date_time, Call, Shaped, Members
<1>8. CASE clear_diagnostics
  BY <1>2, <1>8 DEF clear_diagnostics, Call, Shaped, Members
<1>9. ASSUME NEW attached, set_gateway(attached) PROVE FALSE
  BY <1>2, <1>9 DEF set_gateway
<1> QED
  BY <1>1, <1>3, <1>4, <1>5, <1>6, <1>7, <1>8, <1>9 DEF HostCalls

\* What runs is one of the scenarios, and its controllers agree with themselves.
SignalsInv ==
  /\ EngineInv
  /\ engine.initialized => engine.scenario \in Scenarios
  /\ Wired(engine)

LEMMA SignalsBegin == Init => SignalsInv
<1> SUFFICES ASSUME Init PROVE SignalsInv
  OBVIOUS
<1>1. EngineInv /\ engine = Fresh
  BY EngineBegins DEF Init
<1>2. Fresh.initialized = FALSE /\ Fresh.signal_controllers = <<>>
  BY DEF Fresh
<1> QED
  BY <1>1, <1>2 DEF SignalsInv, Wired

LEMMA SignalsGoOn ==
  ASSUME SameSignals
  PROVE  SignalsInv /\ [Next]_vars => SignalsInv'
<1> SUFFICES ASSUME SignalsInv, [Next]_vars
             PROVE  SignalsInv'
  OBVIOUS
<1>0. /\ EngineInv /\ EngineInv' /\ Standing(engine) /\ Cyclic(engine) /\ Shaped(engine)
      /\ Wired(engine)
      /\ engine.initialized => engine.scenario \in Scenarios
  BY EngineGoesOn DEF SignalsInv, EngineInv, Standing
<1>1. ASSUME NEW scn \in Scenarios, init(scn)
      PROVE  SignalsInv'
  <2>1. PICK o \in init_outcomes(engine, scn) : engine' = o.engine
    BY <1>1 DEF init
  <2>2. CASE engine.initialized
    <3>1. engine' = engine
      BY <2>1, <2>2 DEF init_outcomes
    <3> QED
      BY <1>0, <3>1 DEF SignalsInv
  <2>3. CASE ~ engine.initialized /\ has_errors(scn.defects)
    <3>1. engine' = [engine EXCEPT !.diagnostics = scn.defects]
      BY <2>1, <2>3 DEF init_outcomes
    <3>2. engine'.initialized = engine.initialized
          /\ engine'.signal_controllers = engine.signal_controllers
      BY <1>0, <3>1 DEF Shaped, Members
    <3>3. Wired(engine')
      BY <1>0, <3>2, SameControllers, StaysWired
    <3> QED
      BY <1>0, <2>3, <3>2, <3>3 DEF SignalsInv
  <2>4. CASE ~ engine.initialized /\ ~ has_errors(scn.defects)
    <3> DEFINE f == engine'
    <3>1. f \in Evaluations(Run(engine, scn))
      BY <2>1, <2>4 DEF init_outcomes
    <3>2. engine.now = 0 /\ Anchored(engine)
      BY <1>0, <2>4 DEF Standing, Forgotten, Members, Staged, Fresh
    <3>3. Len(scn.init) \in Nat /\ TimedControllers(scn.controllers)
      BY ScenariosTimed
    <3>4. \A i \in DOMAIN scn.controllers :
            scn.controllers[i].name \in Int /\ Agree(scn.controllers[i].phases)
      BY ScenariosAssumption DEF SameSignals, Range
    <3> HIDE DEF f
    <3>5. Wired(f)
      BY <1>0, <3>1, <3>2, <3>3, <3>4, RunWired
    <3>6. engine'.scenario = scn
      BY <1>0, <2>1, <2>4, <3>3, OutcomeStands
    <3> QED
      BY <1>0, <3>5, <3>6 DEF SignalsInv, f
  <2> QED
    BY <2>2, <2>3, <2>4
<1>2. ASSUME NEW dt \in Steps, step(dt)
      PROVE  SignalsInv'
  <2>1. dt \in Int
    BY StepsAssumption
  <2>2. CASE engine' = engine
    BY <1>0, <2>2 DEF SignalsInv
  <2>3. CASE engine' # engine
    <3>1. engine.initialized /\ engine'.scenario = engine.scenario
      BY <1>0, <1>2, <2>1, <2>3, StepStands
    <3>2. Wired(engine')
      BY <1>0, <1>2, <2>1, <3>1, StepAccounts
    <3> QED
      BY <1>0, <3>1, <3>2 DEF SignalsInv
  <2> QED
    BY <2>2, <2>3
<1>3. CASE close
  <2>1. CASE engine' = engine
    BY <1>0, <2>1 DEF SignalsInv
  <2>2. CASE engine' # engine
    <3>1. engine'.signal_controllers = <<>> /\ engine'.initialized = FALSE
      BY <1>3, <2>2 DEF close, Fresh
    <3>2. Wired(engine')
      BY <3>1 DEF Wired
    <3> QED
      BY <1>0, <3>1, <3>2 DEF SignalsInv
  <2> QED
    BY <2>1, <2>2
<1>4. CASE HostCalls
  <2>1. Stood(engine, engine')
    BY <1>0, <1>4, SettersStand DEF HostCalls
  <2>2. engine'.signal_controllers = engine.signal_controllers
    BY <1>0, <1>4, HostCallsLeaveControllers
  <2>3. Wired(engine')
    BY <1>0, <2>2, SameControllers, StaysWired
  <2> QED
    BY <1>0, <2>1, <2>3 DEF Stood, SignalsInv
<1>5. CASE UNCHANGED vars
  BY <1>0, <1>5 DEF vars, SignalsInv
<1> QED
  BY <1>1, <1>2, <1>3, <1>4, <1>5 DEF Next

\* The state of a signal that an action or the host has forced stands until a
\* controller enters a phase or an action restarts one, in every scenario in
\* which all phases of a controller set the same signals. Without that a phase
\* of no duration that is restarted over and over hides a phase that was entered
\* in between, and whose signals stay as it set them.
THEOREM ForcedStatesStand ==
  ASSUME SameSignals
  PROVE  Spec => ForcedStands
<1> DEFINE Stands ==
      \A s \in DOMAIN engine.signal_states \cap DOMAIN engine'.signal_states :
        engine.signal_states[s] # engine'.signal_states[s]
        /\ engine'.signal_controllers = engine.signal_controllers => Accounted(engine, engine', s)
<1>1. SignalsInv /\ [Next]_vars => [Stands]_vars
  <2> SUFFICES ASSUME SignalsInv, Next,
                      NEW s \in DOMAIN engine.signal_states \cap DOMAIN engine'.signal_states,
                      engine.signal_states[s] # engine'.signal_states[s],
                      engine'.signal_controllers = engine.signal_controllers
               PROVE  Accounted(engine, engine', s)
    OBVIOUS
  <2>0. /\ Standing(engine) /\ Cyclic(engine) /\ Wired(engine) /\ Shaped(engine)
        /\ engine.initialized => engine.scenario \in Scenarios
    BY DEF SignalsInv, EngineInv, Standing
  <2>1. ASSUME NEW scn \in Scenarios, init(scn)
        PROVE  FALSE
    <3>1. engine' = engine \/ ~ engine.initialized
      BY <2>1 DEF init, init_outcomes
    <3>2. ~ engine.initialized => engine.signal_states = <<>>
      BY <2>0 DEF Standing, Forgotten, Members, Staged, Fresh
    <3> QED
      BY <3>1, <3>2
  <2>2. ASSUME NEW dt \in Steps, step(dt)
        PROVE  Accounted(engine, engine', s)
    <3>1. engine.initialized
      BY <2>2 DEF step
    <3> QED
      BY <2>0, <2>2, <3>1, StepsAssumption, StepAccounts
  <2>3. CASE close
    <3>1. engine' = engine \/ engine'.signal_states = <<>>
      BY <2>3 DEF close, Fresh
    <3> QED
      BY <3>1
  <2>4. CASE HostCalls
    BY <2>0, <2>4, HostForces
  <2> QED
    BY <2>1, <2>2, <2>3, <2>4 DEF Next
<1>2. SignalsInv /\ [Next]_vars => SignalsInv'
  BY SignalsGoOn
<1>3. Spec => [][Stands]_vars
  BY <1>1, <1>2, SignalsBegin, PTL DEF Spec
<1>4. Stands <=>
        \A s \in DOMAIN engine.signal_states \cap DOMAIN engine'.signal_states :
          engine.signal_states[s] # engine'.signal_states[s]
          /\ engine'.signal_controllers = engine.signal_controllers
            => \/ \E a \in Forced : a.name = s /\ a.value = engine'.signal_states[s]
               \/ \E a \in Restarts(engine.scenario) :
                    engine'.signal_states[s] \in PhaseStates(engine', s)
                    /\ a.value = Lookup(engine'.controller_phases, a.name)
  BY DEF Accounted
<1> QED
  BY <1>3, <1>4, PTL DEF ForcedStands
=============================================================================
