----------------------------- MODULE Trigger -----------------------------
(***************************************************************************)
(* Triggers of the storyboard executor (evaluate_condition and             *)
(* evaluate_trigger in core/src/runtime/scheduler.cpp): OR of AND groups of *)
(* conditions, each with an edge and a delay and the history they need.     *)
(*                                                                          *)
(* A site is a trigger of one element.  In one step a site whose element    *)
(* is reachable is evaluated once; the storyboard's stop trigger (Twice) is *)
(* evaluated by step() and, when it did not fire, again by update() of the  *)
(* root at the same simulation time.                                        *)
(***************************************************************************)
EXTENDS Naturals, Sequences, FiniteSets

CONSTANTS
  Sites,      \* triggers of the storyboard
  Twice,      \* the storyboard's stop trigger, if it has one
  Conds,      \* the conditions of all triggers
  Groups,     \* [Sites -> set of sets of Conds]
  Edge,       \* [Conds -> Edges]
  Delay,      \* [Conds -> Nat]
  StepSizes,  \* the dt a host may pass
  MaxTime,    \* bound on the simulation time
  MaxSamples  \* bound on the evaluations of one condition

Edges == {"None", "Rising", "Falling", "RisingOrFalling"}
SiteConds(s) == UNION Groups[s]

ASSUME TriggerAssumption ==
  /\ Twice \subseteq Sites
  /\ Groups \in [Sites -> SUBSET ((SUBSET Conds) \ {{}})]
  /\ \A s, u \in Sites : s # u => SiteConds(s) \cap SiteConds(u) = {}
  /\ Edge \in [Conds -> Edges]
  /\ Delay \in [Conds -> Nat]
  /\ StepSizes \subseteq Nat
  /\ MaxTime \in Nat /\ MaxSamples \in Nat

VARIABLES
  now,     \* simulation time
  raw,     \* what each expression evaluates to at this time
  cond,    \* the ConditionState of each condition
  todo,    \* evaluations each site still has in this step
  answer,  \* what each site's trigger last evaluated to
  past     \* history: per condition, every evaluation since it was reset

vars == <<now, raw, cond, todo, answer, past>>

---------------------------------------------------------------------------
(* evaluate_condition().                                                   *)

\* The value after edge detection over the raw expression.
EdgeValue(c, r, value) ==
  CASE Edge[c] = "None" -> value
    [] Edge[c] = "Rising" -> r.hasPrevious /\ value /\ ~r.previousRaw
    [] Edge[c] = "Falling" -> r.hasPrevious /\ ~value /\ r.previousRaw
    [] OTHER -> r.hasPrevious /\ value # r.previousRaw

\* The index of the latest sample at or before t - delay, 0 if there is none
\* (the times are nondecreasing, as upper_bound needs); mutant: lower_bound.
SelectedBefore(c, h, t) == Cardinality({i \in DOMAIN h : h[i].time + Delay[c] < t})
Selected(c, h, t) == Cardinality({i \in DOMAIN h : h[i].time + Delay[c] <= t})

\* The history after a sample at time t.
Recorded(c, r, value, t) ==
  IF Delay[c] = 0 THEN r.history
  ELSE Append(r.history, [time |-> t, value |-> EdgeValue(c, r, value)])

\* Samples older than the selected one are dropped.
Pruned(c, h, t) ==
  IF Selected(c, h, t) = 0 THEN h ELSE SubSeq(h, Selected(c, h, t), Len(h))

ConditionValue(c, r, value, t) ==
  IF Delay[c] = 0 THEN EdgeValue(c, r, value)
  ELSE LET h == Recorded(c, r, value, t)
       IN  Selected(c, h, t) # 0 /\ h[Selected(c, h, t)].value

NextCondition(c, r, value, t) ==
  [hasPrevious |-> TRUE, previousRaw |-> value,
   history |-> Pruned(c, Recorded(c, r, value, t), t)]

\* reset_trigger(), and what make_trigger_state() builds.
FreshCondition == [hasPrevious |-> FALSE, previousRaw |-> FALSE, history |-> <<>>]

---------------------------------------------------------------------------
(* evaluate_trigger(): every condition is evaluated, whatever the others    *)
(* answer.                                                                  *)

GroupValue(g) == \A c \in g : ConditionValue(c, cond[c], raw[c], now)
TriggerValue(s) == \E g \in Groups[s] : GroupValue(g)

\* The conditions that advance when the trigger of s is evaluated; mutant: the
\* groups after one that holds are not evaluated.
AdvancedShortCircuit(s) ==
  IF TriggerValue(s) THEN CHOOSE g \in Groups[s] : GroupValue(g) ELSE SiteConds(s)
Advanced(s) == SiteConds(s)

---------------------------------------------------------------------------
Init ==
  /\ now = 0
  /\ raw = [c \in Conds |-> FALSE]
  /\ cond = [c \in Conds |-> FreshCondition]
  /\ todo = [s \in Sites |-> 0]
  /\ answer = [s \in Sites |-> FALSE]
  /\ past = [c \in Conds |-> <<>>]

Room == \A c \in Conds : Len(past[c]) + 1 < MaxSamples
Quiet == \A s \in Sites : todo[s] = 0

\* The host steps by dt: the expressions have new values, and each trigger is
\* evaluated if its element is reachable (a storyboard that stopped is not).
BeginStep ==
  /\ Quiet /\ Room
  /\ \E dt \in StepSizes : now + dt <= MaxTime /\ now' = now + dt
  /\ raw' \in [Conds -> BOOLEAN]
  /\ \E reachable \in SUBSET {s \in Sites : ~(s \in Twice /\ answer[s])} :
       /\ reachable # {}
       /\ \A s \in Twice : ~answer[s] => s \in reachable
       /\ todo' = [s \in Sites |-> IF s \notin reachable THEN 0
                                   ELSE IF s \in Twice THEN 2 ELSE 1]
  /\ UNCHANGED <<cond, answer, past>>

Evaluate(s) ==
  /\ todo[s] > 0
  /\ answer' = [answer EXCEPT ![s] = TriggerValue(s)]
  /\ cond' = [c \in Conds |-> IF c \in Advanced(s)
                                THEN NextCondition(c, cond[c], raw[c], now) ELSE cond[c]]
  /\ past' = [c \in Conds |->
                IF c \in SiteConds(s)
                  THEN Append(past[c], [time |-> now, raw |-> raw[c],
                                        again |-> s \in Twice /\ todo[s] = 1])
                  ELSE past[c]]
  /\ todo' = [todo EXCEPT ![s] = IF answer'[s] THEN 0 ELSE @ - 1]
  /\ UNCHANGED <<now, raw>>

\* reset_subtree() of a re-armed group: the triggers of its events start over.
ResetTrigger(s) ==
  /\ Quiet /\ s \notin Twice
  /\ \E c \in SiteConds(s) : past[c] # <<>>
  /\ cond' = [c \in Conds |-> IF c \in SiteConds(s) THEN FreshCondition ELSE cond[c]]
  /\ past' = [c \in Conds |-> IF c \in SiteConds(s) THEN <<>> ELSE past[c]]
  /\ answer' = [answer EXCEPT ![s] = FALSE]
  /\ UNCHANGED <<now, raw, todo>>

Next == BeginStep \/ \E s \in Sites : Evaluate(s) \/ ResetTrigger(s)

Spec == Init /\ [][Next]_vars

---------------------------------------------------------------------------
(* The reference: what the conditions mean over all their evaluations.      *)

\* The edge of the i-th evaluation in p, if those in I count: the first has none
\* (7.6.4).
Earlier(I, i) == {j \in I : j < i}
Latest(I) == CHOOSE j \in I : \A k \in I : k <= j
EdgeAt(c, p, I, i) ==
  LET compared == Earlier(I, i) # {}
      before == p[Latest(Earlier(I, i))].raw
  IN  CASE Edge[c] = "None" -> p[i].raw
        [] Edge[c] = "Rising" -> compared /\ p[i].raw /\ ~before
        [] Edge[c] = "Falling" -> compared /\ ~p[i].raw /\ before
        [] OTHER -> compared /\ p[i].raw # before

\* Sample and hold (7.6.3): the edge of the last evaluation at or before
\* t - delay.
Held(c, p, I, t) ==
  \E i \in I :
    /\ p[i].time + Delay[c] <= t
    /\ \A j \in I : j > i => p[j].time + Delay[c] > t
    /\ EdgeAt(c, p, I, i)

\* What the trigger of s answers at the evaluation just made, by the reference.
Answers(s, p, I) ==
  \E g \in Groups[s] : \A c \in g :
    p[c] # <<>> /\ Held(c, p[c], I[c], p[c][Len(p[c])].time)
Every(p) == [c \in Conds |-> DOMAIN p[c]]
Firsts(p) == [c \in Conds |-> {i \in DOMAIN p[c] : ~p[c][i].again}]

\* The trigger's answer is the OR of ANDs of edge-then-delay over the whole
\* past of every condition, although the code keeps one raw value and a pruned
\* history, and whichever group or condition decides the answer.
AnswerIsSampleAndHold ==
  [][\A s \in Sites : todo'[s] < todo[s] => (answer'[s] <=> Answers(s, past', Every(past')))]_vars

\* triggers.md and scheduler.h: C_D(t) = C(t - delay), each condition evaluated
\* once per evaluation.  The storyboard's stop trigger answers, in each step,
\* what it would if only the first evaluation of every step counted.
StopAnswersAsIfOnce ==
  \A s \in Twice :
    LET once == Answers(s, past, Firsts(past))
    IN  (answer[s] => once) /\ (todo[s] = 1 => ~once)
=============================================================================
