----------------------------- MODULE JourneyRules -----------------------------
(***************************************************************************)
(* packages/domain/src/journey-engine-2.ts, the rules that compute: the    *)
(* progress of a journey.                                                  *)
(*                                                                         *)
(* The rows that hang from a journey are one function, from the ids that   *)
(* exist to [kind, status, level, link]: level is the weight of a          *)
(* milestone or the severity of a blocker (1 low .. 4 critical), link the  *)
(* row it refers to.  Confidence is taken to be 1.                         *)
(***************************************************************************)
EXTENDS Integers, FiniteSets, Functions

\* Progress is numeric(5,4): a number of ten-thousandths.
One == 10000
NaN == -1

Clamp(x)       == IF x < 0 THEN 0 ELSE IF x > One THEN One ELSE x
Rounded(a, b)  == (2 * a + b) \div (2 * b)

SeverityWeight == <<500, 1000, 2000, 3500>>

OfKind(rows, kind)     == {c \in DOMAIN rows : rows[c].kind = kind}
InStatus(rows, S, set) == {c \in S : rows[c].status \in set}
Total(f)               == FoldFunction(+, 0, f)
Weight(rows, S)        == Total([c \in S |-> rows[c].level])

\* Blockers that hold the journey up, and by how much.
Blocking(rows) == InStatus(rows, OfKind(rows, "blocker"), {"open", "mitigating"})
Penalty(rows)  == Clamp(Total([b \in Blocking(rows) |-> SeverityWeight[rows[b].level]]))

(***************************************************************************)
(* 40% of the goals and 60% of the milestones, by weight, less the         *)
(* penalty; skipped milestones and cancelled goals do not count.  When     *)
(* every goal is cancelled the code divides zero by zero.                  *)
(***************************************************************************)
Progress(rows) ==
  LET goals      == OfKind(rows, "goal")
      wanted     == goals \ InStatus(rows, goals, {"cancelled"})
      reached    == InStatus(rows, goals, {"completed"})
      milestones == OfKind(rows, "milestone")
      counted    == milestones \ InStatus(rows, milestones, {"skipped"})
      total      == Weight(rows, counted)
      passed     == Weight(rows, InStatus(rows, counted, {"completed"}))
      \* of 10 * n * m ten-thousandths, n and m being 1 where nothing counts
      n          == IF goals = {} THEN 1 ELSE Cardinality(wanted)
      m          == IF total = 0 THEN 1 ELSE total
      share      == 4 * Cardinality(reached) * m + 6 * passed * n
  IN  IF n = 0 THEN NaN
      ELSE Clamp(Rounded(share * (One - Penalty(rows)), 10 * n * m))
=============================================================================
