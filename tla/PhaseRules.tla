------------------------------ MODULE PhaseRules ------------------------------
(***************************************************************************)
(* packages/domain: what the phase datasets say of a candidate             *)
(* (phase-systems.ts, phase-engine.ts, adaptive-phase-detector.ts).        *)
(*                                                                         *)
(* Dataset[system] is the sequence of the phases of a phase system, by     *)
(* `sort': [code, entry, exit, next, allowed, range].  A criterion is      *)
(* <<type, key>>; what is known of a candidate is the set of the criteria  *)
(* it meets besides <<"always", "">>.  SlotRules[code] are the slots the   *)
(* five-phase detector asks for in a phase, [required, optional].          *)
(***************************************************************************)
EXTENDS Integers, FiniteSets, SequencesExt

CONSTANTS Dataset, Canonical, FivePhase, SlotRules, NoPhase, NoSlot

PhaseSystem == DOMAIN Dataset
Codes(sys)  == {Dataset[sys][i].code : i \in DOMAIN Dataset[sys]}
PhaseOf(sys, code) ==
  Dataset[sys][CHOOSE i \in DOMAIN Dataset[sys] : Dataset[sys][i].code = code]

\* PhaseCriterionEvaluator.evaluate, for a list of criteria.
Met(criteria, facts) == criteria \subseteq facts \cup {<<"always", "">>}

(***************************************************************************)
(* PhaseTransitionEngine.evaluate.  The next phase is proposed when the    *)
(* exit criteria are met, and allowed when its entry criteria are too,     *)
(* the current phase counting as completed.                                *)
(***************************************************************************)
EvaluatePhase(sys, code, facts) ==
  LET current  == PhaseOf(sys, code)
      proposed == IF Met(current.exit, facts) THEN current.next ELSE NoPhase
  IN  [system   |-> sys,
       current  |-> code,
       proposed |-> proposed,
       allowed  |-> /\ proposed \in Codes(sys) \cap current.allowed
                    /\ Met(PhaseOf(sys, proposed).entry,
                           facts \cup {<<"phase_completed", code>>})]

\* indexOf in CANONICAL_ORDER, which gives 0 (the code's -1) to a stranger.
CanonicalIndex(p) ==
  IF \E i \in DOMAIN Canonical : Canonical[i] = p
  THEN CHOOSE i \in DOMAIN Canonical : Canonical[i] = p ELSE 0

(***************************************************************************)
(* PhaseSystemMapper.switchSystem: the phase of another system at the same *)
(* canonical position, or the last one that does not start beyond it.      *)
(***************************************************************************)
SwitchSystem(from, to, code) ==
  LET position == Last(PhaseOf(from, code).range)
      exact    == {i \in DOMAIN Dataset[to] : Contains(Dataset[to][i].range, position)}
      behind   == {i \in DOMAIN Dataset[to] :
                     \E p \in ToSet(Dataset[to][i].range) :
                        CanonicalIndex(p) <= CanonicalIndex(position)}
  IN  Dataset[to][IF exact # {} THEN Min(exact)
                  ELSE IF behind # {} THEN Max(behind) ELSE 1].code

\* mapToDetectorPhase.
DetectorPhase(sys, code) ==
  IF sys = FivePhase THEN code ELSE SwitchSystem(sys, FivePhase, code)

(***************************************************************************)
(* PhaseDetector.evaluate, as the coach calls it: the current phase is     *)
(* known and no model suggests another.  It asks for the first required    *)
(* slot without a value, else the first optional one, else it asks the     *)
(* question of the phase.                                                  *)
(***************************************************************************)
DetectPhase(code, facts) ==
  LET Missing(slots) == SelectSeq(slots, LAMBDA s : <<"slot_present", s>> \notin facts)
      wanted == Missing(SlotRules[code].required) \o Missing(SlotRules[code].optional)
  IN  [phase    |-> code,
       missing  |-> ToSet(Missing(SlotRules[code].required)),
       nextSlot |-> IF wanted = <<>> THEN NoSlot ELSE Head(wanted)]
===============================================================================
