------------------------------- MODULE Optimizer -------------------------------
(***************************************************************************)
(* The remediation optimizer (app/optimizer/profiles.py and aco.py): the   *)
(* orders the three strategies may produce and what is measured of them.   *)
(* There is one finding per control, so a finding is named by its control. *)
(***************************************************************************)
EXTENDS AttackGraph

CONSTANT MaxColony   \* bound: the number of findings up to which every order of the ants,
                     \* and every order of equals by their random ids, is looked at

ASSUME ColonyAssumption == MaxColony \in Nat

SeverityRank == [CRITICAL |-> 0, HIGH |-> 1, MEDIUM |-> 2, LOW |-> 3]
Cost == [authentication |-> 5, access_control |-> 6, management_plane |-> 3, logging |-> 2, hardening |-> 2]
Disruption == [authentication |-> 4, access_control |-> 7, management_plane |-> 5, logging |-> 1, hardening |-> 2]

\* Controls whose remediation takes a service off the attack graph.
CONTROL_TO_SERVICE ==
  [telnet_disabled |-> "telnet", http_management_disabled |-> "http",
   ssh_version_2 |-> "ssh-v1", snmp_secure |-> "snmp"]

DEPENDENCIES(id) ==
  IF id = "management_plane_not_internet_exposed"
  THEN {"telnet_disabled", "http_management_disabled"} ELSE {}

Ids(findings) == {findings[i].id : i \in DOMAIN findings}

\* build_profiles: a dependency counts when it is itself a finding.
DependsOn(findings, id) == DEPENDENCIES(id) \intersect Ids(findings)

RiskReduction(c) == SeverityWeight[c.severity]

\* Mutant: the root causes are not waited for.
Unplaced(findings, placed) == DOMAIN findings \ placed

\* Remediated so far, and what may be next: the positions of findings.
Candidates(findings, placed) ==
  {i \in DOMAIN findings \ placed :
     DependsOn(findings, findings[i].id) \subseteq {findings[j].id : j \in placed}}

Ratio(c) == (RiskReduction(c) * 60) \div Cost[c.category]   \* exact: 60 is a multiple of each cost

MostSevere(findings, cands) ==
  {i \in cands : \A j \in cands :
     SeverityRank[findings[i].severity] <= SeverityRank[findings[j].severity]}

\* A stable sort: the first of the best ratio.
BestRatio(findings, cands) ==
  LET best == {i \in cands : \A j \in cands : Ratio(findings[i]) >= Ratio(findings[j])}
  IN  {i \in best : \A j \in best : i <= j}

\* What a strategy picks among the candidates.  Equal severities are ordered by random
\* finding ids, and an ant may pick any candidate.
Pick(strategy, findings, cands) ==
  CASE strategy = "severity_only" -> MostSevere(findings, cands)
    [] strategy = "greedy_risk" -> BestRatio(findings, cands)
    [] strategy = "aco" -> cands

Narrow(findings, picks) == IF Len(findings) <= MaxColony THEN picks ELSE BestRatio(findings, picks)

\* The orders a strategy may produce: sequences of positions.
Orders(strategy, findings) ==
  LET rest[placed \in SUBSET DOMAIN findings] ==
        IF placed = DOMAIN findings THEN {<<>>}
        ELSE UNION {{<<i>> \o s : s \in rest[placed \union {i}]}
                    : i \in Narrow(findings, Pick(strategy, findings, Candidates(findings, placed)))}
  IN  rest[{}]

\* sequence[:budget]; a negative budget counts from the end.
Slice(seq, budget) ==
  SubSeq(seq, 1, IF budget >= 0 THEN (IF budget > Len(seq) THEN Len(seq) ELSE budget)
                 ELSE (IF Len(seq) + budget > 0 THEN Len(seq) + budget ELSE 0))

\* The sum over a sequence of positions; weight gives each position its number.
Total(weight, seq) == SumFunction([i \in DOMAIN seq |-> weight[seq[i]]])

Reductions(findings) == [i \in DOMAIN findings |-> RiskReduction(findings[i])]
Costs(findings) == [i \in DOMAIN findings |-> Cost[findings[i].category]]

PathsAffected(paths, id) ==
  IF id \in DOMAIN CONTROL_TO_SERVICE
  THEN Cardinality({p \in paths : CONTROL_TO_SERVICE[id] \in p.services}) ELSE 0

\* Twice n times the objective: time-weighted residual risk plus half the cost.
Objective(findings, seq) ==
  LET residual == [i \in DOMAIN seq |-> Total(Reductions(findings), SubSeq(seq, i, Len(seq)))]
  IN  2 * SumFunction(residual)
      + Len(seq) * Total(Costs(findings), seq)

\* evaluate_sequence, with the objective compare_strategies adds.
Evaluated(findings, paths, seq, budget) ==
  LET completed == Slice(seq, budget)
      affected == Total([i \in DOMAIN findings |-> PathsAffected(paths, findings[i].id)], completed)
  IN  [completed |-> completed,
       residual_risk |-> SumWeights(findings) - Total(Reductions(findings), completed),
       operational_cost |-> Total(Costs(findings), completed),
       disruption |-> Total([i \in DOMAIN findings |-> Disruption[findings[i].category]], completed),
       attack_paths_removed |-> IF affected > Cardinality(paths) THEN Cardinality(paths) ELSE affected,
       objective |-> Objective(findings, seq)]

DefaultBudget(findings) == LET third == Len(findings) \div 3 IN IF third = 0 THEN 1 ELSE third
===============================================================================
