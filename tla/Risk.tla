--------------------------------- MODULE Risk ---------------------------------
(***************************************************************************)
(* The risk engine (app/risk/engine.py).  The subscores are whole numbers  *)
(* except the control failure rate, which is in hundredths, as the result. *)
(***************************************************************************)
EXTENDS Compliance

SeverityWeight == [CRITICAL |-> 25, HIGH |-> 15, MEDIUM |-> 7, LOW |-> 3]

\* An asset context has a criticality, or None for the default, and a flag of the user.
CriticalityScore(context) ==
  CASE context.criticality = "low" -> 25
    [] context.criticality = "high" -> 75
    [] context.criticality = "critical" -> 100
    [] OTHER -> 50

ExposureScore(ir, context) ==
  IF ir.exposed \/ context.internet_exposure
  THEN IF ir.telnet = TRUE \/ ir.http = TRUE THEN 100 ELSE 85
  ELSE 15

SumWeights(findings) == SumFunction([i \in DOMAIN findings |-> SeverityWeight[findings[i].severity]])

\* Mutants: the sum is not capped, and the mean is taken instead.
UncappedScore(findings) == SumWeights(findings)
MeanScore(findings) == IF findings = <<>> THEN 0 ELSE (4 * SumWeights(findings)) \div Len(findings)

VulnerabilityScore(findings) == LET total == SumWeights(findings) IN IF total > 100 THEN 100 ELSE total

ControlFailureScore(status) ==
  LET failed == Count(status, "FAIL")
      applicable == Count(status, "PASS") + failed
  IN  IF applicable = 0 THEN 5000 ELSE Round(10000 * failed, applicable)

\* The band of a score in hundredths: the bands are closed intervals of whole numbers,
\* and what lies in none of them is CRITICAL.
RiskBands == <<<<0, 3000, "LOW">>, <<3100, 6000, "MEDIUM">>,
               <<6100, 8000, "HIGH">>, <<8100, 10000, "CRITICAL">>>>
RiskLevel(score) ==
  LET band == SelectInSeq(RiskBands, LAMBDA b : b[1] <= score /\ score <= b[2])
  IN  IF band = 0 THEN "CRITICAL" ELSE RiskBands[band][3]

\* calculate_risk: weights 0.3, 0.2, 0.3 and 0.2.  The sum is at most 100, so the clip
\* changes nothing.
RiskScore(ir, context) ==
  LET status == Evaluate(ir)
  IN  Round(3000 * ExposureScore(ir, context) + 2000 * CriticalityScore(context)
            + 3000 * VulnerabilityScore(Findings(status)) + 20 * ControlFailureScore(status), 100)
===============================================================================
