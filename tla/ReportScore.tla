---------------------------- MODULE ReportScore ----------------------------
(***************************************************************************)
(* What the combined report says of the results of its six tools: a score  *)
(* for each, the overall rating (full_report/services/pdf_builder.py) and  *)
(* the advice (full_report/recommendations.py).  A result is the status of *)
(* the tool and, when it is "ok", the data it parsed.                      *)
(***************************************************************************)
EXTENDS Integers, Sequences, FiniteSets, Sums, SslScan

CONSTANT None    \* no score

\* _TOOL_RUNNERS, _TOOL_SCORERS: in the order of the sections.
Tools == {"pagespeed", "gtmetrix", "accessibility", "ssl", "links", "structured_data"}

Score == 0..100

PASS_THRESHOLD == 70

\* Python's round of a / n: halves go to the even neighbour.
RoundedQuotient(a, n) ==
    LET q == a \div n
        r == a % n
    IN  IF 2 * r < n \/ (2 * r = n /\ q % 2 = 0) THEN q ELSE q + 1

\* _clamp of a value already rounded.
Clamp(n) == IF n < 0 THEN 0 ELSE IF n > 100 THEN 100 ELSE n

\* _mean_score: the values are a sequence, None among them.
MeanScore(values) ==
    LET nums == {i \in DOMAIN values : values[i] # None}
        sum == SumTo([i \in DOMAIN values |-> IF i \in nums THEN values[i] ELSE 0], Len(values))
    IN  IF nums = {} THEN None ELSE RoundedQuotient(sum, Cardinality(nums))

PagespeedScore(d) == MeanScore(<<d.performance_score, d.accessibility_score,
                                 d.best_practices_score, d.seo_score>>)

GtmetrixScore(d) == MeanScore(<<d.performance_score, d.structure_score>>)

AccessibilityScore(d) == Clamp(100 - 3 * d.total_errors - 2 * d.total_contrast_errors)

\* _SSL_GRADE_SCORE
GradeScore(grade) == CASE grade = "A+" -> 100
                       [] grade = "A" -> 95
                       [] grade = "B" -> 80
                       [] grade = "C" -> 65
                       [] grade = "D" -> 50
                       [] grade \in {"F", "T"} -> 30

SslScore(d) ==
    LET base == GradeScore(d.grade) IN
    IF base > 40 /\ (Untrusted(d.certificate) \/ d.vulnerabilities # {}) THEN 40 ELSE base

LinksScore(d) ==
    IF d.total_links = 0 THEN None
    ELSE Clamp(RoundedQuotient(100 * (d.total_links - d.broken), d.total_links))

StructuredDataScore(d) ==
    IF d.total_schemas = 0 THEN None
    ELSE Clamp(RoundedQuotient(100 * d.valid_schemas - 5 * d.total_errors * d.total_schemas,
                               d.total_schemas))

SubScore(report, tool) ==
    LET d == report[tool].data IN
    IF report[tool].status # "ok" THEN None
    ELSE CASE tool = "pagespeed" -> PagespeedScore(d)
           [] tool = "gtmetrix" -> GtmetrixScore(d)
           [] tool = "accessibility" -> AccessibilityScore(d)
           [] tool = "ssl" -> SslScore(d)
           [] tool = "links" -> LinksScore(d)
           [] tool = "structured_data" -> StructuredDataScore(d)

OverallScore(report) ==
    MeanScore(<<SubScore(report, "pagespeed"), SubScore(report, "gtmetrix"),
                SubScore(report, "accessibility"), SubScore(report, "ssl"),
                SubScore(report, "links"), SubScore(report, "structured_data")>>)

\* _summary_colors: the colour of the box that holds the overall rating.
SummaryColor(score) == IF score = None THEN "muted"
                       ELSE IF score >= PASS_THRESHOLD THEN "good" ELSE "poor"

-----------------------------------------------------------------------------
(* build_recommendations: the advice on each tool, by its key in REC.      *)

Below(score, bound) == score # None /\ score < bound

\* slow: the timings beyond their threshold, of lcp, tbt and cls.
PagespeedAdvice(d) ==
    {k \in {"perf_poor"} : Below(d.performance_score, 50)}
    \cup {k \in {"perf_mid"} : Below(d.performance_score, 90) /\ ~Below(d.performance_score, 50)}
    \cup d.slow
    \cup {k \in {"seo"} : Below(d.seo_score, 90)}
    \cup {k \in {"bp"} : Below(d.best_practices_score, 90)}

AccessibilityAdvice(d) == {k \in {"a11y_errors"} : d.total_errors > 0}
                              \cup {k \in {"a11y_contrast"} : d.total_contrast_errors > 0}

SslAdvice(d) == {k \in {"ssl_grade"} : d.grade \notin {"A+", "A"}}
                    \cup {k \in {"ssl_expiry"} : ExpiresWithin(d.certificate, 30)}
                    \cup {k \in {"ssl_vuln"} : d.vulnerabilities # {}}

LinksAdvice(d) == {k \in {"links"} : d.broken > 0}

StructuredDataAdvice(d) ==
    IF d.total_schemas = 0 THEN {"sd_missing"}
    ELSE {k \in {"sd_errors"} : d.total_errors > 0}
             \cup {k \in {"sd_rich"} : d.rich_result_eligible = 0}

\* The tools that are given advice on; GTmetrix never is.
AdviceOn(report, tool) ==
    LET d == report[tool].data IN
    IF report[tool].status # "ok" THEN {}
    ELSE CASE tool = "pagespeed" -> PagespeedAdvice(d)
           [] tool = "accessibility" -> AccessibilityAdvice(d)
           [] tool = "ssl" -> SslAdvice(d)
           [] tool = "links" -> LinksAdvice(d)
           [] tool = "structured_data" -> StructuredDataAdvice(d)
           [] tool = "gtmetrix" -> {}

BuildRecommendations(report) ==
    LET recs == UNION {AdviceOn(report, t) : t \in Tools} IN
    IF recs = {} THEN {"all_good"} ELSE recs

-----------------------------------------------------------------------------
\* build_report_pdf: what stands in the section of a tool.
Section(report, tool) ==
    CASE report[tool].status = "skipped" -> "skip note"
      [] report[tool].status = "failed" -> "fail note"
      [] OTHER -> IF tool = "structured_data" /\ report[tool].data.total_schemas = 0
                  THEN "none found" ELSE "tables"

Pdf(report) == [section |-> [t \in Tools |-> Section(report, t)],
                recommendations |-> BuildRecommendations(report),
                overall |-> OverallScore(report),
                color |-> SummaryColor(OverallScore(report))]
=============================================================================
