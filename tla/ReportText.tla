----------------------------- MODULE ReportText -----------------------------
(***************************************************************************)
(* The texts of a combined report: what build_report_pdf looks up in the   *)
(* dictionaries of a language (full_report/labels.py, explanations.py,     *)
(* recommendations.py) for the results at hand.  A key that a dictionary   *)
(* lacks is a KeyError, and no PDF.                                        *)
(***************************************************************************)
EXTENDS ReportScore

Languages == {"en", "ar"}

\* LABELS["en"], LABELS["ar"]
EnglishLabels ==
    {"title", "subtitle", "url", "strategy", "generated", "ps_title", "gtm_title", "wave_title",
     "performance", "accessibility", "best_practices", "seo", "fcp", "lcp", "tbt", "cls", "si",
     "grade", "structure", "fully_loaded", "page_size", "requests", "wcag", "errors",
     "contrast", "alerts", "features", "structural", "metric", "result", "type", "issue",
     "count", "top_issues", "could_not_run", "not_included", "good", "warn", "poor", "na",
     "fails", "ratings_note", "overall", "overall_na", "footer", "ssl_title", "ssl_grade",
     "ssl_protocols", "ssl_cert_expiry", "ssl_trusted", "ssl_vulns", "days", "yes", "no",
     "none_found", "links_title", "links_total", "links_healthy", "links_broken",
     "links_redirects", "links_timeouts", "links_broken_list", "link_col", "status_col",
     "sd_title", "sd_total", "sd_valid", "sd_rich", "sd_errors", "sd_warnings", "sd_json_ld",
     "sd_microdata", "sd_rdfa", "sd_formats", "sd_types_found", "sd_type_col",
     "sd_format_col", "sd_valid_col", "sd_issues_list", "sd_field_col", "sd_none", "rec_title"}

\* Each dictionary is written out twice in the source, and so are its keys here.
ArabicLabels ==
    {"title", "subtitle", "url", "strategy", "generated", "ps_title", "gtm_title", "wave_title",
     "performance", "accessibility", "best_practices", "seo", "fcp", "lcp", "tbt", "cls", "si",
     "grade", "structure", "fully_loaded", "page_size", "requests", "wcag", "errors", "contrast",
     "alerts", "features", "structural", "metric", "result", "type", "issue", "count",
     "top_issues", "could_not_run", "not_included", "good", "warn", "poor", "na", "fails",
     "ratings_note", "overall", "overall_na", "footer", "ssl_title", "ssl_grade",
     "ssl_protocols", "ssl_cert_expiry", "ssl_trusted", "ssl_vulns", "days", "yes", "no",
     "none_found", "links_title", "links_total", "links_healthy", "links_broken",
     "links_redirects", "links_timeouts", "links_broken_list", "link_col", "status_col",
     "sd_title", "sd_total", "sd_valid", "sd_rich", "sd_errors", "sd_warnings", "sd_json_ld",
     "sd_microdata", "sd_rdfa", "sd_formats", "sd_types_found", "sd_type_col", "sd_format_col",
     "sd_valid_col", "sd_issues_list", "sd_field_col", "sd_none", "rec_title"}

LABELS == [lang \in Languages |-> IF lang = "ar" THEN ArabicLabels ELSE EnglishLabels]

\* EXPLANATIONS: a note for every row of the tables.
EnglishNotes ==
    {"performance", "accessibility", "best_practices", "seo", "fcp", "lcp", "tbt", "cls", "si",
     "grade", "structure", "fully_loaded", "page_size", "requests", "wcag", "errors",
     "contrast", "alerts", "features", "structural", "ssl_protocols", "ssl_cert_expiry",
     "ssl_trusted", "ssl_vulns", "links_total", "links_healthy", "links_broken",
     "links_redirects", "links_timeouts", "sd_total", "sd_valid", "sd_rich", "sd_errors",
     "sd_warnings", "sd_formats"}

ArabicNotes ==
    {"performance", "accessibility", "best_practices", "seo", "fcp", "lcp", "tbt", "cls", "si",
     "grade", "structure", "fully_loaded", "page_size", "requests", "wcag", "errors", "contrast",
     "alerts", "features", "structural", "ssl_protocols", "ssl_cert_expiry", "ssl_trusted",
     "ssl_vulns", "links_total", "links_healthy", "links_broken", "links_redirects",
     "links_timeouts", "sd_total", "sd_valid", "sd_rich", "sd_errors", "sd_warnings",
     "sd_formats"}

EXPLANATIONS == [lang \in Languages |-> IF lang = "ar" THEN ArabicNotes ELSE EnglishNotes]

\* REC: the advice, after its introduction.
EnglishAdvice ==
    {"intro", "perf_poor", "perf_mid", "lcp", "tbt", "cls", "seo", "bp", "a11y_errors",
     "a11y_contrast", "ssl_grade", "ssl_expiry", "ssl_vuln", "links", "sd_missing",
     "sd_errors", "sd_rich", "all_good"}

ArabicAdvice ==
    {"intro", "perf_poor", "perf_mid", "lcp", "tbt", "cls", "seo", "bp", "a11y_errors",
     "a11y_contrast", "ssl_grade", "ssl_expiry", "ssl_vuln", "links", "sd_missing", "sd_errors",
     "sd_rich", "all_good"}

REC == [lang \in Languages |-> IF lang = "ar" THEN ArabicAdvice ELSE EnglishAdvice]

-----------------------------------------------------------------------------
\* _rating: the word on a score card.
Rating(score) == IF score = None THEN "na"
                 ELSE IF score >= 90 THEN "good"
                 ELSE IF score >= 50 THEN "warn" ELSE "poor"

TitleOf(tool) == CASE tool = "pagespeed" -> "ps_title"
                   [] tool = "gtmetrix" -> "gtm_title"
                   [] tool = "accessibility" -> "wave_title"
                   [] tool = "ssl" -> "ssl_title"
                   [] tool = "links" -> "links_title"
                   [] tool = "structured_data" -> "sd_title"

\* The rows of the table of a tool: each has its label and its note.
RowsOf(tool) ==
    CASE tool = "pagespeed" -> {"performance", "accessibility", "best_practices", "seo",
                                "fcp", "lcp", "tbt", "cls", "si"}
      [] tool = "gtmetrix" -> {"grade", "performance", "structure", "lcp", "tbt",
                               "fully_loaded", "page_size", "requests"}
      [] tool = "accessibility" -> {"wcag", "errors", "contrast", "alerts", "features",
                                    "structural"}
      [] tool = "ssl" -> {"ssl_protocols", "ssl_cert_expiry", "ssl_trusted", "ssl_vulns"}
      [] tool = "links" -> {"links_total", "links_healthy", "links_broken",
                            "links_redirects", "links_timeouts"}
      [] tool = "structured_data" -> {"sd_total", "sd_valid", "sd_rich", "sd_errors",
                                      "sd_warnings", "sd_formats"}

\* What the values of the table and the lists below it may take from the labels.
ValuesOfTable(tool, d) ==
    CASE tool = "pagespeed" ->
             {Rating(s) : s \in {d.performance_score, d.accessibility_score,
                                 d.best_practices_score, d.seo_score}}
      [] tool = "gtmetrix" -> {}
      [] tool = "accessibility" -> {"fails", "top_issues", "type", "issue", "count"}
      [] tool = "ssl" ->
             {"ssl_grade"}
             \cup (IF d.certificate.outcome # "completed" THEN {}
                   ELSE {"days", IF d.certificate.trusted THEN "yes" ELSE "no"})
             \cup {k \in {"none_found"} : d.vulnerabilities = {}}
      [] tool = "links" -> {k \in {"links_broken_list", "status_col", "link_col"} : d.broken > 0}
      [] tool = "structured_data" ->
             {"sd_json_ld", "sd_microdata", "sd_rdfa", "sd_types_found", "sd_type_col",
              "sd_format_col", "sd_valid_col", "yes", "no", "sd_issues_list", "sd_field_col",
              "issue"}

\* The labels of one section, by what stands in it.
LabelsOf(report, tool) ==
    {TitleOf(tool)} \cup
    CASE Section(report, tool) = "skip note" -> {"not_included"}
      [] Section(report, tool) = "fail note" -> {"could_not_run"}
      [] Section(report, tool) = "none found" -> {"sd_none"}
      [] OTHER -> {"metric", "result"} \cup RowsOf(tool) \cup ValuesOfTable(tool, report[tool].data)

\* The cover, the heading of the advice and the box of the overall rating.
FrameLabels(report) ==
    {"title", "subtitle", "url", "strategy", "generated", "rec_title", "ratings_note", "footer",
     IF OverallScore(report) = None THEN "overall_na" ELSE "overall"}

\* No lookup of build_report_pdf fails.
EverythingIsSaid(report) ==
    \A lang \in Languages :
        /\ FrameLabels(report) \subseteq LABELS[lang]
        /\ {"intro"} \cup BuildRecommendations(report) \subseteq REC[lang]
        /\ \A t \in Tools :
              /\ LabelsOf(report, t) \subseteq LABELS[lang]
              /\ Section(report, t) = "tables" => RowsOf(t) \subseteq EXPLANATIONS[lang]
=============================================================================
