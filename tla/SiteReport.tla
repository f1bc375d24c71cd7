----------------------------- MODULE SiteReport -----------------------------
(***************************************************************************)
(* One combined report (full_report_service.py, run_full_report): the      *)
(* enabled tools run side by side on one site, each of them answers or     *)
(* raises, and the PDF is built of the results (the "running" state of     *)
(* FullReportTask).                                                        *)
(*                                                                         *)
(* The site is chosen once.  Each behaviour varies one subject, a part of  *)
(* the site or the mix of results, and leaves the others as in Plain: the  *)
(* tools share no data.                                                    *)
(***************************************************************************)
EXTENDS SslScan, LinkCheck, StructuredData, SchemaRules, ReportText

CONSTANTS
    Subjects,        \* which of the subjects below are varied
    MaxElements,     \* bound: elements of a page, entries of the link page
    MaxDefects       \* bound: commands of a scan that find something

ASSUME ReportAssumption ==
    /\ Subjects \subseteq {"ssl", "links", "pages", "markup", "json", "objects", "mix"}
    /\ MaxElements \in Nat \ {0}
    /\ MaxDefects \in Nat

VARIABLES
    site,            \* what the tools find, and which of them are enabled
    results,         \* tool -> its result, of the tools that have ended
    pdf              \* the report as it is built, None before

vars == <<site, results, pdf>>

-----------------------------------------------------------------------------
(* The sites.                                                              *)

AnswerOf(head) == [head |-> head, get |-> head, location |-> ""]

RedirectTo(url) == [head |-> "3xx", get |-> "3xx", location |-> url]

Link(url) == [tag |-> "a", href |-> url, fragment |-> FALSE]

CleanScan == [command |-> [c \in Commands |-> IF c \in {"TLS 1.2", "TLS 1.3"}
                                              THEN "found" ELSE "clean"],
              certificate |-> [outcome |-> "completed", days |-> 90, trusted |-> TRUE]]

Object(type, props) == [type |-> type, parse_error |-> FALSE, props |-> props]

Metrics(n, slow) == [performance_score |-> n, accessibility_score |-> n,
                     best_practices_score |-> n, seo_score |-> n, structure_score |-> n,
                     slow |-> slow]

Plain == [FULL_REPORT_TOOLS |-> Tools,
          reachable |-> Tools,
          pagespeed |-> Metrics(100, {}),
          gtmetrix |-> Metrics(100, {}),
          wave |-> [total_errors |-> 0, total_contrast_errors |-> 0],
          scan |-> CleanScan,
          page |-> <<>>,
          network |-> [u \in Urls |-> AnswerOf("2xx")],
          objects |-> <<>>,
          markup |-> [parent |-> <<>>, label |-> <<>>],
          json |-> [parent |-> <<>>, label |-> <<>>]]

Only(tool) == [Plain EXCEPT !.FULL_REPORT_TOOLS = {tool}]

\* At most MaxDefects commands find something, the others found nothing or did
\* not complete.
FoundOnly(found, rest) == [c \in Commands |-> IF c \in found THEN "found" ELSE rest]

Scans == {[command |-> FoundOnly(found, rest), certificate |-> certificate] :
             found \in UNION {kSubset(k, Commands) : k \in 0..MaxDefects},
             rest \in {"clean", "lacking"},
             certificate \in [outcome : {"completed", "lacking"}, days : {-1, 0, 29, 30},
                             trusted : BOOLEAN]}

Networks == [Urls -> {AnswerOf(s) : s \in Statuses \ {"405", "5xx"}}
                         \cup {RedirectTo(u) : u \in Urls}
                         \cup {[AnswerOf("2xx") EXCEPT !.head = "405"]}]

LinkPages == UNION {[1..n -> [tag : {"a", "img"}, href : Urls \cup {"skip"},
                              fragment : BOOLEAN]] : n \in 0..(MaxElements - 1)}

Trees1To(n, Labels) == UNION {Trees(k, Labels) : k \in 1..n}

\* The values a property may have, by how the rules treat it.
Whole == [is |-> "dict", type |-> "", lacks |-> {}]

Lacking(fields) == [Whole EXCEPT !.lacks = fields]

ListValues(rule) ==
    {Value("absent", <<>>), Value("dict", <<Whole>>)}
    \cup {Value("list", <<e, Whole>>) :
             e \in [is : {"text", "dict"}, type : {"", "Question", "Answer"},
                    lacks : SUBSET rule.list_item_required]}

ObjectValues(rule) ==
    {Value("absent", <<>>), Value("absent", <<Lacking(rule.object_recommended)>>),
     Value("text", <<>>)}
    \cup {Value(is, <<Lacking(fields)>>) :
             is \in {"dict", "list"}, fields \in SUBSET rule.object_recommended}

TypedValues ==
    {Value(is, <<>>) : is \in {"absent", "text", "url", "date", "number"}}
    \cup {Value("dict", <<Whole>>), Value("list", <<Whole, [Whole EXCEPT !.is = "text"]>>)}

ValuesOf(rule, prop) ==
    CASE prop = rule.list_property -> ListValues(rule)
      [] prop = rule.object_property -> ObjectValues(rule)
      [] prop \in DOMAIN rule.types /\ prop \notin {rule.list_property, rule.object_property} ->
             TypedValues
      [] OTHER -> {Value("absent", <<>>), Value("text", <<>>)}

\* At most two properties of an object differ from a good one.
GoodValue(rule, prop) ==
    IF prop \notin DOMAIN rule.types THEN Value("text", <<>>)
    ELSE CASE rule.types[prop] \in {"text", "text_or_object"} -> Value("text", <<>>)
           [] rule.types[prop] \in {"url", "image"} -> Value("url", <<>>)
           [] rule.types[prop] = "datetime" -> Value("date", <<>>)
           [] rule.types[prop] = "array" -> Value("list", <<Whole>>)
           [] rule.types[prop] = "object" -> Value("dict", <<Whole>>)

PropsOf(rule) == rule.required \cup rule.recommended \cup DOMAIN rule.types

ObjectsOf(type) ==
    LET rule == Rule(type)
        good == [p \in PropsOf(rule) |-> GoodValue(rule, p)]
    IN  UNION {{Object(type, [good EXCEPT ![p] = v, ![q] = w]) :
                   v \in ValuesOf(rule, p), w \in ValuesOf(rule, q)} :
                  p \in PropsOf(rule), q \in PropsOf(rule)}

ParseError == [Object("", <<>>) EXCEPT !.parse_error = TRUE]

Objects == (UNION {ObjectsOf(type) : type \in SupportedTypes})
           \cup {Object("", <<>>), Object("Unlisted", <<>>), ParseError}

SampleObject == Object("FAQPage", [p \in {"mainEntity"} |-> Value("list",
                    <<[is |-> "dict", type |-> "Question", lacks |-> {}]>>)])

\* The metrics of PageSpeed, GTmetrix and WAVE.
Speeds == {Metrics(n, slow) : n \in {None, 0, 49, 50, 89, 90}, slow \in SUBSET {"lcp", "tbt", "cls"}}

Structures == {[Metrics(100, {}) EXCEPT !.structure_score = n] : n \in {None, 0, 100}}

Waves == [total_errors : {0, 1, 40}, total_contrast_errors : {0, 11}]

Measured(p, g, w) == [Plain EXCEPT !.pagespeed = p, !.gtmetrix = g, !.wave = w]

MetricMixes == {Measured(p, g, w) : p \in Speeds, g \in Structures, w \in Waves}

\* Tools disabled or failing.
Partly(enabled, answering) ==
    [Plain EXCEPT !.FULL_REPORT_TOOLS = enabled, !.reachable = answering]

ToolMixes == {Partly(enabled, answering) :
                 enabled \in SUBSET {"pagespeed", "ssl", "links", "structured_data"},
                 answering \in SUBSET {"pagespeed", "ssl", "links"}}

SomeUrl == CHOOSE u \in Urls : TRUE

SitesOf(subject) ==
    CASE subject = "ssl" -> {[Only("ssl") EXCEPT !.scan = s] : s \in Scans}
      [] subject = "links" -> {[Only("links") EXCEPT !.page = <<Link(SomeUrl)>>, !.network = n] :
                                  n \in Networks}
      [] subject = "pages" -> {[Only("links") EXCEPT !.page = p] : p \in LinkPages}
      [] subject = "markup" -> {[Only("structured_data") EXCEPT !.markup = m] :
                                   m \in Trees1To(MaxElements, MarkupLabels)}
      [] subject = "json" -> {[Only("structured_data") EXCEPT !.json = j] :
                                 j \in {t \in Trees1To(MaxElements - 1, JsonLabels) : Rooted(t)}}
      [] subject = "objects" -> {[Only("structured_data") EXCEPT !.objects = <<o, SampleObject>>] :
                                    o \in Objects}
      [] subject = "mix" -> MetricMixes \cup ToolMixes

-----------------------------------------------------------------------------
\* JSON-LD, then microdata and RDFa, as one list of objects; those of the two
\* trees are of types without a rule.
Extracted ==
    site.objects
        \o [i \in 1..(Len(FlattenJsonLd(site.json)) + Cardinality(TopScopes(site.markup)))
              |-> Object("Unlisted", <<>>)]

\* What the call of a tool returns when it does not raise.
Answered(tool) ==
    CASE tool = "pagespeed" -> site.pagespeed
      [] tool = "gtmetrix" -> site.gtmetrix
      [] tool = "accessibility" -> site.wave
      [] tool = "ssl" -> ParseScan(site.scan)
      [] tool = "links" -> QuickLinkCheck(site.page, site.network)
      [] tool = "structured_data" -> QuickSchemaCheck(Extracted)

Ok(data) == [status |-> "ok", data |-> data]
Failed == [status |-> "failed", data |-> <<>>]
Skipped == [status |-> "skipped", data |-> <<>>]

Init == /\ \E subject \in Subjects : site \in SitesOf(subject)
        /\ results = <<>>
        /\ pdf = None

\* The results with that of one more tool.
With(tool, result) == [t \in DOMAIN results \cup {tool} |->
                          IF t = tool THEN result ELSE results[t]]

\* A future of the pool ends: _run_pagespeed and its five siblings.
RunTool(tool) ==
    /\ tool \in site.FULL_REPORT_TOOLS \ DOMAIN results
    /\ \/ /\ tool \in site.reachable
          /\ results' = With(tool, Ok(Answered(tool)))
       \/ /\ tool \notin site.reachable
          /\ results' = With(tool, Failed)
    /\ UNCHANGED <<site, pdf>>

\* All futures have ended; a tool that was not enabled is skipped.
Report == [t \in Tools |-> IF t \in DOMAIN results THEN results[t] ELSE Skipped]

BuildReportPdf ==
    /\ pdf = None
    /\ DOMAIN results = site.FULL_REPORT_TOOLS
    /\ pdf' = Pdf(Report)
    /\ UNCHANGED <<site, results>>

Built == pdf # None /\ UNCHANGED vars

Next == (\E t \in Tools : RunTool(t)) \/ BuildReportPdf \/ Built

Spec == Init /\ [][Next]_vars

-----------------------------------------------------------------------------
\* A score is a number from 0 to 100, whatever the tools found, and what a scan
\* finds more never raises the score of the SSL section (pdf_builder.py, _clamp,
\* _ssl_score; sslyze_scanner.py, the order of the rules of _synthesise_grade).
ScoresTell ==
    /\ pdf # None => /\ pdf.overall \in Score \cup {None}
                     /\ \A t \in Tools : SubScore(Report, t) \in Score \cup {None}
    /\ "ssl" \in DOMAIN results /\ results["ssl"].status = "ok" =>
          \A worse \in Worsenings(site.scan) :
              SslScore(ParseScan(worse)) <= SslScore(results["ssl"].data)

Advised == {"accessibility", "ssl", "links", "structured_data"}

\* Whatever pulls one of these sections below the threshold is named in the
\* advice; a tool that did not answer is neither scored nor advised on; every text
\* that is looked up is there in either language; and an object that is no rich
\* result is told why (recommendations.py and labels.py beside pdf_builder.py;
\* rules.py, rich_result_required beside required and recommended).
AdviceExplains ==
    /\ pdf # None =>
          /\ \A t \in Advised : Below(SubScore(Report, t), PASS_THRESHOLD) =>
                AdviceOn(Report, t) # {}
          /\ pdf.recommendations = {"all_good"} =>
                \A t \in Advised : ~Below(SubScore(Report, t), 95)
          /\ \A t \in Tools : pdf.section[t] # "tables" => SubScore(Report, t) = None
          /\ EverythingIsSaid(Report)
    /\ \A i \in DOMAIN site.objects : IneligibleIsExplained(site.objects[i])

\* Each thing on the page is counted once, and under the right heading: the
\* links and their verdicts, the items of the markup and the objects of JSON-LD;
\* the list of the latter holds each once, and an element of the markup is recorded
\* once under each name it lists, in each place its item is recorded
\* (linkchecker/services.py, extractor_service.py: the loops and recursions against
\* what they are meant to compute).
FindingsExact ==
    /\ "links" \in DOMAIN results /\ results["links"].status = "ok" =>
          LET d == results["links"].data
              targets == Destinations(site.page)
          IN  /\ d.total_links = IF Cardinality(targets) < max_links
                                 THEN Cardinality(targets) ELSE max_links
              /\ d.total_links = d.healthy + d.broken + d.redirects + d.timeouts + d.errors
              /\ d.total_links = Cardinality(targets) =>
                    /\ d.broken = Cardinality({u \in targets : IsBroken(site.network, u)})
                    /\ d.healthy = Cardinality({u \in targets : IsHealthy(site.network, u)})
    /\ "structured_data" \in DOMAIN results /\ results["structured_data"].status = "ok" =>
          LET d == results["structured_data"].data IN
          /\ d.total_schemas = Len(site.objects) + Cardinality(JsonObjects(site.json))
                                 + Cardinality(TopScopes(site.markup))
          /\ d.valid_schemas < d.total_schemas <=> d.total_errors > 0
          /\ ListsOnce(FlattenJsonLd(site.json), JsonObjects(site.json))
          /\ ExtractedAsNamed(site.markup)

\* "nested item; captured within its parent" (extractor_service.py): every item
\* of a page that lies in another one is in what extract_microdata returns.
NestedItemsCaptured == "structured_data" \in DOMAIN results => NestedCaptured(site.markup)
=============================================================================
