---------------------------- MODULE SchemaRules ----------------------------
(***************************************************************************)
(* Validation of one structured-data object against the registry of types  *)
(* (validator/rules.py, schema_validator_service.py).                      *)
(*                                                                         *)
(* A value is what the rules can tell of it: whether it is missing, a      *)
(* string (free text, a URL, an ISO date), a number, an object or a list,  *)
(* and of an object or a list the entries, each with what it lacks.  The   *)
(* field "acceptedAnswer.text" is lacking when acceptedAnswer is an object *)
(* without text.                                                           *)
(***************************************************************************)
EXTENDS Integers, FiniteSets, Sequences, Sums

Strings == {"text", "url", "date"}

Scalars == Strings \cup {"number"}

\* An entry of a list, or an object: "dict" with its @type ("" for none).
Entry == [is : Scalars \cup {"dict"}, type : {"", "Question", "Answer"}, lacks : SUBSET STRING]

\* The severity and the place of an issue; index 0 is the object itself.
Issue(severity, field, index) == [severity |-> severity, field |-> field, index |-> index]

-----------------------------------------------------------------------------
(* rules.py.  A rule names the properties by their part in the rich result *)
(* and in the validation; no list_property is "".                          *)

NoRule == [required |-> {}, recommended |-> {}, types |-> <<>>, rich_result_required |-> {},
           list_property |-> "", list_item_type |-> "", list_item_required |-> {},
           object_property |-> "", object_recommended |-> {}]

\* A function on the properties whose type is checked, one pair for each.
TypesOf(pairs) == [p \in {pair[1] : pair \in pairs} |->
                      (CHOOSE pair \in pairs : pair[1] = p)[2]]

SupportedTypes == {"Organization", "Product", "Article", "BreadcrumbList", "FAQPage",
                   "LocalBusiness", "Event", "Review"}

OrganizationRule ==
    [NoRule EXCEPT !.required = {"name", "url"},
                   !.recommended = {"logo", "contactPoint"},
                   !.types = TypesOf({<<"url", "url">>, <<"logo", "image">>}),
                   !.rich_result_required = {"name", "url", "logo"}]

\* Mutant: offers is not recommended any more.
ProductRuleWithoutOffers ==
    [NoRule EXCEPT !.required = {"name", "image"},
                   !.recommended = {"description", "brand"},
                   !.types = TypesOf({<<"image", "image">>, <<"offers", "object">>}),
                   !.object_property = "offers",
                   !.object_recommended = {"price", "priceCurrency", "availability"},
                   !.rich_result_required = {"name", "image", "offers"}]

ProductRule ==
    [NoRule EXCEPT !.required = {"name", "image"},
                   !.recommended = {"offers", "description", "brand"},
                   !.types = TypesOf({<<"image", "image">>, <<"offers", "object">>}),
                   !.object_property = "offers",
                   !.object_recommended = {"price", "priceCurrency", "availability"},
                   !.rich_result_required = {"name", "image", "offers"}]

\* Article, NewsArticle and BlogPosting share it.
ArticleRule ==
    [NoRule EXCEPT !.required = {"headline", "author", "datePublished", "image"},
                   !.recommended = {"publisher", "dateModified"},
                   !.types = TypesOf({<<"headline", "text">>, <<"datePublished", "datetime">>,
                                      <<"image", "image">>, <<"author", "text_or_object">>}),
                   !.rich_result_required = {"headline", "image", "datePublished", "author"}]

BreadcrumbListRule ==
    [NoRule EXCEPT !.required = {"itemListElement"},
                   !.types = TypesOf({<<"itemListElement", "array">>}),
                   !.list_property = "itemListElement",
                   !.list_item_required = {"position", "name", "item"},
                   !.rich_result_required = {"itemListElement"}]

FAQPageRule ==
    [NoRule EXCEPT !.required = {"mainEntity"},
                   !.types = TypesOf({<<"mainEntity", "array">>}),
                   !.list_property = "mainEntity",
                   !.list_item_type = "Question",
                   !.list_item_required = {"name", "acceptedAnswer", "acceptedAnswer.text"},
                   !.rich_result_required = {"mainEntity"}]

LocalBusinessRule ==
    [NoRule EXCEPT !.required = {"name", "address", "telephone"},
                   !.recommended = {"openingHours", "priceRange", "geo"},
                   !.types = TypesOf({<<"address", "text_or_object">>, <<"telephone", "text">>}),
                   !.rich_result_required = {"name", "address", "telephone"}]

EventRule ==
    [NoRule EXCEPT !.required = {"name", "startDate", "location"},
                   !.recommended = {"endDate", "offers", "description"},
                   !.types = TypesOf({<<"startDate", "datetime">>,
                                      <<"location", "text_or_object">>}),
                   !.rich_result_required = {"name", "startDate", "location"}]

ReviewRule ==
    [NoRule EXCEPT !.required = {"itemReviewed", "reviewRating", "author"},
                   !.recommended = {"reviewBody", "datePublished"},
                   !.types = TypesOf({<<"reviewRating", "object">>,
                                      <<"author", "text_or_object">>}),
                   !.object_property = "reviewRating",
                   !.object_recommended = {"ratingValue"},
                   !.rich_result_required = {"itemReviewed", "reviewRating", "author"}]

\* get_rule of a supported type.
Rule(type) ==
    CASE type = "Organization" -> OrganizationRule
      [] type = "Product" -> ProductRule
      [] type = "Article" -> ArticleRule
      [] type = "BreadcrumbList" -> BreadcrumbListRule
      [] type = "FAQPage" -> FAQPageRule
      [] type = "LocalBusiness" -> LocalBusinessRule
      [] type = "Event" -> EventRule
      [] type = "Review" -> ReviewRule

-----------------------------------------------------------------------------
(* schema_validator_service.py.  data: its type ("" for none, "Unlisted"   *)
(* for one without a rule), whether it is the marker of a block that did   *)
(* not parse, and the values of its properties.                            *)

\* A value: "absent" (or effectively empty), a scalar, "dict" or "list"; of holds
\* the entries of the list, or the one object.  An empty object counts as absent
\* and is in of all the same, lacking everything.
Value(is, of) == [is |-> is, of |-> of]

\* _is_missing; a property that data does not name is not there.
IsMissing(data, prop) == prop \notin DOMAIN data.props \/ data.props[prop].is = "absent"

\* _type_ok
TypeOk(value, expected) ==
    LET All(kinds) == value.is = "list" /\ \A i \in DOMAIN value.of : value.of[i].is \in kinds IN
    CASE expected = "text" -> value.is \in Strings \/ All(Strings)
      [] expected = "url" -> value.is = "url"
      [] expected = "datetime" -> value.is = "date"
      [] expected = "image" -> value.is \in {"url", "dict"} \/ All({"url", "dict"})
      [] expected = "object" -> value.is = "dict" \/ All({"dict"})
      [] expected = "array" -> value.is = "list"
      [] expected = "text_or_object" -> value.is \in Strings \cup {"dict", "list"}

\* The elements of a list-valued property (_validate_list).
ListIssues(rule, data) ==
    LET prop == rule.list_property
        entries == IF IsMissing(data, prop) \/ data.props[prop].is # "list"
                   THEN <<>> ELSE data.props[prop].of
        Dicts == {i \in DOMAIN entries : entries[i].is = "dict"}
    IN  {Issue("error", prop, i) : i \in DOMAIN entries \ Dicts}
        \cup {Issue("warning", "@type", i) :
                 i \in {k \in Dicts : /\ rule.list_item_type # ""
                                      /\ entries[k].type \notin {"", rule.list_item_type}}}
        \cup UNION {{Issue("error", f, i) : f \in rule.list_item_required \cap entries[i].lacks} :
                       i \in Dicts}

\* What a nested object, or each object of a list, had better have; an object that
\* is empty is looked at as well (_validate_object_recommended).
ObjectIssues(rule, data) ==
    LET prop == rule.object_property
        candidates == IF prop \notin DOMAIN data.props THEN <<>> ELSE data.props[prop].of
    IN  UNION {{Issue("warning", f, i) : f \in rule.object_recommended \cap candidates[i].lacks} :
                  i \in {k \in DOMAIN candidates : candidates[k].is = "dict"}}

PropertyIssues(rule, data) ==
    {Issue("error", p, 0) : p \in {q \in rule.required : IsMissing(data, q)}}
    \cup {Issue("warning", p, 0) : p \in {q \in rule.recommended : IsMissing(data, q)}}
    \cup {Issue("error", p, 0) : p \in {q \in DOMAIN rule.types :
                                           /\ ~IsMissing(data, q)
                                           /\ ~TypeOk(data.props[q], rule.types[q])}}

Result(is_valid, rich, issues) == [is_valid |-> is_valid, rich |-> rich, issues |-> issues]

\* validate_schema
ValidateSchema(data) ==
    CASE data.parse_error -> Result(FALSE, FALSE, {Issue("error", "@type", 0)})
      [] ~data.parse_error /\ data.type = "" ->
             Result(FALSE, FALSE, {Issue("error", "@type", 0)})
      [] ~data.parse_error /\ data.type = "Unlisted" ->
             Result(TRUE, FALSE, {Issue("info", "@type", 0)})
      [] OTHER ->
             LET rule == Rule(data.type)
                 issues == PropertyIssues(rule, data) \cup ListIssues(rule, data)
                              \cup ObjectIssues(rule, data)
                 is_valid == \A i \in issues : i.severity # "error"
             IN  Result(is_valid,
                        is_valid /\ \A p \in rule.rich_result_required : ~IsMissing(data, p),
                        issues)

Count(result, severity) == Cardinality({i \in result.issues : i.severity = severity})

\* quick_schema_check over everything extracted from a page; process_validation
\* counts in the same way.
QuickSchemaCheck(extracted) ==
    LET results == [i \in DOMAIN extracted |-> ValidateSchema(extracted[i])]
        Sum(severity) == SumTo([i \in DOMAIN results |-> Count(results[i], severity)],
                               Len(extracted))
    IN  [total_schemas |-> Len(extracted),
         valid_schemas |-> Cardinality({i \in DOMAIN results : results[i].is_valid}),
         total_errors |-> Sum("error"),
         total_warnings |-> Sum("warning"),
         rich_result_eligible |-> Cardinality({i \in DOMAIN results : results[i].rich})]

-----------------------------------------------------------------------------
\* An object of a supported type that Google would not show as a rich result is
\* told why: an error or a warning names what is missing or wrong in it.
IneligibleIsExplained(data) ==
    LET result == ValidateSchema(data) IN
    ~result.rich /\ data.type \in SupportedTypes =>
        \E i \in result.issues : i.severity \in {"error", "warning"}
=============================================================================
