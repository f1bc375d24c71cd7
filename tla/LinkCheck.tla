----------------------------- MODULE LinkCheck -----------------------------
(***************************************************************************)
(* What apps/linkchecker finds on a page: the links it extracts and its    *)
(* verdict on each of them (services.py).  A page is the sequence of its   *)
(* elements that may carry a URL; the network answers every URL.           *)
(***************************************************************************)
EXTENDS Integers, FiniteSets, Sequences, SequencesExt

CONSTANTS
    Urls,            \* http(s) targets, resolved and without their fragment
    MAX_REDIRECTS,   \* redirects that one check follows
    max_links        \* links of a page that one report checks

ASSUME LinkAssumption == Urls # {} /\ MAX_REDIRECTS \in Nat /\ max_links \in Nat

\* "skip": nothing there, mailto:, tel:, javascript:, data:, a bare fragment or
\* a scheme that is not http(s).
Element == [tag : {"a", "img", "script", "link"}, href : Urls \cup {"skip"},
            fragment : BOOLEAN]

\* A raw target, as the parser resolves it.
Target(element) == <<element.href, element.fragment>>

DropFragment(target) == <<target[1], FALSE>>

\* One element of soup.find_all(tag): its destination, unless it is there.
AddTarget(found, element, tag) ==
    LET target == DropFragment(Target(element)) IN
    IF /\ element.tag = tag
       /\ element.href # "skip"
       /\ target \notin Range(found)
    THEN Append(found, target) ELSE found

\* The loop over the elements of one tag, after what is found already.
FromTag(page, found, tag) ==
    LET after[k \in 0..Len(page)] == IF k = 0 THEN found
                                     ELSE AddTarget(after[k - 1], page[k], tag)
    IN  after[Len(page)]

\* extract_links: tag by tag in the order of LINK_SOURCES, each destination once.
ExtractLinks(page) ==
    LET links == FromTag(page, <<>>, "a")
        images == FromTag(page, links, "img")
        scripts == FromTag(page, images, "script")
    IN  FromTag(page, scripts, "link")

-----------------------------------------------------------------------------
\* Statuses by what the code tells apart; 405 to a HEAD asks for a GET.
Statuses == {"2xx", "3xx", "4xx", "5xx", "405", "other", "timeout", "refused"}

\* How a URL answers: to HEAD, to GET, and the Location header ("" for none).
Answer == [head : Statuses, get : Statuses, location : Urls \cup {""}]

Categories == {"healthy", "broken", "redirect", "timeout", "error"}

Classify(status, redirected) ==
    IF status \in {"4xx", "5xx", "405"} THEN "broken"
    ELSE IF redirected THEN "redirect"
    ELSE IF status = "2xx" THEN "healthy" ELSE "error"

Status(answer) == IF answer.head = "405" THEN answer.get ELSE answer.head

Redirects(answer) == Status(answer) = "3xx" /\ answer.location # ""

\* check_single_link: the verdict from the request number hop on, for hop in
\* range(MAX_REDIRECTS + 1); redirected is set with the first redirect.
CheckFrom(network) ==
    LET check[hop \in 0..MAX_REDIRECTS] ==
            [current \in Urls |->
                LET answer == network[current]
                    status == Status(answer)
                IN  CASE status = "timeout" -> "timeout"
                      [] status = "refused" -> "error"
                      [] OTHER -> IF Redirects(answer) /\ hop < MAX_REDIRECTS
                                  THEN check[hop + 1][answer.location]
                                  ELSE Classify(status, hop > 0 \/ Redirects(answer))]
    IN  check

CheckSingleLink(network, url) == CheckFrom(network)[0][url]

\* quick_link_check: the links beyond max_links are not looked at.
QuickLinkCheck(page, network) ==
    LET found == ExtractLinks(page)
        links == SubSeq(found, 1, IF Len(found) < max_links THEN Len(found) ELSE max_links)
        In(category) ==
            Cardinality({i \in DOMAIN links : CheckSingleLink(network, links[i][1]) = category})
    IN  [total_links |-> Len(links), healthy |-> In("healthy"), broken |-> In("broken"),
         redirects |-> In("redirect"), timeouts |-> In("timeout"), errors |-> In("error")]

-----------------------------------------------------------------------------
(* What the counts ought to be, said without the loops.                    *)

\* The URL that is asked after k redirects, and whether it comes to that.
Hop(network, url) ==
    LET h[k \in 0..MAX_REDIRECTS] == IF k = 0 THEN url ELSE network[h[k - 1]].location
    IN  h

Asked(network, url, k) == \A i \in 0..(k - 1) : Redirects(network[Hop(network, url)[i]])

\* A link is broken when some answer within MAX_REDIRECTS redirects says so.
IsBroken(network, url) ==
    \E k \in 0..MAX_REDIRECTS : /\ Asked(network, url, k)
                                /\ Status(network[Hop(network, url)[k]]) \in {"4xx", "5xx", "405"}

IsHealthy(network, url) == Status(network[url]) = "2xx"

Destinations(page) == {page[i].href : i \in DOMAIN page} \ {"skip"}
=============================================================================
