----------------------------- MODULE CrawlTask -----------------------------
(***************************************************************************)
(* Link crawls (apps/linkchecker): the row of a CrawlJob, the LinkResult   *)
(* rows beside it and the task run_link_check.  A page has up to MaxLinks  *)
(* links, the cut at job.max_links included, and may change between two    *)
(* deliveries of one job.  What a single check answers is in LinkCheck.    *)
(***************************************************************************)
EXTENDS TaskLife

CONSTANTS
    MaxLinks,        \* bound: links of a page
    PROGRESS_EVERY   \* the task writes its progress every so many links

ASSUME CrawlAssumption == MaxLinks \in Nat /\ PROGRESS_EVERY \in Nat \ {0}

VARIABLES
    crawl,       \* job -> its committed CrawlJob row
    links,       \* job -> the LinkResult rows that name it
    progress     \* worker -> len(links) and checked, in the task's memory

crawlVars == <<crawl, links, progress>>

CrawlRow == [status : {"none", "pending", "crawling", "checking_links",
                       "completed", "failed"},
             total_links_found : Nat, total_checked : Nat]

NoProgress == [found |-> 0, checked |-> 0]

InitCrawl ==
    /\ crawl = [j \in Jobs |-> [status |-> "none", total_links_found |-> 0,
                                total_checked |-> 0]]
    /\ links = [j \in Jobs |-> 0]
    /\ progress = [w \in Workers |-> NoProgress]

CrawlTypeOK == /\ crawl \in [Jobs -> CrawlRow]
               /\ links \in [Jobs -> Nat]
               /\ progress \in [Workers -> [found : 0..MaxLinks, checked : 0..MaxLinks]]

Forget(w) == progress' = [progress EXCEPT ![w] = NoProgress]

SubmitCrawl(j) ==
    /\ CommitSubmission(j)
    /\ crawl' = [crawl EXCEPT ![j].status = "pending"]
    /\ UNCHANGED <<links, progress>>

StartCrawl(w, m) ==
    /\ Take(w, m, "crawling")
    /\ crawl' = [crawl EXCEPT ![m[1]].status = "crawling"]
    /\ UNCHANGED <<links, progress>>

\* robots.txt allows it, the page is there and n links are extracted.
SaveFound(w, n) ==
    /\ Working(w, "crawling")
    /\ progress' = [progress EXCEPT ![w].found = n]
    /\ crawl' = [crawl EXCEPT ![JobOf(w)].total_links_found = n,
                              ![JobOf(w)].status = "checking_links"]
    /\ Continue(w, "checking")
    /\ UNCHANGED links

\* A future completes; every PROGRESS_EVERY of them an UPDATE shows it.
CheckLink(w) ==
    LET checked == progress[w].checked + 1 IN
    /\ Working(w, "checking")
    /\ progress[w].checked < progress[w].found
    /\ progress' = [progress EXCEPT ![w].checked = checked]
    /\ crawl' = IF checked % PROGRESS_EVERY = 0
                THEN [crawl EXCEPT ![JobOf(w)].total_checked = checked]
                ELSE crawl
    /\ UNCHANGED <<taskVars, links>>

\* bulk_create, one transaction whatever its batches.
InsertResults(w) ==
    /\ Working(w, "checking")
    /\ progress[w].checked = progress[w].found
    /\ links' = [links EXCEPT ![JobOf(w)] = @ + progress[w].found]
    /\ Continue(w, "saving")
    /\ UNCHANGED <<crawl, progress>>

\* Mutant: the final save names the status only.
SaveCrawlStatusOnly(w) ==
    /\ Working(w, "saving")
    /\ crawl' = [crawl EXCEPT ![JobOf(w)].status = "completed"]
    /\ Continue(w, "finished")
    /\ Forget(w)
    /\ UNCHANGED links

\* job.save(): every column of the copy this delivery loaded and counted in.
SaveCrawl(w) ==
    /\ Working(w, "saving")
    /\ crawl' = [crawl EXCEPT ![JobOf(w)] =
                    [status |-> "completed", total_links_found |-> progress[w].found,
                     total_checked |-> progress[w].found]]
    /\ Continue(w, "finished")
    /\ Forget(w)
    /\ UNCHANGED links

CrawlPlaces == {"crawling", "checking", "saving"}

\* Anything in the try block raises: a disallowed or unreachable page, the
\* database, the soft time limit.  Only the outcome is written.
CrawlFails(w) ==
    /\ \E place \in CrawlPlaces : Working(w, place)
    /\ crawl' = [crawl EXCEPT ![JobOf(w)].status = "failed"]
    /\ Continue(w, "finished")
    /\ Forget(w)
    /\ UNCHANGED links

\* The database refuses that write as well.
CrawlRaises(w) ==
    /\ \E place \in CrawlPlaces : Working(w, place)
    /\ Raise(w)
    /\ Forget(w)
    /\ UNCHANGED <<crawl, links>>

CrawlStep(w) == \/ \E n \in 0..MaxLinks : SaveFound(w, n)
                \/ CheckLink(w) \/ InsertResults(w) \/ SaveCrawl(w)
                \/ CrawlFails(w) \/ CrawlRaises(w)

\* What the progress view shows, in tenths of a percent.
percent(j) == LET total == crawl[j].total_links_found IN
              IF total = 0 THEN 0
              ELSE (2000 * crawl[j].total_checked + total) \div (2 * total)

-----------------------------------------------------------------------------
\* A completed crawl counts the links it found, all of them checked, and each
\* of them has a LinkResult row: exactly one while no process died, since a job
\* delivered again inserts its results beside the ones of the delivery before
\* (linkchecker/tasks.py: bulk_create, then job.save).  Until then, on a first
\* delivery, the progress it shows never passes 100 percent.
CrawlCountsAgree ==
    \A j \in Jobs :
        /\ crawl[j].status = "completed" =>
              /\ crawl[j].total_checked = crawl[j].total_links_found
              /\ links[j] >= crawl[j].total_checked
              /\ crashes = 0 => links[j] = crawl[j].total_checked
        /\ crashes = 0 => percent(j) <= 1000
=============================================================================
