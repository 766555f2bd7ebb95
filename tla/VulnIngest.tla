------------------------------ MODULE VulnIngest ------------------------------
(* How the scanner fills its own vulnerability database (specton-scanner,     *)
(* vulndb/ingest): the OSV archive, downloaded as a whole when its ETag       *)
(* changed, and the NVD and GHSA feeds, paged from the last modification that *)
(* was seen.  A run is started by the scheduler's task of its source or by    *)
(* the admin endpoint.                                                        *)
(*                                                                            *)
(* An advisory is its id, under which all feeds store it (GHSA takes the CVE  *)
(* id where there is one), and its text is the time it was modified.  A       *)
(* record that is withdrawn or names no known ecosystem is one the feed does  *)
(* not have: normalise and normalise_ghsa skip it.  NVD's first window        *)
(* reaches back to all it holds.                                              *)
EXTENDS Integers, FiniteSets, FiniteSetsExt

CONSTANTS Advisories,       \* ids, numbered in the order NVD lists them
          Admins,           \* requests of the admin endpoint
          IngesterChoices,  \* the sets of sources that may be at work
          PageSize,         \* advisories on a page of NVD or GHSA
          Window,           \* MAX_WINDOW_DAYS, in units of the clock
          MaxReleases,      \* bound: changes of the feeds
          MaxIngestFaults   \* bound: failed fetches and writes, crashes

Sources == {"osv", "nvd", "ghsa"}
Runners == Sources \cup Admins     \* the scheduler's task of a source is its name

ASSUME IngestAssumption ==
    /\ Advisories \subseteq Nat /\ IsFiniteSet(Advisories)
    /\ IngesterChoices \subseteq SUBSET Sources
    /\ PageSize \in Nat \ {0} /\ Window \in Nat \ {0}
    /\ MaxReleases \in Nat /\ MaxIngestFaults \in Nat

VARIABLES
    ingesters,  \* the sources at work; a feed that never changes has no runs that matter
    feed,       \* source -> id -> when the advisory was last modified, 0 without one
    etag,       \* of the archive: the time of its last change
    released,   \* the clock: changes of the feeds so far
    cursor,     \* ingest_cursor: the etag of "osv", last_modified of the others
    written,    \* vulnerabilities: source -> id -> the version it wrote last
    ranges,     \* affected_ranges of each id: the <<source, version>> of the rows
    run,        \* what each runner does
    missed,     \* history: <<source, id, version>> a run passed over, until it is written
    ingestFaults

ingestVars ==
    <<ingesters, feed, etag, released, cursor, written, ranges, run, missed, ingestFaults>>

NoRun == [src |-> "none", pc |-> "idle", etag |-> 0, body |-> [a \in Advisories |-> 0],
          todo |-> {}, from |-> 0, to |-> 0, now |-> 0, index |-> 0, after |-> <<0, 0>>, top |-> 0]

IngestInit ==
    /\ ingesters \in IngesterChoices
    /\ feed = [s \in Sources |-> [a \in Advisories |-> 0]]
    /\ etag = 0 /\ released = 0
    /\ cursor = [s \in Sources |-> 0]
    /\ written = [s \in Sources |-> [a \in Advisories |-> 0]]
    /\ ranges = [a \in Advisories |-> {}]
    /\ run = [r \in Runners |-> NoRun]
    /\ missed = {} /\ ingestFaults = 0

Texts(s, batch, version) == {<<s, a, version[a]>> : a \in batch}
Running(s) == {r \in Runners : run[r].src = s}

(* spawn_scheduler has a task for each ingester; trigger_ingest runs any of   *)
(* them.                                                                      *)
MayRun(r, s) == run[r] = NoRun /\ s \in ingesters /\ (r = s \/ r \in Admins)

----------------------------------------------------------------------------
(* What NVD has for a window, the place of each in its list, and the part of  *)
(* it that is still to be read.                                               *)
Results(q, f) == {a \in Advisories : f[a] # 0 /\ f[a] \in q.from..q.to}
Rank(a, W) == Cardinality({b \in W : b < a})
Unread(q, f) == {a \in Results(q, f) : Rank(a, Results(q, f)) >= q.index}

(* A feed adds, changes or withdraws advisories.  NVD counts its pages by     *)
(* index: one that leaves the pages already read moves the next ones up, and  *)
(* a run does not see the first of them.                                      *)
Publish(s, A, gone) ==
    LET new == [a \in Advisories |-> IF a \notin A THEN feed[s][a]
                                     ELSE IF gone THEN 0 ELSE released + 1]
        lost == UNION {Unread(run[r], feed[s]) \ Unread(run[r], new) : r \in Running("nvd")}
    IN  /\ released < MaxReleases /\ s \in ingesters
        /\ gone => \A a \in A : feed[s][a] # 0
        /\ released' = released + 1
        /\ feed' = [feed EXCEPT ![s] = new]
        /\ etag' = IF s = "osv" THEN released + 1 ELSE etag
        /\ missed' = missed \cup Texts("nvd", IF s = "nvd" THEN lost \ A ELSE {}, feed["nvd"])
        /\ UNCHANGED <<ingesters, cursor, written, ranges, run, ingestFaults>>

----------------------------------------------------------------------------
(* Writing *)

IngestFault == ingestFaults < MaxIngestFaults /\ ingestFaults' = ingestFaults + 1
Attempt(ok) == IF ok THEN UNCHANGED ingestFaults ELSE IngestFault

(* A batch of advisories upserted, those in bad not.  A run that was          *)
(* overtaken writes an older version.                                         *)
Upsert(s, batch, bad, version) ==
    LET older == {a \in batch \ bad : version[a] < written[s][a]}
    IN  /\ written' = [written EXCEPT ![s] =
               [a \in Advisories |-> IF a \in batch \ bad THEN version[a] ELSE @[a]]]
        /\ missed' = (missed \ Texts(s, batch, version))
                         \cup Texts(s, bad, version) \cup Texts(s, older, written[s])

(* write_advisory: one transaction per advisory replaces all rows of its id.  *)
WriteAdvisory(s, batch, bad, version) ==
    /\ ranges' = [a \in Advisories |-> IF a \in batch \ bad THEN {<<s, version[a]>>} ELSE ranges[a]]
    /\ Upsert(s, batch, bad, version)

(* write_advisory_metadata_only: no rows of affected_ranges.                  *)
WriteMetadata(s, batch, bad, version) == UNCHANGED ranges /\ Upsert(s, batch, bad, version)

UpdateCursor(s, value) == cursor' = [cursor EXCEPT ![s] = value]

----------------------------------------------------------------------------
(* OSV *)

(* The HEAD request, compared with the stored ETag.  The lock is released     *)
(* before it: a second run is not kept out.                                   *)
CheckEtag(r) ==
    /\ MayRun(r, "osv")
    /\ run' = [run EXCEPT ![r] = [NoRun EXCEPT
           !.src = "osv", !.pc = IF etag = cursor["osv"] THEN "skip" ELSE "download", !.etag = etag]]
    /\ UNCHANGED <<ingesters, feed, etag, released, cursor, written, ranges, missed, ingestFaults>>

(* The same ETag as before is stored again, over a newer one that another run *)
(* may have stored since.                                                     *)
SkipUnchanged(r) ==
    /\ run[r].pc = "skip"
    /\ UpdateCursor("osv", run[r].etag)
    /\ run' = [run EXCEPT ![r] = NoRun]
    /\ UNCHANGED <<ingesters, feed, etag, released, written, ranges, missed, ingestFaults>>

(* The archive as it is now, and the ETag of the HEAD request in the cursor;  *)
(* that this write fails is ignored.                                          *)
Download(r, ok) ==
    /\ run[r].pc = "download" /\ Attempt(ok)
    /\ run' = [run EXCEPT ![r].pc = "entries", ![r].body = feed["osv"],
                          ![r].todo = {a \in Advisories : feed["osv"][a] # 0}]
    /\ IF ok THEN UpdateCursor("osv", run[r].etag) ELSE UNCHANGED cursor
    /\ UNCHANGED <<ingesters, feed, etag, released, written, ranges, missed>>

(* One entry of the archive; a record that is not read or written is counted  *)
(* and left.                                                                  *)
IngestEntry(r, a, ok) ==
    /\ run[r].pc = "entries" /\ a \in run[r].todo
    /\ Attempt(ok)
    /\ WriteAdvisory("osv", {a}, IF ok THEN {} ELSE {a}, run[r].body)
    /\ run' = [run EXCEPT ![r].todo = @ \ {a}]
    /\ UNCHANGED <<ingesters, feed, etag, released, cursor>>

EndOsv(r) ==
    /\ run[r].pc = "entries" /\ run[r].todo = {}
    /\ UpdateCursor("osv", run[r].etag)
    /\ run' = [run EXCEPT ![r] = NoRun]
    /\ UNCHANGED <<ingesters, feed, etag, released, written, ranges, missed, ingestFaults>>

----------------------------------------------------------------------------
(* NVD: the lock is held throughout. *)

BeginNvd(r) ==
    /\ MayRun(r, "nvd") /\ Running("nvd") = {}
    /\ run' = [run EXCEPT ![r] = [NoRun EXCEPT
           !.src = "nvd", !.pc = "pages", !.from = cursor["nvd"], !.now = released,
           !.to = Min({cursor["nvd"] + Window, released}), !.top = cursor["nvd"]]]
    /\ UNCHANGED <<ingesters, feed, etag, released, cursor, written, ranges, missed, ingestFaults>>

PageOf(q) ==
    LET W == Results(q, feed["nvd"])
    IN  {a \in Unread(q, feed["nvd"]) : Rank(a, W) < q.index + PageSize}
MaxModified(top, batch, version) == Max({top} \cup {version[a] : a \in batch})

(* The next window, or the end of the run with its cursor.                    *)
NextWindow(r, top) ==
    IF run[r].to < run[r].now
    THEN /\ run' = [run EXCEPT ![r].from = run[r].to, ![r].index = 0, ![r].top = top,
                               ![r].to = Min({run[r].to + Window, run[r].now})]
         /\ UNCHANGED cursor
    ELSE run' = [run EXCEPT ![r] = NoRun] /\ UpdateCursor("nvd", top)

(* One page of ingest_window; max_modified is raised before the write.        *)
IngestPage(r, bad) ==
    LET q == run[r]
        page == PageOf(q)
        top == MaxModified(q.top, page, feed["nvd"])
    IN  /\ q.pc = "pages" /\ bad \subseteq page
        /\ Attempt(bad = {})
        /\ WriteMetadata("nvd", page, bad, feed["nvd"])
        /\ IF page = Unread(q, feed["nvd"])
           THEN NextWindow(r, top)
           ELSE /\ run' = [run EXCEPT ![r].index = @ + Cardinality(page), ![r].top = top]
                /\ UNCHANGED cursor
        /\ UNCHANGED <<ingesters, feed, etag, released>>

(* A page that cannot be fetched ends the run and keeps the progress so far,  *)
(* which is past some of what the rest of the window holds.                   *)
NvdFails(r) ==
    /\ run[r].pc = "pages" /\ IngestFault
    /\ UpdateCursor("nvd", run[r].top)
    /\ run' = [run EXCEPT ![r] = NoRun]
    /\ missed' = missed \cup Texts("nvd", Unread(run[r], feed["nvd"]), feed["nvd"])
    /\ UNCHANGED <<ingesters, feed, etag, released, written, ranges>>

----------------------------------------------------------------------------
(* GHSA: the lock is held throughout. *)

BeginGhsa(r) ==
    /\ MayRun(r, "ghsa") /\ Running("ghsa") = {}
    /\ run' = [run EXCEPT ![r] = [NoRun EXCEPT !.src = "ghsa", !.pc = "nodes",
                                               !.from = cursor["ghsa"], !.top = cursor["ghsa"]]]
    /\ UNCHANGED <<ingesters, feed, etag, released, cursor, written, ranges, missed, ingestFaults>>

(* orderBy UPDATED_AT ASC, from updatedSince and after the last page's end.   *)
Place(a) == <<feed["ghsa"][a], a>>
Earlier(p, q) == p[1] < q[1] \/ (p[1] = q[1] /\ p[2] < q[2])
Later(q) == {a \in Advisories : feed["ghsa"][a] # 0 /\ feed["ghsa"][a] >= q.from /\ Earlier(q.after, Place(a))}
\* Mutant: the newest advisories come first.
NewestFirst(q) ==
    {a \in Later(q) : Cardinality({b \in Later(q) : Earlier(Place(a), Place(b))}) < PageSize}

Nodes(q) ==
    {a \in Later(q) : Cardinality({b \in Later(q) : Earlier(Place(b), Place(a))}) < PageSize}

IngestNodes(r, bad) ==
    LET q == run[r]
        page == Nodes(q)
        top == MaxModified(q.top, page, feed["ghsa"])
    IN  /\ q.pc = "nodes" /\ bad \subseteq page
        /\ Attempt(bad = {})
        /\ WriteAdvisory("ghsa", page, bad, feed["ghsa"])
        /\ IF page = Later(q)
           THEN run' = [run EXCEPT ![r] = NoRun] /\ UpdateCursor("ghsa", top)
           ELSE /\ \E a \in page : /\ \A b \in page : ~Earlier(Place(a), Place(b))
                                   /\ run' = [run EXCEPT ![r].after = Place(a), ![r].top = top]
                /\ UNCHANGED cursor
        /\ UNCHANGED <<ingesters, feed, etag, released>>

GhsaFails(r) ==
    /\ run[r].pc = "nodes" /\ IngestFault
    /\ UpdateCursor("ghsa", run[r].top)
    /\ run' = [run EXCEPT ![r] = NoRun]
    /\ UNCHANGED <<ingesters, feed, etag, released, written, ranges, missed>>

----------------------------------------------------------------------------
(* The process dies (S is all runners), or an archive does not download or    *)
(* open: no cursor is written.  A run that had stored the new ETag leaves the *)
(* rest undone.                                                               *)
Stop(S) ==
    /\ \E r \in S : run[r] # NoRun
    /\ IngestFault
    /\ run' = [r \in Runners |-> IF r \in S THEN NoRun ELSE run[r]]
    /\ missed' = missed \cup UNION {Texts("osv", run[r].todo, run[r].body) : r \in S}
    /\ UNCHANGED <<ingesters, feed, etag, released, cursor, written, ranges>>

Begins(r) == CheckEtag(r) \/ BeginNvd(r) \/ BeginGhsa(r)
Proceeds(r) ==
    \/ SkipUnchanged(r) \/ Download(r, TRUE) \/ EndOsv(r) \/ \E a \in Advisories : IngestEntry(r, a, TRUE)
    \/ IngestPage(r, {}) \/ IngestNodes(r, {})
Breaks(r) ==
    \/ (run[r].src = "osv" /\ Stop({r})) \/ Download(r, FALSE) \/ NvdFails(r) \/ GhsaFails(r)
    \/ \E a \in Advisories : IngestEntry(r, a, FALSE) \/ IngestPage(r, {a}) \/ IngestNodes(r, {a})

IngestNext ==
    \/ \E s \in Sources, A \in (SUBSET Advisories) \ {{}}, gone \in BOOLEAN : Publish(s, A, gone)
    \/ \E r \in Runners : Begins(r) \/ Proceeds(r) \/ Breaks(r)
    \/ Stop(Runners)

IngestSpec == IngestInit /\ [][IngestNext]_ingestVars

----------------------------------------------------------------------------
(* The database has what the feed has, or the text is one of the exceptions.  *)
TakenIn(s, a) ==
    feed[s][a] = 0 \/ written[s][a] = feed[s][a] \/ <<s, a, feed[s][a]>> \in missed

(* What a cursor says was taken in: later runs do not ask for it again.       *)
Covered(s, a) ==
    IF s = "osv" THEN cursor[s] = etag /\ Running(s) = {} ELSE feed[s][a] < cursor[s]

(* An advisory the cursor is past is in the database as the feed has it,      *)
(* whatever was released, retried or cut short.  The exceptions are named: a  *)
(* failed write is not repeated (run counts it and goes on), the ETag is      *)
(* stored before the entries are (download), an OSV run that was overtaken    *)
(* writes what is old (run drops its lock), and NVD's pages are not in the    *)
(* order of the cursor.  GHSA's are: there only a failed write is lost.       *)
GapsAreExplained ==
    \A s \in Sources, a \in Advisories :
        Covered(s, a) => TakenIn(s, a)

(* writer.rs has a second way of writing "so we don't clobber ecosystem       *)
(* ranges produced by OSV or GHSA": the ranges a source wrote of an advisory  *)
(* are there until the same source replaces them.                             *)
RangesSurviveOtherFeeds ==
    \A s \in {"osv", "ghsa"}, a \in Advisories :
        written[s][a] # 0 => <<s, written[s][a]>> \in ranges[a]
=============================================================================
