----------------------------- MODULE VersionMatch -----------------------------
(* How the scanner's own vulnerability database decides that a package is     *)
(* affected (specton-scanner): normalise.rs and ghsa.rs turn the bounds of an *)
(* advisory into rows of affected_ranges, and specton.rs compares the         *)
(* installed version with the bounds of each row, in the order of the         *)
(* ecosystem's comparator.  Here the comparators are a parameter;             *)
(* VersionOrder has the ones of the crate.                                    *)
EXTENDS Integers, Sequences, FiniteSets, FiniteSetsExt

CONSTANTS Ecosystems,
          Versions,     \* ecosystem -> the versions that may be installed
          VersionCompare(_, _, _),  \* what compare of an ecosystem returns of two versions
          Firm,         \* ecosystem -> the versions its comparator is to put in order
          Zero,         \* "0", where an event introduces: OSV's version below all
          MaxEvents     \* bound: events of an advisory

(* std::cmp::Ordering is -1, 0 or 1; Err is a version that does not parse.    *)
Err == 2

(* compare parses both sides, and fails if it cannot parse one.               *)
ASSUME MatchAssumption ==
    /\ MaxEvents \in Nat
    /\ \A e \in Ecosystems : Firm[e] \subseteq Versions[e]
    /\ \A e \in Ecosystems : \A v, w \in Versions[e] :
          /\ VersionCompare(e, v, w) \in {-1, 0, 1, Err}
          /\ VersionCompare(e, v, w) = Err <=>
                 VersionCompare(e, v, v) = Err \/ VersionCompare(e, w, w) = Err

AtMost(e, u, v) == VersionCompare(e, u, v) \in {-1, 0}

(* The comparator puts the versions of S in a total order, up to equality.    *)
Consistent(e, S) ==
    /\ \A u, v \in S : /\ VersionCompare(e, u, v) \in {-1, 0, 1}
                       /\ VersionCompare(e, u, v) = -VersionCompare(e, v, u)
    /\ \A u, v, w \in S : AtMost(e, u, v) /\ AtMost(e, v, w) => AtMost(e, u, w)

(* The firm versions that parse; every comparator is to put its own in order. *)
FirmParsed(e) == {v \in Firm[e] : VersionCompare(e, v, v) # Err}
FirmIsOrdered == \A e \in Ecosystems : Consistent(e, FirmParsed(e))

----------------------------------------------------------------------------
(* The rows of an advisory.  An absent bound is the empty set.                *)

Bounds(introduced, fixed, last) == [introduced |-> introduced, fixed |-> fixed, last |-> last]

\* Mutant: a closed range stays open.
KeepsOpen(acc, ev) ==
    CASE ev.kind = "introduced" -> [acc EXCEPT !.open = {ev.v}]
      [] ev.kind = "fixed" -> [acc EXCEPT !.rows = @ \cup {Bounds(acc.open, {ev.v}, {})}]
      [] ev.kind = "last_affected" -> [acc EXCEPT !.rows = @ \cup {Bounds(acc.open, {}, {ev.v})}]
      [] ev.kind = "limit" -> [acc EXCEPT !.open = {}]

(* decompose, the walk of a range's events: introduced opens a row, fixed and *)
(* last_affected close it, limit forgets it.                                  *)
Walk(acc, ev) ==
    CASE ev.kind = "introduced" -> [acc EXCEPT !.open = {ev.v}]
      [] ev.kind = "fixed" -> [open |-> {}, rows |-> acc.rows \cup {Bounds(acc.open, {ev.v}, {})}]
      [] ev.kind = "last_affected" -> [open |-> {}, rows |-> acc.rows \cup {Bounds(acc.open, {}, {ev.v})}]
      [] ev.kind = "limit" -> [acc EXCEPT !.open = {}]
(* Its end: a row that is still open is one without an upper bound.           *)
Emitted(acc) == acc.rows \cup {Bounds({v}, {}, {}) : v \in acc.open}

(* The versions of an entry without ranges, each as a last_affected.          *)
RowsOfVersions(versions) == {Bounds({}, {}, {v}) : v \in versions}

(* parse_range of GHSA: of the parts that set a bound the last one wins; the  *)
(* first patched version is the upper bound where none is given.              *)
LastOf(parts, ops) ==
    LET at == {i \in 1..Len(parts) : parts[i].kind \in ops}
    IN  IF at = {} THEN {} ELSE {parts[Max(at)].v}
RowOfConstraints(parts, patched) ==
    Bounds(LastOf(parts, {">=", ">", "="}),
           IF LastOf(parts, {"<"}) = {} THEN patched ELSE LastOf(parts, {"<"}),
           LastOf(parts, {"<=", "="}))

----------------------------------------------------------------------------
VARIABLES eco,        \* the ecosystem of the advisory and of the packages
          advisory,   \* what the feed says: its form, and its events if it has such
          walk,       \* decompose after the events so far
          rows,       \* affected_ranges
          asked,      \* whether a scan has asked since
          reported    \* the installed versions query reported

matchVars == <<eco, advisory, walk, rows, asked, reported>>

NoWalk == [open |-> {}, rows |-> {}]
Parses(v) == v # Zero => VersionCompare(eco, v, v) # Err

MatchInit ==
    /\ eco \in Ecosystems
    /\ advisory = [form |-> "none", events |-> <<>>] /\ walk = NoWalk
    /\ rows = {} /\ asked = FALSE /\ reported = {}

Ingest(form, events, new) ==
    /\ advisory' = [form |-> form, events |-> events]
    /\ rows' = new /\ asked' = FALSE /\ reported' = {} /\ UNCHANGED eco

(* The events of one range, as OSV orders them: each closes the one before it *)
(* and is not below it.  Versions are compared with the neighbour only.       *)
Openers == {"introduced"}
Closers == {"fixed", "last_affected", "limit"}
Extends(events, ev) ==
    LET n == Len(events)
    IN  /\ Parses(ev.v)
        /\ ev.kind \in IF n = 0 \/ events[n].kind \in Closers THEN Openers ELSE Closers
        /\ ev.v = Zero => n = 0
        /\ n > 0 /\ events[n].v # Zero =>
               VersionCompare(eco, events[n].v, ev.v) \in
                   (IF ev.kind = "last_affected" THEN {-1, 0} ELSE {-1})

IngestEvent(ev) ==
    /\ advisory.form \in {"none", "ranges"} /\ Len(advisory.events) < MaxEvents
    /\ Extends(advisory.events, ev)
    /\ walk' = Walk(walk, ev)
    /\ Ingest("ranges", Append(advisory.events, ev), Emitted(walk'))

IngestVersions(v, w) ==
    /\ advisory.form = "none"
    /\ Ingest("versions", <<>>, RowsOfVersions({v, w})) /\ UNCHANGED walk

(* The parts of a range's text, and the first patched version if there is one.*)
IngestConstraints(parts, patched) ==
    /\ advisory.form = "none"
    /\ Ingest("constraints", <<>>, {RowOfConstraints(parts, patched)}) /\ UNCHANGED walk

(* in_range: a bound that does not parse excludes the version.                *)
InRange(v, row) ==
    /\ \A b \in row.introduced : b = Zero \/ VersionCompare(eco, v, b) \in {0, 1}
    /\ \A b \in row.fixed : VersionCompare(eco, v, b) = -1
    /\ \A b \in row.last : VersionCompare(eco, v, b) \in {-1, 0}

(* query, for every version that may be installed.                            *)
Query ==
    /\ rows # {} /\ asked' = TRUE
    /\ reported' = {v \in Versions[eco] : \E row \in rows : InRange(v, row)}
    /\ UNCHANGED <<eco, advisory, walk, rows>>

MatchNext ==
    \/ \E k \in Openers \cup Closers, v \in {Zero} \cup Versions[eco] : IngestEvent([kind |-> k, v |-> v])
    \/ \E v, w \in Versions[eco] : IngestVersions(v, w)
    \/ \E low \in {">", ">=", "="}, high \in {"<", "<=", "="}, v, w \in Versions[eco] :
           \/ IngestConstraints(<<[kind |-> low, v |-> v], [kind |-> high, v |-> w]>>, {})
           \/ IngestConstraints(<<[kind |-> low, v |-> v]>>, {w})
    \/ Query

MatchSpec == MatchInit /\ [][MatchNext]_matchVars

----------------------------------------------------------------------------
(* A version reaches an event from the event's version on, a last_affected    *)
(* only past it.                                                              *)
Reaches(v, ev) ==
    ev.v = Zero \/ VersionCompare(eco, v, ev.v) \in (IF ev.kind = "last_affected" THEN {1} ELSE {0, 1})
(* OSV's reading of the events: the last one the version has reached is an    *)
(* introduced.  A range that ends in a limit is not kept, and a version that  *)
(* does not parse is taken for affected by an open range from "0", where      *)
(* nothing is compared.                                                       *)
Affected(v) ==
    LET ev == advisory.events
        past == {i \in 1..Len(ev) : Reaches(v, ev[i])}
    IN  IF ~Parses(v) THEN ev = <<[kind |-> "introduced", v |-> Zero]>> ELSE
        /\ past # {}
        /\ ev[Max(past)].kind = "introduced"
        /\ Max(past) < Len(ev) => ev[Max(past) + 1].kind # "limit"

(* The comparator puts a version in order with those of the events.           *)
Comparable(v) ==
    LET ev == advisory.events
    IN  Consistent(eco, {v} \cup ({ev[i].v : i \in 1..Len(ev)} \ {Zero}))

(* query reports a version if and only if the events of the advisory cover    *)
(* it, for all events in ascending order: the rows decompose made of them,    *)
(* taken one by one, lose nothing and add nothing.  It is said of versions    *)
(* that the comparator puts in order with the bounds, which rpmvercmp does    *)
(* not always do, and of those it cannot parse.                               *)
ReportsAffected ==
    advisory.form = "ranges" /\ asked =>
        \A v \in Versions[eco] :
            (v \in reported <=> Affected(v)) \/ (Parses(v) /\ ~Comparable(v))

(* What one row reports has no holes in the comparator's own order: a version *)
(* at or between two reported ones is reported, so versions that compare      *)
(* equal are answered alike.                                                  *)
NoHoles ==
    \A row \in rows :
        rows = {row} /\ row.introduced \subseteq Firm[eco] \cup {Zero}
                     /\ row.fixed \cup row.last \subseteq Firm[eco] =>
            LET hit == reported \cap Firm[eco]
            IN  \A v \in Firm[eco] \ hit :
                    ~((\E u \in hit : AtMost(eco, u, v)) /\ (\E w \in hit : AtMost(eco, v, w)))

(* The comparator is a total order up to equality, and no row leaves a hole   *)
(* in it.  The order does not depend on the state: it is looked at where an   *)
(* open range from "0" reports every version.  rpmvercmp is one on versions   *)
(* without loose separators (1 = 1. and 1 < 1^ < 1.), though rpm.rs lets      *)
(* separators take no part in it.                                             *)
BetweenIsReported ==
    /\ asked /\ rows = {Bounds({Zero}, {}, {})} => Consistent(eco, FirmParsed(eco))
    /\ NoHoles
=============================================================================
