----------------------------- MODULE VersionOrder -----------------------------
(* The comparators of the scanner (specton-scanner, matcher), for the table   *)
(* of VersionMatch.                                                           *)
(*                                                                            *)
(* deb and rpm versions are sequences of characters, which their comparators  *)
(* walk.  apk and pypi versions are the records their parsers build, or       *)
(* Invalid where the parser refuses.  npm, cargo and go use the semver crate  *)
(* and are left out.                                                          *)
EXTENDS VersionMatch, SequencesExt

CONSTANTS DebVersions, RpmVersions,   \* sequences of Characters
          ApkVersions, PypiVersions,  \* parsed
          Invalid                     \* a string no parser of its ecosystem takes

(* The characters the two walks tell apart, in the order of ASCII.            *)
Characters == <<"+", "-", ".", "0", "1", "2", ":", "^", "a", "b", "~">>
Digits == {"0", "1", "2"}
Letters == {"a", "b"}
Ascii(c) == CHOOSE i \in 1..Len(Characters) : Characters[i] = c

ASSUME VersionsAssumption ==
    DebVersions \cup RpmVersions \subseteq Seq({Characters[i] : i \in 1..Len(Characters)})

----------------------------------------------------------------------------
Sign(n) == IF n < 0 THEN -1 ELSE IF n > 0 THEN 1 ELSE 0
Then(x, y) == IF x = 0 THEN y ELSE x

(* The first place where two rankings of 1..n differ decides.                 *)
FirstDifference(n, f(_), g(_)) ==
    LET D == {i \in 1..n : f(i) # g(i)}
    IN  IF D = {} THEN 0 ELSE Sign(f(Min(D)) - g(Min(D)))

At(s, i, default) == IF i \in 1..Len(s) THEN s[i] ELSE default
Lex(s, t) ==
    Then(FirstDifference(Min({Len(s), Len(t)}), LAMBDA i : s[i], LAMBDA i : t[i]),
         Sign(Len(s) - Len(t)))
Padded(s, t, zero) ==
    FirstDifference(Max({Len(s), Len(t)}), LAMBDA i : At(s, i, zero), LAMBDA i : At(t, i, zero))

(* The longest prefix in S, and the rest.                                     *)
Span(s, S) == CHOOSE n \in 0..Len(s) : /\ \A i \in 1..n : s[i] \in S
                                       /\ n < Len(s) => s[n + 1] \notin S
Taken(s, S) == SubSeq(s, 1, Span(s, S))
Rest(s, S) == SubSeq(s, Span(s, S) + 1, Len(s))
Codes(s) == [i \in 1..Len(s) |-> Ascii(s[i])]

(* Digit runs: leading zeros stripped, the longer is the larger.              *)
CompareDigit(a, b) ==
    LET p == Rest(a, {"0"})
        q == Rest(b, {"0"})
    IN  Then(Sign(Len(p) - Len(q)), Lex(Codes(p), Codes(q)))

----------------------------------------------------------------------------
(* deb *)

NonDigits == {Characters[i] : i \in 1..Len(Characters)} \ Digits

NondigitRank(s, i) ==
    IF i > Len(s) THEN 0
    ELSE IF s[i] = "~" THEN -1
    ELSE IF s[i] \in Letters THEN 256 + Ascii(s[i]) ELSE 512 + Ascii(s[i])
\* Mutant: the walk stops with the shorter run.
ComparePrefix(a, b) ==
    FirstDifference(Min({Len(a), Len(b)}), LAMBDA i : NondigitRank(a, i), LAMBDA i : NondigitRank(b, i))

CompareNonDigit(a, b) ==
    FirstDifference(Max({Len(a), Len(b)}), LAMBDA i : NondigitRank(a, i), LAMBDA i : NondigitRank(b, i))

RECURSIVE CompareComponent(_, _)
CompareComponent(a, b) ==
    IF a = <<>> /\ b = <<>> THEN 0
    ELSE LET p == Rest(a, NonDigits)
             q == Rest(b, NonDigits)
         IN  Then(CompareNonDigit(Taken(a, NonDigits), Taken(b, NonDigits)),
             Then(CompareDigit(Taken(p, Digits), Taken(q, Digits)),
                  CompareComponent(Rest(p, Digits), Rest(q, Digits))))

(* [epoch:]upstream[-revision]: the colon is the first and follows digits,    *)
(* the dash is the last.                                                      *)
ParseDeb(s) ==
    LET colon == SelectInSeq(s, LAMBDA c : c = ":")
        hasEpoch == colon > 1 /\ \A i \in 1..(colon - 1) : s[i] \in Digits
        rest == IF hasEpoch THEN SubSeq(s, colon + 1, Len(s)) ELSE s
        dash == SelectLastInSeq(rest, LAMBDA c : c = "-")
    IN  [epoch |-> IF hasEpoch THEN SubSeq(s, 1, colon - 1) ELSE <<>>,
         upstream |-> IF dash = 0 THEN rest ELSE SubSeq(rest, 1, dash - 1),
         revision |-> IF dash = 0 THEN <<>> ELSE SubSeq(rest, dash + 1, Len(rest))]

DebCompare(a, b) ==
    LET p == ParseDeb(a)
        q == ParseDeb(b)
    IN  IF p.upstream = <<>> \/ q.upstream = <<>> THEN Err
        ELSE Then(CompareDigit(p.epoch, q.epoch),
             Then(CompareComponent(p.upstream, q.upstream), CompareComponent(p.revision, q.revision)))

----------------------------------------------------------------------------
(* rpm *)

Markers == {"~", "^"}
Separators == NonDigits \ (Letters \cup Markers)
Starts(s, c) == s # <<>> /\ Head(s) = c

(* What is left when one side has ended.                                      *)
Leftover(a, b) ==
    IF Starts(a, "~") THEN -1
    ELSE IF Starts(b, "~") THEN 1
    ELSE Sign(Len(a) - Len(b))

CompareRun(p, q) ==
    IF (Head(p) \in Digits) # (Head(q) \in Digits) THEN (IF Head(p) \in Digits THEN 1 ELSE -1)
    ELSE IF Head(p) \in Digits THEN CompareDigit(Taken(p, Digits), Taken(q, Digits))
    ELSE Lex(Codes(Taken(p, Letters)), Codes(Taken(q, Letters)))

(* The tilde and then the caret are looked at before separators are skipped.  *)
RECURSIVE Rpmvercmp(_, _)
Rpmvercmp(a, b) ==
    IF Starts(a, "~") \/ Starts(b, "~")
    THEN IF ~Starts(b, "~") THEN -1 ELSE IF ~Starts(a, "~") THEN 1 ELSE Rpmvercmp(Tail(a), Tail(b))
    ELSE IF Starts(a, "^") \/ Starts(b, "^")
    THEN IF b = <<>> THEN 1
         ELSE IF a = <<>> THEN -1
         ELSE IF ~Starts(b, "^") THEN -1
         ELSE IF ~Starts(a, "^") THEN 1 ELSE Rpmvercmp(Tail(a), Tail(b))
    ELSE LET p == Rest(a, Separators)
             q == Rest(b, Separators)
             run(s) == IF Head(s) \in Digits THEN Digits ELSE Letters
         IN  IF p = <<>> \/ q = <<>> THEN Leftover(p, q)
             ELSE IF Head(p) \in Markers \/ Head(q) \in Markers THEN Rpmvercmp(p, q)
             ELSE Then(CompareRun(p, q), Rpmvercmp(Rest(p, run(p)), Rest(q, run(q))))

RpmCompare(a, b) == IF a = <<>> \/ b = <<>> THEN Err ELSE Rpmvercmp(a, b)

----------------------------------------------------------------------------
(* apk: [numerics, letter, suffixes, revision]; a suffix is <<rank, number>>, *)
(* no letter is 0.                                                            *)

ComparePairs(s, t) ==
    LET n == Max({Len(s), Len(t)})
        D == {i \in 1..n : At(s, i, <<0, 0>>) # At(t, i, <<0, 0>>)}
    IN  IF D = {} THEN 0 ELSE Lex(At(s, Min(D), <<0, 0>>), At(t, Min(D), <<0, 0>>))

ApkCompare(a, b) ==
    IF Invalid \in {a, b} THEN Err
    ELSE Then(Padded(a.numerics, b.numerics, 0),
         Then(Sign(a.letter - b.letter),
         Then(ComparePairs(a.suffixes, b.suffixes), Sign(a.revision - b.revision))))

----------------------------------------------------------------------------
(* pypi: [epoch, release, pre, post, dev]; pre is <<kind, number>>, post and  *)
(* dev are <<number>>, absent ones are <<>>.                                  *)

(* Trailing zeros of the release do not count, but the first number stays.    *)
Trimmed(r) == SubSeq(r, 1, Max({1} \cup {i \in 1..Len(r) : r[i] # 0}))
PreKey(v) ==
    IF v.pre = <<>> /\ v.post = <<>> /\ v.dev # <<>> THEN <<-1, 0, 0>>
    ELSE IF v.pre # <<>> THEN <<0>> \o v.pre ELSE <<1, 0, 0>>
PostKey(v) == IF v.post = <<>> THEN <<-1, 0>> ELSE <<1>> \o v.post
DevKey(v) == IF v.dev = <<>> THEN <<1, 0>> ELSE <<0>> \o v.dev

Pep440Compare(a, b) ==
    IF Invalid \in {a, b} THEN Err
    ELSE Then(Sign(a.epoch - b.epoch),
         Then(Lex(Trimmed(a.release), Trimmed(b.release)),
              Lex(PreKey(a) \o PostKey(a) \o DevKey(a), PreKey(b) \o PostKey(b) \o DevKey(b))))

----------------------------------------------------------------------------
(* for_ecosystem *)
VersionTable ==
    [e \in Ecosystems |->
        CASE e = "deb" -> DebVersions [] e = "rpm" -> RpmVersions
          [] e = "apk" -> ApkVersions [] e = "pypi" -> PypiVersions]
CompareVersions(e, a, b) ==
    CASE e = "deb" -> DebCompare(a, b) [] e = "rpm" -> RpmCompare(a, b)
      [] e = "apk" -> ApkCompare(a, b) [] e = "pypi" -> Pep440Compare(a, b)

CompareTable ==
    [e \in Ecosystems |->
        [a \in VersionTable[e] |-> [b \in VersionTable[e] |-> CompareVersions(e, a, b)]]]
Compared(e, a, b) == CompareTable[e][a][b]

(* An rpm version with a separator at its end or before a marker.             *)
Loose(v) == \E i \in 1..Len(v) : v[i] \in Separators /\ (i < Len(v) => v[i + 1] \in Markers)
FirmTable == [e \in Ecosystems |-> {v \in VersionTable[e] : e = "rpm" => ~Loose(v)}]
=============================================================================
