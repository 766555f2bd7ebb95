------------------------------- MODULE MCSupply -------------------------------
(* The supply chain for TLC: the scanner with several workers, the scanner    *)
(* with one worker behind the admission gate, rebuild events, the feeds of    *)
(* the scanner's vulnerability database and its answers.  They share no       *)
(* state, so a behaviour runs one of the five.                                *)
EXTENDS ScanGate, Rebuild, VulnIngest, VersionOrder

CONSTANT OneWorker   \* the worker that runs behind the gate

VARIABLE part
supplyVars == <<scanVars, rebVars, ingestVars, matchVars, part>>

(* Versions that differ in what the comparators look at, and one that none    *)
(* takes.                                                                     *)
MCDeb ==
    {<<"1">>, <<"0", "1">>, <<"1", "0">>, <<"1", "a">>, <<"1", "~">>, <<"1", ".">>,
     <<"1", "~", "~">>, <<"1", "~", "a">>, <<"1", "a", "~">>, <<"1", ".", "0">>,
     <<"1", "-", "1">>, <<"1", ":", "0">>, <<"0", ":", "1">>, <<"-", "1">>}
MCRpm ==
    {<<"1">>, <<"0", "1">>, <<"1", "0">>, <<"1", "a">>, <<"1", "~">>, <<"1", ".">>,
     <<"1", "^">>, <<"1", "~", "a">>, <<"1", "^", "a">>, <<"1", ".", "0">>,
     <<"1", "-", "^">>, <<"1", "-", "~">>, <<"a">>, <<>>}
MCApk ==
    [numerics : {<<1>>, <<1, 0>>}, letter : {0, 1},
     suffixes : {<<>>, <<<<-1, 1>>>>, <<<<5, 0>>, <<-1, 0>>>>}, revision : {0}]
    \cup [numerics : {<<1, 1>>}, letter : {0}, suffixes : {<<>>}, revision : {0, 1}]
    \cup {Invalid}
MCPypi ==
    [epoch : {0}, release : {<<1, 0>>}, pre : {<<>>, <<0, 1>>}, post : {<<>>, <<0>>}, dev : {<<>>, <<1>>}]
    \cup [epoch : {0, 1}, release : {<<1>>, <<0>>}, pre : {<<>>}, post : {<<>>}, dev : {<<>>}]
    \cup {Invalid}

Init ==
    /\ ScanInit /\ RebInit /\ IngestInit /\ MatchInit
    /\ part \in {"scanner", "gate", "rebuild", "ingest", "match"}
    /\ part \notin {"scanner", "gate"} => backend = "tokio"
    /\ part = "gate" => backend = "postgres"
    /\ part # "rebuild" => sub.cap = Max(Caps)
    /\ part # "ingest" => ingesters = {}
    /\ part # "match" => eco = "deb"

Next ==
    /\ UNCHANGED part
    /\ \/ /\ \/ part = "scanner" /\ ScannerNext(Workers)
             \/ part = "gate" /\ (ScannerNext({OneWorker}) \/ GateNext)
          /\ UNCHANGED <<rebVars, ingestVars, matchVars>>
       \/ part = "rebuild" /\ RebNext /\ UNCHANGED <<scanVars, ingestVars, matchVars>>
       \/ part = "ingest" /\ IngestNext /\ UNCHANGED <<scanVars, rebVars, matchVars>>
       \/ part = "match" /\ MatchNext /\ UNCHANGED <<scanVars, rebVars, ingestVars>>

Spec == Init /\ [][Next]_supplyVars /\ ScanFairness
=============================================================================
