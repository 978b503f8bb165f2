-------------------------- MODULE ReleaseExperiment --------------------------
(***************************************************************************)
(* The release experiment: conversations of the graph with simulated       *)
(* buyers, run by several threads, judged, scored against the database and *)
(* recorded; the same cases on the old version in a process of its own; the*)
(* native trace of every graph run kept in a journal and mirrored to a     *)
(* remote service; the export of the rows with readback; the release       *)
(* status; and the replay of a saved experiment to the remote service      *)
(* (src/backend/evaluation/p5/runner.py, target.py, official.py, scoring.py*)
(* legacy_worker.py, legacy_scoring.py, trace_journal.py, replay_remote.py).*)
(*                                                                         *)
(* What the graph answers is a choice; a turn either meets the expectation *)
(* of its case or not.  The remote service may lose a span or a row.       *)
(***************************************************************************)
EXTENDS Naturals, FiniteSets

CONSTANTS Cases,
          Comparable,  \* cases the old version is run on as well
          Risky,       \* cases of a risk class
          Repeats,     \* repetitions of a case
          Turns,       \* turns of a conversation
          Threads,     \* options["concurrency"]
          Labelled,    \* the risky cases are as many, as independent and as well labelled as required
          Faults,      \* failures of a model, of the database or of the remote service
          Kills        \* times the experiment is killed

VARIABLES
  conv,      \* per item: its conversation
  lock,      \* the item whose row is being recorded
  report,    \* report of the running experiment
  disk,      \* report.json
  jsonl,     \* results.jsonl, append only
  journal,   \* native-traces.jsonl: graph runs begun and ended
  remote,    \* the remote service: graph runs known, datasets, rows exported by label
  main,      \* phase of the experiment
  replay,    \* the replay: phase and its own report
  faults, kills

run == <<conv, lock, report>>
vars == <<run, disk, jsonl, journal, remote, main, replay, faults, kills>>

Items == Cases \X Repeats
GraphRuns == Items \X (1 .. Turns)
Labels == {"graph", "graph-business", "legacy-business"}
None == "none"

\* acceptance: any failure fails, and anything short of a pass is not one.
Acceptance(statuses) ==
  IF "FAIL" \in statuses THEN "FAIL" ELSE IF statuses \subseteq {"PASS"} THEN "PASS" ELSE "INSUFFICIENT"

NoReport ==
  [rows |-> {}, legacy |-> {}, exports |-> {}, native |-> None, local |-> None, kept |-> {},
   release |-> "INSUFFICIENT", finished |-> FALSE, frozen |-> FALSE]

\* simulate: no turn yet, no card shown, nothing acknowledged.
Fresh == [pc |-> "todo", turn |-> 0, card |-> 0, ack |-> 0, met |-> TRUE,
          calls |-> 0, made |-> 0, tries |-> 0, error |-> FALSE, evidence |-> FALSE]

Init ==
  /\ conv = [i \in Items |-> Fresh] /\ lock = {}
  /\ report = NoReport /\ disk = NoReport /\ jsonl = {}
  /\ journal = [begun |-> {}, ended |-> {}]
  /\ remote = [begun |-> {}, ended |-> {}, data |-> [d \in {"full", "business"} |-> None],
               rows |-> [e \in {"run", "replay"} \X Labels |-> {}]]
  /\ main = "cases"
  /\ replay = [pc |-> "idle", report |-> NoReport, expected |-> {}]
  /\ faults = 0 /\ kills = 0

Faulty == faults < Faults /\ faults' = faults + 1
Healthy == UNCHANGED faults

-----------------------------------------------------------------------------
(* A conversation                                                          *)

\* A thread takes the next case; the fixture is made, or the row ends as an error.
Begin(i) ==
  /\ main = "cases" /\ conv[i].pc = "todo"
  /\ Cardinality({j \in Items : conv[j].pc \notin {"todo", "recorded"}}) < Threads
  /\ \/ Healthy /\ conv' = [conv EXCEPT ![i].pc = "talk"]
     \/ Faulty /\ conv' = [conv EXCEPT ![i].pc = "append", ![i].error = TRUE]
  /\ UNCHANGED <<lock, report, disk, jsonl, journal, remote, main, replay, kills>>

\* The buyer's model is asked for the next message; every call is recorded, failed or not.
Asked(c, error) == [c EXCEPT !.made = @ + 1, !.calls = @ + 1, !.error = @ \/ error]

\* The card is acknowledged once it is another one than the card shown before the turn.
Acked(c, shown, later) == IF later # c.card THEN later ELSE c.ack

\* GraphTarget.__call__: the graph runs, its reply shows the card of before or a new one,
\* the seller's answer may show another, and the last one is acknowledged.
Turn(i) ==
  LET c == conv[i] IN
  /\ main = "cases" /\ c.pc = "talk" /\ c.turn < Turns
  /\ journal' = [journal EXCEPT !.begun = @ \cup {<<i, c.turn + 1>>}]
  /\ \/ /\ Healthy
        /\ \E met \in BOOLEAN, shown \in {c.card, 2 * c.turn + 1} : \E later \in {shown, 2 * c.turn + 2} :
             conv' = [conv EXCEPT ![i] = [Asked(c, FALSE) EXCEPT
               !.turn = @ + 1, !.met = @ /\ met, !.card = later, !.ack = Acked(c, shown, later)]]
     \/ /\ Faulty
        /\ conv' = [conv EXCEPT ![i] = [Asked(c, TRUE) EXCEPT !.turn = @ + 1, !.pc = "snapshot", !.card = 0, !.ack = 0]]
  /\ UNCHANGED <<lock, report, disk, jsonl, remote, main, replay, kills>>

\* The simulation is over: all turns are taken, or the negotiation has ended.
Ended(i) ==
  /\ main = "cases" /\ conv[i].pc = "talk" /\ conv[i].turn > 0
  /\ conv' = [conv EXCEPT ![i].pc = "judge", ![i].card = 0, ![i].ack = 0]
  /\ UNCHANGED <<lock, report, disk, jsonl, journal, remote, main, replay, faults, kills>>

JudgeAnswered(c) == [c EXCEPT !.tries = @ + 1, !.made = @ + 1, !.calls = @ + 1, !.pc = "snapshot"]

\* judge: only an answer cut short is asked for again, once and with more room.
Judge(i) ==
  LET c == conv[i] IN
  /\ main = "cases" /\ c.pc = "judge"
  /\ \/ /\ Healthy
        /\ conv' = [conv EXCEPT ![i] = JudgeAnswered(c)]
     \/ /\ Faulty
        /\ conv' = [conv EXCEPT ![i] = IF c.tries = 0 THEN [Asked(c, FALSE) EXCEPT !.tries = 1] ELSE Asked([c EXCEPT !.pc = "snapshot"], TRUE)]
     \/ /\ Faulty
        /\ conv' = [conv EXCEPT ![i] = Asked([c EXCEPT !.pc = "snapshot"], TRUE)]
  /\ UNCHANGED <<lock, report, disk, jsonl, journal, remote, main, replay, kills>>

\* The database evidence is read and scored, also after an error.
Snapshot(i) ==
  /\ main = "cases" /\ conv[i].pc = "snapshot"
  /\ \/ Healthy /\ conv' = [conv EXCEPT ![i].pc = "append", ![i].evidence = TRUE]
     \/ Faulty /\ conv' = [conv EXCEPT ![i].pc = "append", ![i].error = TRUE]
  /\ UNCHANGED <<lock, report, disk, jsonl, journal, remote, main, replay, kills>>

\* score_case, and the row: a row that is not OK has not passed.
Row(i) ==
  LET c == conv[i] IN
  [item |-> i, ok |-> ~c.error, evidence |-> c.evidence, calls |-> c.calls,
   pass |-> c.evidence /\ ~c.error /\ c.met, risk |-> c.evidence /\ ~c.met, returned |-> FALSE]

\* With the lock: the row is appended to the report and to the journal of results ...
Append(i) ==
  /\ main = "cases" /\ conv[i].pc = "append" /\ lock = {}
  /\ lock' = {i}
  /\ report' = [report EXCEPT !.rows = @ \cup {Row(i)}]
  /\ jsonl' = jsonl \cup {Row(i)}
  /\ conv' = [conv EXCEPT ![i].pc = "save"]
  /\ UNCHANGED <<disk, journal, remote, main, replay, faults, kills>>

\* ... and the report is replaced as a whole.
Save(i) ==
  /\ main = "cases" /\ conv[i].pc = "save"
  /\ lock' = {}
  /\ disk' = report
  /\ conv' = [conv EXCEPT ![i].pc = "recorded"]
  /\ UNCHANGED <<report, jsonl, journal, remote, main, replay, faults, kills>>

-----------------------------------------------------------------------------
(* Traces                                                                  *)

\* What a store knows of the runs begun and ended, when nothing or one event was lost.
Known(begun, ended, all) ==
  \/ Healthy /\ begun = all /\ ended = all
  \/ Faulty /\ \E r \in all : ended = all \ {r} /\ begun \in {all, all \ {r}}

-----------------------------------------------------------------------------
(* The old version, and what follows the cases                             *)

Expected(rows) == {r \in GraphRuns : \E w \in rows : w.item = r[1] /\ w.evidence /\ conv[r[1]].turn >= r[2]}

SavedAt(phase, new) ==
  /\ main' = phase /\ report' = new /\ disk' = new
  /\ UNCHANGED <<conv, lock, jsonl>>

\* score_legacy: a conversation that ended in an error has not passed, whatever it reached.
LegacyPass(i, done, met) == i \in done /\ i \in met

\* The row a conversation on the old version leaves, also after an error.
LegacyRow(i, done, met) == [item |-> i, pass |-> LegacyPass(i, done, met), returned |-> FALSE]

\* run_legacy: all rows of the comparable cases, or none when its process fails.
Legacy ==
  /\ main = "cases" /\ \A i \in Items : conv[i].pc = "recorded"
  /\ \/ /\ Healthy
        /\ LET old == Comparable \X Repeats IN
           \E done, met \in SUBSET old :
             SavedAt("trace", [report EXCEPT !.legacy = {LegacyRow(i, done, met) : i \in old}])
     \/ Faulty /\ SavedAt("trace", report)
  /\ UNCHANGED <<journal, remote, replay, kills>>

\* journal_summary: every graph run of the rows is there and ended, and no span is open.
Complete(j, expected) == expected \subseteq j.ended /\ j.begun = j.ended

\* wait_for_all_tracers: the callbacks of the runs' ends are journaled (one of them may
\* have failed); the hash of the journal is kept.
Traced ==
  /\ main = "trace"
  /\ \E begun, ended \in SUBSET journal.begun :
       /\ Known(begun, ended, journal.begun)
       /\ journal' = [begun |-> begun, ended |-> ended]
       /\ SavedAt("native", [report EXCEPT !.kept = ended,
            !.local = IF Complete(journal', Expected(report.rows)) THEN "PASS" ELSE "INSUFFICIENT"])
  /\ UNCHANGED <<remote, replay, kills>>

\* query_native_traces: the graph runs the remote service knows of when it is asked; what
\* it has not received is not sent again.
Native ==
  /\ main = "native"
  /\ \E begun, ended \in SUBSET journal.begun :
       /\ Known(begun, ended, journal.begun)
       /\ remote' = [remote EXCEPT !.begun = begun, !.ended = ended]
       /\ SavedAt("graph", [report EXCEPT !.native = IF Expected(report.rows) \subseteq begun THEN "PASS" ELSE "INSUFFICIENT"])
  /\ UNCHANGED <<journal, replay, kills>>

-----------------------------------------------------------------------------
(* Export                                                                  *)

RowsOf(rep, label) ==
  CASE label = "graph" -> rep.rows
    [] label = "graph-business" -> {w \in rep.rows : w.item[1] \in Comparable}
    [] OTHER -> rep.legacy

Dataset(label) == IF label = "graph" THEN "full" ELSE "business"

\* safe_result: what is exported of a row.
Public(w) == [w EXCEPT !.returned = FALSE]

\* readback and the feedback: every row came back as it was sent, with its scores.
Readback(sent, rows, scored) == sent = {Public(w) : w \in rows} /\ scored

Marked(rep, label, status) ==
  LET mark(rows) == {IF w \in RowsOf(rep, label) THEN [w EXCEPT !.returned = status = "PASS"] ELSE w : w \in rows}
  IN [rep EXCEPT !.exports = @ \cup {<<label, status>>}, !.rows = mark(@), !.legacy = mark(@)]

\* export_experiment: the dataset is made, or found as an earlier export left it; the rows
\* are evaluated and read back.
Exported(who, rep, label, new) ==
  LET rows == RowsOf(rep, label)
      data == remote.data[Dataset(label)]
  IN \/ /\ data = None /\ Faulty
        /\ remote' = [remote EXCEPT !.data[Dataset(label)] = "empty"]
        /\ new = Marked(rep, label, "INSUFFICIENT")
     \/ /\ data = "empty" /\ Healthy
        /\ UNCHANGED remote
        /\ new = Marked(rep, label, "FAIL")
     \/ /\ data # "empty"
        /\ \E sent \in {{Public(w) : w \in rows}} \cup {{Public(w) : w \in rows \ {x}} : x \in rows}, scored \in BOOLEAN :
             /\ IF sent = {Public(w) : w \in rows} /\ scored THEN Healthy ELSE Faulty
             /\ remote' = [remote EXCEPT !.data[Dataset(label)] = "full", !.rows[<<who, label>>] = sent]
             /\ new = Marked(rep, label, IF Readback(sent, rows, scored) THEN "PASS" ELSE "INSUFFICIENT")

Following(label) ==
  CASE label = "graph" -> "graph-business" [] label = "graph-business" -> "legacy-business" [] OTHER -> "finish"

\* Each set of rows that is not empty is exported in turn.
Export(label) ==
  /\ main = label
  /\ IF RowsOf(report, label) = {}
     THEN SavedAt(Following(label), report) /\ UNCHANGED <<remote, faults>>
     ELSE \E new \in {Marked(report, label, s) : s \in {"PASS", "FAIL", "INSUFFICIENT"}} :
            Exported("run", report, label, new) /\ SavedAt(Following(label), new)
  /\ UNCHANGED <<journal, replay, kills>>

-----------------------------------------------------------------------------
(* The release status                                                      *)

Deterministic(rows) == IF \A w \in rows : w.pass THEN "PASS" ELSE "FAIL"

\* clear_offer_recall and mixed_intent_coverage, in samples below twenty.
Quality(rows) == IF \A w \in rows : w.pass THEN "PASS" ELSE "INSUFFICIENT"

\* risk_report
Risk(rows) ==
  LET runs == {w \in rows : w.item[1] \in Risky} IN
  IF \E w \in runs : w.risk THEN "FAIL"
  ELSE IF Labelled /\ \A w \in runs : w.ok /\ w.evidence /\ w.returned THEN "PASS"
  ELSE "INSUFFICIENT"

RemoteStatus(rep) ==
  IF rep.exports # {} /\ (\A e \in rep.exports : e[2] = "PASS") /\ rep.native = "PASS" THEN "PASS" ELSE "INSUFFICIENT"

\* comparison: per case, as many rows of both versions, and no fewer passes of the new.
Compared(case, rows, legacy) ==
  LET new == {w \in rows : w.item[1] = case}
      old == {w \in legacy : w.item[1] = case}
      passes(S) == Cardinality({w \in S : w.pass})
  IN IF new = {} \/ Cardinality(new) # Cardinality(old) THEN "INSUFFICIENT"
     ELSE IF passes(new) >= passes(old) THEN "PASS" ELSE "FAIL"

Comparison(rep) ==
  LET each == {Compared(c, rep.rows, rep.legacy) : c \in Comparable} IN
  IF "FAIL" \in each THEN "FAIL" ELSE IF each = {"PASS"} THEN "PASS" ELSE "INSUFFICIENT"

\* frozen_runtime: the sources are, or are not, those the experiment began on.
Finish ==
  /\ main = "finish"
  /\ \E frozen \in BOOLEAN :
       SavedAt("done", [report EXCEPT !.finished = TRUE, !.frozen = frozen,
         !.release = Acceptance({Deterministic(report.rows), Quality(report.rows), Risk(report.rows),
                                 RemoteStatus(report), Comparison(report)})])
  /\ UNCHANGED <<journal, remote, replay, faults, kills>>

\* The experiment is killed: what is on the disk remains.
Kill ==
  /\ main \notin {"done", "dead"} /\ kills < Kills
  /\ kills' = kills + 1
  /\ main' = "dead" /\ lock' = {} /\ report' = NoReport
  /\ UNCHANGED <<conv, disk, jsonl, journal, remote, replay, faults>>

-----------------------------------------------------------------------------
(* The replay                                                              *)

\* validate_source: finished, on frozen sources, with the journal it was saved with, and
\* that journal complete.
Replayable(rep) ==
  /\ rep.finished /\ rep.frozen
  /\ journal.ended = rep.kept /\ Complete(journal, Expected(rep.rows))

Validate ==
  /\ replay.pc = "idle" /\ main \in {"done", "dead"}
  /\ Replayable(disk)
  /\ replay' = [pc |-> "upload", expected |-> Expected(disk.rows),
                report |-> [disk EXCEPT !.exports = {}, !.native = None, !.release = "INSUFFICIENT"]]
  /\ UNCHANGED <<run, disk, jsonl, journal, remote, main, faults, kills>>

Halted == replay' = [replay EXCEPT !.pc = "failed"]

\* The spans of the journal are sent as they were.
Upload ==
  /\ replay.pc = "upload"
  /\ \/ Healthy /\ replay' = [replay EXCEPT !.pc = "query"]
     \/ Faulty /\ Halted
  /\ UNCHANGED <<run, disk, jsonl, journal, remote, main, kills>>

\* The graph runs that the service knows to have ended.
Refs(r) == r.ended

\* The service is asked when it has taken in what was sent, or before.
Query ==
  /\ replay.pc = "query"
  /\ remote' \in {remote, [remote EXCEPT !.begun = journal.begun, !.ended = journal.ended]}
  /\ replay' = [replay EXCEPT !.pc = "graph",
       !.report.native = IF replay.expected \subseteq Refs(remote') THEN "PASS" ELSE "INSUFFICIENT"]
  /\ UNCHANGED <<run, disk, jsonl, journal, main, faults, kills>>

\* Every set of rows is exported; an empty one has no examples and ends the replay.
ReplayExport(label) ==
  /\ replay.pc = label
  /\ IF RowsOf(replay.report, label) = {}
     THEN Halted /\ UNCHANGED <<remote, faults>>
     ELSE \E new \in {Marked(replay.report, label, s) : s \in {"PASS", "FAIL", "INSUFFICIENT"}} :
            /\ Exported("replay", replay.report, label, new)
            /\ replay' = [replay EXCEPT !.pc = Following(label), !.report = new]
  /\ UNCHANGED <<run, disk, jsonl, journal, main, kills>>

\* The replay is complete when all three exports and the traces came back.
ReplayEnds ==
  /\ replay.pc = "finish"
  /\ replay' = [replay EXCEPT !.pc =
       IF (\A e \in replay.report.exports : e[2] = "PASS") /\ replay.report.native = "PASS" THEN "complete" ELSE "failed"]
  /\ UNCHANGED <<run, disk, jsonl, journal, remote, main, faults, kills>>

Next ==
  \/ \E i \in Items : Begin(i) \/ Turn(i) \/ Ended(i) \/ Judge(i) \/ Snapshot(i) \/ Append(i) \/ Save(i)
  \/ Legacy \/ Traced \/ Native \/ Finish \/ Kill
  \/ \E label \in Labels : Export(label) \/ ReplayExport(label)
  \/ Validate \/ Upload \/ Query \/ ReplayEnds

Spec == Init /\ [][Next]_vars

-----------------------------------------------------------------------------
(* Properties                                                              *)

\* Types, and: no more conversations at once than threads, one of them recording.
TypeOK ==
  /\ \A i \in Items :
       /\ conv[i].pc \in {"todo", "talk", "judge", "snapshot", "append", "save", "recorded"}
       /\ conv[i].turn \in 0 .. Turns /\ conv[i].tries \in 0 .. 2
  /\ Cardinality({i \in Items : conv[i].pc \notin {"todo", "recorded"}}) <= Threads
  /\ main # "dead" => lock = {i \in Items : conv[i].pc = "save"}
  /\ main \in {"cases", "trace", "native", "graph", "graph-business", "legacy-business", "finish", "done", "dead"}

\* "Keep the append-only journal authoritative": a row of the saved report is in the
\* journal of results, which has one line for an item, and no finished item is missing
\* there whenever the process is killed (execute, save_report).
RowsAreJournaled ==
  /\ \A w \in disk.rows : Public(w) \in jsonl
  /\ \A v, w \in jsonl : v.item = w.item => v = w
  /\ \A i \in Items : conv[i].pc \in {"save", "recorded"} => \E w \in jsonl : w.item = i

\* Every model call of a conversation and its judge is accounted for in its row: the failed
\* one, the one cut short and asked again, and those of a conversation that ended in an
\* error (UsageRecorder, judge).
CallsAreAccounted == \A w \in jsonl : w.calls = conv[w.item].made

\* A release passes only when it was earned: every case and repetition ran and passed on
\* database evidence, the old version did no better, and every row as it stands and every
\* graph run is at the remote service (acceptance, risk_report, comparison).
ReleaseIsEarned ==
  disk.release = "PASS" =>
    /\ \A i \in Items : conv[i].met /\ \E w \in disk.rows : w.item = i /\ w.ok /\ w.evidence /\ w.pass
    /\ {w.item : w \in disk.legacy} = Comparable \X Repeats
    /\ {Public(w) : w \in disk.rows} \subseteq jsonl
    /\ \A i \in Items : \A t \in 1 .. conv[i].turn : <<i, t>> \in remote.begun

\* A row is called returned only when the last export that held it came back whole: the
\* service has it, and every other row exported with it, as they are recorded here.
ReturnedIsRead ==
  \A w \in disk.rows : w.returned =>
    \E label \in {"graph", "graph-business"} : remote.rows[<<"run", label>>] = {Public(v) : v \in RowsOf(disk, label)}

\* A complete replay is one of a finished experiment on frozen sources: the service knows
\* every graph run of it, begun and ended, and has every row (replay_remote.py).
ReplayIsComplete ==
  replay.pc = "complete" =>
    /\ disk.finished /\ disk.frozen
    /\ \A label \in Labels : remote.rows[<<"replay", label>>] = {Public(w) : w \in RowsOf(disk, label)}
    /\ \A i \in Items : \A t \in 1 .. conv[i].turn : (\E w \in disk.rows : w.item = i /\ w.evidence) => <<i, t>> \in remote.ended

\* What a scripted buyer confirms is the card last shown, and that is the card it has
\* acknowledged, whether the reply or the seller's answer showed it (GraphTarget.__call__).
ConfirmsWhatWasShown == \A i \in Items : conv[i].card = conv[i].ack
=============================================================================
