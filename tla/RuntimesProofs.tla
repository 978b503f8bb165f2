---------------------------- MODULE RuntimesProofs ----------------------------
(* What the composition of MCRuntimes keeps of ComponentsProofs and LegacyProofs: *)
(* a behaviour of it is one of a single component, the others leave their rows    *)
(* alone.  For what a batch costs it proves, here, what the sums of its calls do, *)
(* and for the release experiment its invariant.                                  *)
EXTENDS MCRuntimes, WellFoundedInduction

-------------------------------------------------------------------------------
(* The release experiment                                                      *)

\* The experiment counts as this module does.
LEMMA ExperimentCounts == \A S : Experiment!Cardinality(S) = Cardinality(S)
BY DEF Experiment!Cardinality, Cardinality

\* The columns of the experiment.
ConvRows == [pc : {"todo", "talk", "judge", "snapshot", "append", "save", "recorded"},
             turn : 0 .. Turns, card : Nat, ack : Nat, met : BOOLEAN, calls : Nat, made : Nat,
             tries : 0 .. 2, error : BOOLEAN, evidence : BOOLEAN]
ResultRows == [item : Experiment!Items, ok : BOOLEAN, evidence : BOOLEAN, calls : Nat, pass : BOOLEAN,
               risk : BOOLEAN, returned : BOOLEAN]
LegacyRows == [item : Comparable \X Repeats, pass : BOOLEAN, returned : BOOLEAN]
Verdicts == {"PASS", "FAIL", "INSUFFICIENT"}
Reports == [rows : SUBSET ResultRows, legacy : SUBSET LegacyRows, exports : SUBSET (Experiment!Labels \X Verdicts),
            native : Verdicts \cup {Experiment!None}, local : Verdicts \cup {Experiment!None}, kept : SUBSET Experiment!GraphRuns,
            release : Verdicts, finished : BOOLEAN, frozen : BOOLEAN]
Traces == [begun : SUBSET Experiment!GraphRuns, ended : SUBSET Experiment!GraphRuns]
Remotes == [begun : SUBSET Experiment!GraphRuns, ended : SUBSET Experiment!GraphRuns,
            data : [{"full", "business"} -> {Experiment!None, "empty", "full"}],
            rows : [{"run", "replay"} \X Experiment!Labels -> SUBSET (ResultRows \cup LegacyRows)]]
Phases == {"cases", "trace", "native", "graph", "graph-business", "legacy-business", "finish",
           "done", "dead"}
Replays == [pc : {"idle", "upload", "query", "graph", "graph-business", "legacy-business", "finish",
                  "complete", "failed"},
            report : Reports, expected : SUBSET Experiment!GraphRuns]
ReleaseTyped ==
  /\ conv \in [Experiment!Items -> ConvRows] /\ rel_lock \in SUBSET Experiment!Items
  /\ report \in Reports /\ disk \in Reports /\ jsonl \subseteq ResultRows
  /\ rel_journal \in Traces /\ remote \in Remotes /\ rel_main \in Phases /\ replay \in Replays

\* A conversation counts every call it makes, acknowledges what it shows, and is judged at
\* most twice.
Talks(c) ==
  /\ c.calls = c.made /\ c.card = c.ack
  /\ c.pc \in {"todo", "talk"} => c.tries = 0
  /\ c.pc = "judge" => c.tries <= 1
Saving == {i \in Experiment!Items : conv[i].pc = "save"}
RelBusy == {i \in Experiment!Items : conv[i].pc \notin {"todo", "recorded"}}
Conversing ==
  /\ \A i \in Experiment!Items : Talks(conv[i])
  /\ Cardinality(RelBusy) <= Threads
  /\ rel_main # "dead" => rel_lock = Saving /\ \A i, j \in Saving : i = j

\* The lines of results are those of the conversations that got there, the report holds the
\* same lines, and the disk none but these.
Written == {i \in Experiment!Items : conv[i].pc \in {"save", "recorded"}}
Publics(lines) == {Experiment!Public(w) : w \in lines}
Recorded ==
  /\ jsonl = {Experiment!Row(i) : i \in Written}
  /\ rel_main # "dead" => Publics(report.rows) = jsonl /\ IsFiniteSet(report.rows)
  /\ Publics(disk.rows) \subseteq jsonl
  /\ rel_main = "cases" => report.rows = jsonl /\ disk.rows \subseteq jsonl

\* After the cases everything is recorded and saved at once, and only the end releases.
After == rel_main \notin {"cases", "dead"}
Saved ==
  /\ After => disk = report /\ \A i \in Experiment!Items : conv[i].pc = "recorded"
  /\ rel_main = "cases" => report.legacy = {}
  /\ After => report.legacy = {} \/ {w.item : w \in report.legacy} = Comparable \X Repeats
  /\ rel_main # "done" => disk.release = "INSUFFICIENT" /\ ~disk.finished
  /\ rel_main = "cases" => report.release = "INSUFFICIENT" /\ ~report.finished

\* What the remote service knows was begun here.
Traceable ==
  /\ remote.begun \subseteq rel_journal.begun
  /\ rel_main \in {"cases", "trace"} => remote.begun = {}
  /\ rel_main \in {"cases", "trace", "native"} => report.native = Experiment!None
  /\ rel_main # "dead" /\ report.native = "PASS" =>
       Experiment!Expected(report.rows) \subseteq remote.begun

Before(place) ==
  CASE place \in {"upload", "query", "graph"} -> {}
    [] place = "graph-business" -> {"graph"}
    [] place = "legacy-business" -> {"graph", "graph-business"}
    [] OTHER -> Experiment!Labels

\* The replay sends what the finished experiment saved, and knows what came back.
Replaying ==
  replay.pc # "idle" =>
    /\ rel_main = "done" /\ disk.finished /\ disk.frozen
    /\ replay.expected = Experiment!Expected(disk.rows)
    /\ \A l \in Experiment!Labels : Publics(Experiment!RowsOf(replay.report, l)) = Publics(Experiment!RowsOf(disk, l))
    /\ replay.pc \in {"upload", "query"} => replay.report.native = Experiment!None
    /\ replay.report.native = "PASS" => replay.expected \subseteq remote.ended
    /\ \A l \in Experiment!Labels : <<l, "PASS">> \in replay.report.exports =>
          remote.rows[<<"replay", l>>] = Publics(Experiment!RowsOf(disk, l))
    /\ replay.pc # "failed" => {e[1] : e \in replay.report.exports} = Before(replay.pc)
    /\ replay.pc = "complete" =>
          (\A e \in replay.report.exports : e[2] = "PASS") /\ replay.report.native = "PASS"

\* A row that came back is one of an export that came back whole.
ReadBack(l) == remote.rows[<<"run", l>>] = Publics(Experiment!RowsOf(disk, l))
Returned ==
  \A w \in disk.rows : w.returned =>
    \E l \in {"graph", "graph-business"} : w \in Experiment!RowsOf(disk, l) /\ ReadBack(l)

RelInv ==
  /\ ReleaseTyped /\ Conversing /\ Recorded /\ Saved /\ Traceable /\ Replaying
  /\ Returned /\ Experiment!ReleaseIsEarned

-------------------------------------------------------------------------------
\* A row as it is exported keeps everything but the mark.
LEMMA PublicRow ==
  ASSUME NEW w \in ResultRows
  PROVE  /\ Experiment!Public(w) \in ResultRows /\ Experiment!Public(w).item = w.item
         /\ Experiment!Public(w).ok = w.ok
         /\ Experiment!Public(w).evidence = w.evidence /\ Experiment!Public(w).pass = w.pass
         /\ Experiment!Public(w).calls = w.calls
         /\ ~Experiment!Public(w).returned /\ (~w.returned => Experiment!Public(w) = w)
BY DEF Experiment!Public, ResultRows

\* The same for a row of the old version.
LEMMA PublicLegacy ==
  ASSUME NEW w \in LegacyRows
  PROVE  /\ Experiment!Public(w) \in LegacyRows /\ Experiment!Public(w).item = w.item
         /\ Experiment!Public(w).pass = w.pass
BY DEF Experiment!Public, LegacyRows

\* No row of the old version is one of the new.
LEMMA VersionsDiffer == ASSUME NEW w \in LegacyRows PROVE w \notin ResultRows
<1>1. DOMAIN w = {"item", "pass", "returned"}
  BY DEF LegacyRows
<1>2. w \in ResultRows => DOMAIN w = {"item", "ok", "evidence", "calls", "pass", "risk", "returned"}
  BY DEF ResultRows
<1> QED BY <1>1, <1>2

\* Rows without a mark are exported as they are.
LEMMA Unmarked ==
  ASSUME NEW lines \in SUBSET ResultRows, \A w \in lines : ~w.returned
  PROVE  Publics(lines) = lines
BY PublicRow DEF Publics

\* The row of a conversation.
LEMMA RowFits ==
  ASSUME RelInv, NEW i \in Experiment!Items
  PROVE  /\ Experiment!Row(i) \in ResultRows /\ Experiment!Row(i).item = i
         /\ Experiment!Row(i).ok = ~conv[i].error
         /\ Experiment!Row(i).evidence = conv[i].evidence
         /\ Experiment!Row(i).calls = conv[i].calls
         /\ (Experiment!Row(i).pass => conv[i].met /\ conv[i].evidence /\ ~conv[i].error)
         /\ ~Experiment!Row(i).returned
<1>1. conv[i] \in ConvRows
  BY DEF RelInv, ReleaseTyped
<1> QED BY <1>1 DEF Experiment!Row, ResultRows, ConvRows

\* The conversations are finitely many.
LEMMA FewConversations ==
  ASSUME ReleaseConstants
  PROVE  IsFiniteSet(Experiment!Items) /\ IsFiniteSet(RelBusy) /\ Cardinality(RelBusy) \in Nat
<1>1. IsFiniteSet(Experiment!Items)
  BY FS_Product DEF ReleaseConstants, Experiment!Items
<1>2. IsFiniteSet(RelBusy)
  BY <1>1, FS_Subset DEF RelBusy
<1> QED BY <1>1, <1>2, FS_CardinalityType

\* A conversation goes on without a row being recorded.
LEMMA TalkKeeps ==
  ASSUME ReleaseConstants, RelInv, NEW i \in Experiment!Items, NEW d \in ConvRows, rel_main = "cases",
         conv' = [conv EXCEPT ![i] = d], conv[i].pc \notin {"save", "recorded"},
         d.pc \notin {"save", "recorded"}, Talks(d), Cardinality(RelBusy') <= Threads,
         rel_journal' \in Traces, rel_journal.begun \subseteq rel_journal'.begun,
         UNCHANGED <<rel_lock, report, disk, jsonl, remote, rel_main, replay>>
  PROVE  RelInv'
<1>1. /\ conv \in [Experiment!Items -> ConvRows] /\ conv' \in [Experiment!Items -> ConvRows]
      /\ conv'[i] = d
      /\ \A j \in Experiment!Items : j # i => conv'[j] = conv[j]
  BY DEF RelInv, ReleaseTyped
<1>2. ReleaseTyped'
  BY <1>1 DEF RelInv, ReleaseTyped
<1>3. Saving' = Saving /\ Written' = Written
  BY <1>1 DEF Saving, Written
<1>4. Conversing'
  BY <1>1, <1>3 DEF RelInv, Conversing
<1>5. Recorded'
  <2>1. \A j \in Written : Experiment!Row(j)' = Experiment!Row(j)
    BY <1>1 DEF Written, Experiment!Row
  <2>2. jsonl' = {Experiment!Row(j)' : j \in Written'}
    BY <1>3, <2>1 DEF RelInv, Recorded
  <2> QED BY <2>2 DEF RelInv, Recorded
<1>6. Saved'
  BY DEF RelInv, Saved, After
<1>7. Traceable'
  BY DEF RelInv, Traceable, Experiment!None
<1>8. Replaying'
  BY DEF RelInv, Replaying
<1>9. Experiment!ReleaseIsEarned' /\ Returned'
  <2>1. disk'.release = "INSUFFICIENT"
    BY DEF RelInv, Saved
  <2>2. Experiment!ReleaseIsEarned'
    BY <2>1 DEF Experiment!ReleaseIsEarned
  <2>3. Returned'
    BY DEF RelInv, Returned, ReadBack
  <2> QED BY <2>2, <2>3
<1> QED BY <1>2, <1>4, <1>5, <1>6, <1>7, <1>8, <1>9 DEF RelInv

\* A conversation that was busy stays so, one that begins finds a thread.
LEMMA BusyStays ==
  ASSUME ReleaseConstants, RelInv, NEW i \in Experiment!Items, NEW d \in ConvRows,
         conv' = [conv EXCEPT ![i] = d], d.pc \notin {"todo", "recorded"},
         conv[i].pc \notin {"todo", "recorded"} \/ Cardinality(RelBusy) < Threads
  PROVE  Cardinality(RelBusy') <= Threads
<1>1. /\ conv'[i] = d /\ \A j \in Experiment!Items : j # i => conv'[j] = conv[j]
  BY DEF RelInv, ReleaseTyped
<1>2. RelBusy' = RelBusy \cup {i}
  BY <1>1 DEF RelBusy
<1>3. IsFiniteSet(RelBusy) /\ Cardinality(RelBusy) \in Nat /\ Cardinality(RelBusy) <= Threads
  BY FewConversations DEF RelInv, Conversing
<1>4. CASE i \in RelBusy
  <2>1. RelBusy' = RelBusy
    BY <1>2, <1>4
  <2> QED BY <1>3, <2>1
<1>5. CASE i \notin RelBusy
  <2>1. Cardinality(RelBusy \cup {i}) = Cardinality(RelBusy) + 1
    BY <1>3, <1>5, FS_AddElement
  <2>2. Cardinality(RelBusy) < Threads
    BY <1>5 DEF RelBusy
  <2> QED BY <1>2, <1>3, <2>1, <2>2 DEF ReleaseConstants
<1> QED BY <1>4, <1>5

\* The same for a conversation that has begun, and leaves the traces alone.
LEMMA TalkGoesOn ==
  ASSUME ReleaseConstants, RelInv, NEW i \in Experiment!Items, NEW d \in ConvRows, rel_main = "cases",
         conv' = [conv EXCEPT ![i] = d], conv[i].pc \in {"talk", "judge", "snapshot"},
         d.pc \in {"talk", "judge", "snapshot", "append"}, Talks(d),
         rel_journal' \in Traces, rel_journal.begun \subseteq rel_journal'.begun,
         UNCHANGED <<rel_lock, report, disk, jsonl, remote, rel_main, replay>>
  PROVE  RelInv'
<1>1. Cardinality(RelBusy') <= Threads
  BY BusyStays
<1> QED BY <1>1, TalkKeeps

\* A conversation begins, or its fixture fails.
LEMMA BeginKeeps ==
  ASSUME ReleaseConstants, RelInv, NEW i \in Experiment!Items, Experiment!Begin(i)
  PROVE  RelInv'
<1> DEFINE c == conv[i]
<1>1. /\ rel_main = "cases" /\ c.pc = "todo" /\ Cardinality(RelBusy) < Threads
      /\ UNCHANGED <<rel_lock, report, disk, jsonl, rel_journal, remote, rel_main, replay>>
  BY ExperimentCounts DEF Experiment!Begin, RelBusy
<1>2. c \in ConvRows /\ Talks(c) /\ rel_journal \in Traces
  BY DEF RelInv, ReleaseTyped, Conversing
<1>3. PICK d \in ConvRows : /\ conv' = [conv EXCEPT ![i] = d]
                             /\ d.pc \in {"talk", "append"} /\ Talks(d)
  <2>1. CASE conv' = [conv EXCEPT ![i].pc = "talk"]
    <3> DEFINE d == [c EXCEPT !.pc = "talk"]
    <3>1. d \in ConvRows /\ d.pc = "talk" /\ Talks(d)
      BY <1>1, <1>2 DEF ConvRows, Talks
    <3> QED BY <2>1, <3>1
  <2>2. CASE conv' = [conv EXCEPT ![i].pc = "append", ![i].error = TRUE]
    <3> DEFINE d == [c EXCEPT !.pc = "append", !.error = TRUE]
    <3>1. d \in ConvRows /\ d.pc = "append" /\ Talks(d)
      BY <1>1, <1>2 DEF ConvRows, Talks
    <3>2. conv' = [conv EXCEPT ![i] = d]
      BY <2>2
    <3> QED BY <3>1, <3>2
  <2> QED BY <2>1, <2>2 DEF Experiment!Begin
<1>4. Cardinality(RelBusy') <= Threads
  BY <1>1, <1>3, BusyStays
<1> QED BY <1>1, <1>2, <1>3, <1>4, TalkKeeps

\* Columns of a conversation, one by one.
LEMMA ColumnsFit ==
  ASSUME NEW c \in ConvRows
  PROVE  /\ c.turn \in 0 .. Turns /\ c.card \in Nat /\ c.ack \in Nat /\ c.met \in BOOLEAN
         /\ c.calls \in Nat /\ c.made \in Nat /\ c.calls + 1 \in Nat /\ c.made + 1 \in Nat
         /\ c.tries \in 0 .. 2 /\ c.error \in BOOLEAN /\ c.evidence \in BOOLEAN
BY DEF ConvRows

\* A conversation with one call more.
OneMore(a, c) ==
  /\ a \in ConvRows /\ a.made = c.made + 1 /\ a.calls = c.calls + 1
  /\ a.pc = c.pc /\ a.card = c.card /\ a.ack = c.ack /\ a.turn = c.turn /\ a.tries = c.tries

\* Asking for the model makes one call more, answered or not.
LEMMA AskedFits ==
  ASSUME NEW c \in ConvRows
  PROVE  (\E a : a = Experiment!Asked(c, TRUE) /\ OneMore(a, c)) /\ (\E a : a = Experiment!Asked(c, FALSE) /\ OneMore(a, c))
<1>1. /\ c.made + 1 \in Nat /\ c.calls + 1 \in Nat /\ c.error \in BOOLEAN
  BY DEF ConvRows
<1> DEFINE a == [c EXCEPT !.made = @ + 1, !.calls = @ + 1, !.error = TRUE]
           b == [c EXCEPT !.made = @ + 1, !.calls = @ + 1]
<1>2. Experiment!Asked(c, TRUE) = a
  BY <1>1 DEF Experiment!Asked
<1>3. Experiment!Asked(c, FALSE) = b
  BY <1>1 DEF Experiment!Asked, ConvRows
<1>4. a \in ConvRows /\ b \in ConvRows
  BY <1>1 DEF ConvRows
<1>5. OneMore(a, c) /\ OneMore(b, c)
  BY <1>4 DEF ConvRows, OneMore
<1> QED BY <1>2, <1>3, <1>5

\* A turn of the graph: what the buyer confirms is the card last shown.
LEMMA TurnKeeps ==
  ASSUME ReleaseConstants, RelInv, NEW i \in Experiment!Items, Experiment!Turn(i)
  PROVE  RelInv'
<1> DEFINE c == conv[i]
<1>1. /\ rel_main = "cases" /\ c.pc = "talk" /\ c.turn < Turns
      /\ UNCHANGED <<rel_lock, report, disk, jsonl, remote, rel_main, replay>>
      /\ rel_journal' = [rel_journal EXCEPT !.begun = @ \cup {<<i, c.turn + 1>>}]
  BY DEF Experiment!Turn
<1>2. c \in ConvRows /\ Talks(c) /\ rel_journal \in Traces
  BY DEF RelInv, ReleaseTyped, Conversing
<1>3. c.turn + 1 \in 1 .. Turns /\ c.turn + 1 \in 0 .. Turns /\ c.turn \in Nat
  BY <1>1, <1>2 DEF ConvRows, ReleaseConstants
<1>4. rel_journal' \in Traces /\ rel_journal.begun \subseteq rel_journal'.begun
  <2>1. <<i, c.turn + 1>> \in Experiment!GraphRuns
    BY <1>3 DEF Experiment!GraphRuns
  <2> QED BY <1>1, <1>2, <2>1 DEF Traces
<1>5. PICK d \in ConvRows : /\ conv' = [conv EXCEPT ![i] = d]
                            /\ d.pc \in {"talk", "snapshot"} /\ Talks(d)
  <2>1. CASE conv' = [conv EXCEPT ![i] = [Experiment!Asked(c, TRUE) EXCEPT !.turn = @ + 1, !.pc = "snapshot", !.card = 0, !.ack = 0]]
    <3>0. PICK a : a = Experiment!Asked(c, TRUE) /\ OneMore(a, c)
      BY <1>2, AskedFits
    <3>1. a \in ConvRows /\ a.calls = a.made /\ a.turn + 1 \in 0 .. Turns
      BY <3>0, <1>2, <1>3 DEF Talks, OneMore
    <3> DEFINE d == [a EXCEPT !.turn = @ + 1, !.pc = "snapshot", !.card = 0, !.ack = 0]
    <3>2. d \in ConvRows
      BY <3>1 DEF ConvRows
    <3>3. d.pc = "snapshot" /\ d.calls = d.made /\ d.card = d.ack
      BY <3>1 DEF ConvRows
    <3>4. Talks(d)
      BY <3>3 DEF Talks
    <3> QED BY <2>1, <3>0, <3>1, <3>2, <3>3, <3>4
  <2>2. ASSUME NEW met \in BOOLEAN, NEW shown \in {c.card, 2 * c.turn + 1},
               NEW later \in {shown, 2 * c.turn + 2},
               conv' = [conv EXCEPT ![i] = [Experiment!Asked(c, FALSE) EXCEPT
                 !.turn = @ + 1, !.met = @ /\ met, !.card = later, !.ack = Experiment!Acked(c, shown, later)]]
        PROVE  \E d \in ConvRows : conv' = [conv EXCEPT ![i] = d] /\ d.pc = "talk" /\ Talks(d)
    <3>1. later \in Nat /\ Experiment!Acked(c, shown, later) = later
      BY <1>2, <1>3 DEF ConvRows, Talks, Experiment!Acked
    <3>0. PICK a : a = Experiment!Asked(c, FALSE) /\ OneMore(a, c)
      BY <1>2, AskedFits
    <3>2. /\ a \in ConvRows /\ a.calls = a.made /\ a.turn + 1 \in 0 .. Turns
          /\ a.pc = "talk" /\ a.tries = 0
      BY <1>1, <3>0, <1>2, <1>3 DEF Talks, OneMore
    <3> DEFINE d == [a EXCEPT !.turn = @ + 1, !.met = @ /\ met, !.card = later, !.ack = later]
    <3>3. d \in ConvRows
      BY <3>1, <3>2 DEF ConvRows
    <3>4. /\ d.pc = "talk" /\ d.calls = d.made /\ d.card = d.ack /\ d.tries = 0
      BY <3>2 DEF ConvRows
    <3>5. Talks(d)
      BY <3>4 DEF Talks
    <3> QED BY <2>2, <3>0, <3>1, <3>2, <3>3, <3>4, <3>5
  <2> QED BY <2>1, <2>2 DEF Experiment!Turn
<1> QED BY <1>1, <1>2, <1>4, <1>5, TalkGoesOn

\* A simulation is over.
LEMMA EndedKeeps ==
  ASSUME ReleaseConstants, RelInv, NEW i \in Experiment!Items, Experiment!Ended(i)
  PROVE  RelInv'
<1> DEFINE c == conv[i]
           d == [c EXCEPT !.pc = "judge", !.card = 0, !.ack = 0]
<1>1. /\ rel_main = "cases" /\ c.pc = "talk"
      /\ UNCHANGED <<rel_lock, report, disk, jsonl, rel_journal, remote, rel_main, replay>>
      /\ conv' = [conv EXCEPT ![i] = d]
  BY DEF Experiment!Ended
<1>2. c \in ConvRows /\ Talks(c) /\ rel_journal \in Traces
  BY DEF RelInv, ReleaseTyped, Conversing
<1>3. d \in ConvRows
  BY <1>2 DEF ConvRows
<1>4. d.pc = "judge" /\ d.calls = d.made /\ d.card = d.ack /\ d.tries = 0
  BY <1>1, <1>2 DEF ConvRows, Talks
<1>5. Talks(d)
  BY <1>4 DEF Talks
<1> QED BY <1>1, <1>2, <1>3, <1>4, <1>5, TalkGoesOn

\* The judge answers, is cut short, or fails.
LEMMA JudgeKeeps ==
  ASSUME ReleaseConstants, RelInv, NEW i \in Experiment!Items, Experiment!Judge(i)
  PROVE  RelInv'
<1> DEFINE c == conv[i]
<1>1. /\ rel_main = "cases" /\ c.pc = "judge"
      /\ UNCHANGED <<rel_lock, report, disk, jsonl, rel_journal, remote, rel_main, replay>>
  BY DEF Experiment!Judge
<1>2. c \in ConvRows /\ Talks(c) /\ rel_journal \in Traces /\ c.tries \in 0 .. 1
  BY <1>1 DEF RelInv, ReleaseTyped, Conversing, Talks, ConvRows
<1>3. PICK d \in ConvRows : /\ conv' = [conv EXCEPT ![i] = d]
                            /\ d.pc \in {"judge", "snapshot"} /\ Talks(d)
  <2>1. CASE conv' = [conv EXCEPT ![i] = Experiment!JudgeAnswered(c)]
    <3>1. c.tries + 1 \in 0 .. 2 /\ c.made + 1 \in Nat /\ c.calls + 1 \in Nat
      BY <1>2 DEF ConvRows
    <3>2. Experiment!JudgeAnswered(c) \in ConvRows
      BY <1>2, <3>1 DEF ConvRows, Experiment!JudgeAnswered
    <3>3. /\ Experiment!JudgeAnswered(c).pc = "snapshot"
          /\ Experiment!JudgeAnswered(c).calls = Experiment!JudgeAnswered(c).made
          /\ Experiment!JudgeAnswered(c).card = Experiment!JudgeAnswered(c).ack
      BY <1>2 DEF ConvRows, Talks, Experiment!JudgeAnswered
    <3>4. Talks(Experiment!JudgeAnswered(c))
      BY <3>3 DEF Talks
    <3> QED BY <2>1, <3>2, <3>3, <3>4
  <2>2. CASE /\ c.tries = 0
             /\ conv' = [conv EXCEPT ![i] = [Experiment!Asked(c, FALSE) EXCEPT !.tries = 1]]
    <3>0. PICK a : a = Experiment!Asked(c, FALSE) /\ OneMore(a, c)
      BY <1>2, AskedFits
    <3>1. a \in ConvRows /\ a.calls = a.made /\ a.card = a.ack /\ a.pc = "judge"
      BY <1>1, <3>0, <1>2 DEF Talks, OneMore
    <3> DEFINE d == [a EXCEPT !.tries = 1]
    <3>2. d \in ConvRows
      BY <3>1 DEF ConvRows
    <3>3. d.pc = "judge" /\ d.calls = d.made /\ d.card = d.ack /\ d.tries = 1
      BY <3>1 DEF ConvRows
    <3>4. Talks(d)
      BY <3>3 DEF Talks
    <3> QED BY <2>2, <3>0, <3>1, <3>2, <3>3, <3>4
  <2>3. CASE conv' = [conv EXCEPT ![i] = Experiment!Asked([c EXCEPT !.pc = "snapshot"], TRUE)]
    <3> DEFINE e == [c EXCEPT !.pc = "snapshot"]
    <3>1. e \in ConvRows
      BY <1>2 DEF ConvRows
    <3>2. e.pc = "snapshot" /\ e.card = e.ack /\ e.calls = e.made
      BY <1>2 DEF ConvRows, Talks
    <3> HIDE DEF e
    <3>3. PICK d : d = Experiment!Asked(e, TRUE) /\ OneMore(d, e)
      BY <3>1, AskedFits
    <3>4. d \in ConvRows /\ d.pc = "snapshot" /\ d.calls = d.made /\ d.card = d.ack
      BY <3>1, <3>2, <3>3 DEF OneMore
    <3>5. Talks(d)
      BY <3>4 DEF Talks
    <3> QED BY <2>3, <3>3, <3>4, <3>5 DEF e
  <2> QED BY <2>1, <2>2, <2>3 DEF Experiment!Judge
<1> QED BY <1>1, <1>2, <1>3, TalkGoesOn

\* The evidence is read, or not.
LEMMA SnapshotKeeps ==
  ASSUME ReleaseConstants, RelInv, NEW i \in Experiment!Items, Experiment!Snapshot(i)
  PROVE  RelInv'
<1> DEFINE c == conv[i]
           read == [c EXCEPT !.pc = "append", !.evidence = TRUE]
           lost == [c EXCEPT !.pc = "append", !.error = TRUE]
<1>1. /\ rel_main = "cases" /\ c.pc = "snapshot"
      /\ UNCHANGED <<rel_lock, report, disk, jsonl, rel_journal, remote, rel_main, replay>>
      /\ conv' = [conv EXCEPT ![i] = read] \/ conv' = [conv EXCEPT ![i] = lost]
  BY DEF Experiment!Snapshot
<1>2. c \in ConvRows /\ Talks(c) /\ rel_journal \in Traces
  BY DEF RelInv, ReleaseTyped, Conversing
<1>3. /\ read \in ConvRows /\ read.pc = "append" /\ Talks(read)
      /\ lost \in ConvRows /\ lost.pc = "append" /\ Talks(lost)
  BY <1>1, <1>2 DEF ConvRows, Talks
<1> QED BY <1>1, <1>2, <1>3, TalkGoesOn

\* While the cases run nothing is released, sent or read back, and no line is marked.
LEMMA CasesKeep ==
  ASSUME RelInv, rel_main = "cases", rel_main' = rel_main, rel_journal' = rel_journal, remote' = remote, replay' = replay,
         report'.native = report.native, report'.release = report.release,
         report'.finished = report.finished, report'.legacy = report.legacy,
         disk'.release = "INSUFFICIENT", ~disk'.finished, \A w \in disk'.rows : ~w.returned
  PROVE  Saved' /\ Traceable' /\ Replaying' /\ Experiment!ReleaseIsEarned' /\ Returned'
<1>1. Saved'
  BY DEF RelInv, Saved, After
<1>2. Traceable'
  BY DEF RelInv, Traceable, Experiment!None
<1>3. replay.pc = "idle"
  BY DEF RelInv, Replaying
<1>4. Replaying'
  BY <1>3 DEF Replaying
<1>5. Experiment!ReleaseIsEarned' /\ Returned'
  BY DEF Experiment!ReleaseIsEarned, Returned
<1> QED BY <1>1, <1>2, <1>4, <1>5

\* The lines of results are lines, unmarked, and so are those of the report and of the disk
\* while the cases run.
LEMMA LinesAreRows ==
  ASSUME RelInv
  PROVE  /\ jsonl \subseteq ResultRows /\ \A w \in jsonl : ~w.returned
         /\ report.rows \subseteq ResultRows /\ disk.rows \subseteq ResultRows
<1>1. jsonl \subseteq ResultRows /\ report.rows \subseteq ResultRows /\ disk.rows \subseteq ResultRows
  BY DEF RelInv, ReleaseTyped, Reports
<1>2. \A w \in jsonl : ~w.returned
  BY RowFits DEF RelInv, Recorded, Written
<1> QED BY <1>1, <1>2

\* A row is appended to the report and to the lines of results.
LEMMA AppendKeeps ==
  ASSUME ReleaseConstants, RelInv, NEW i \in Experiment!Items, Experiment!Append(i)
  PROVE  RelInv'
<1> DEFINE d == [conv[i] EXCEPT !.pc = "save"]
<1>1. /\ rel_main = "cases" /\ conv[i].pc = "append" /\ rel_lock = {} /\ rel_lock' = {i}
      /\ report' = [report EXCEPT !.rows = @ \cup {Experiment!Row(i)}]
      /\ jsonl' = jsonl \cup {Experiment!Row(i)}
      /\ conv' = [conv EXCEPT ![i] = d]
      /\ UNCHANGED <<disk, rel_journal, remote, rel_main, replay>>
  BY DEF Experiment!Append
<1>2. conv[i] \in ConvRows /\ Talks(conv[i])
  BY DEF RelInv, ReleaseTyped, Conversing
<1>3. /\ d \in ConvRows /\ Talks(d) /\ d.pc = "save"
      /\ d.error = conv[i].error /\ d.evidence = conv[i].evidence /\ d.calls = conv[i].calls
      /\ d.met = conv[i].met
  BY <1>1, <1>2 DEF ConvRows, Talks
<1> HIDE DEF d
<1>4. /\ conv' \in [Experiment!Items -> ConvRows] /\ conv'[i] = d
      /\ \A j \in Experiment!Items : j # i => conv'[j] = conv[j]
  BY <1>1, <1>3 DEF RelInv, ReleaseTyped
<1>5. Experiment!Row(i) \in ResultRows /\ ~Experiment!Row(i).returned
  BY RowFits
<1>6. /\ report \in Reports /\ report'.rows = report.rows \cup {Experiment!Row(i)}
      /\ report'.native = report.native
      /\ report'.release = report.release /\ report'.finished = report.finished
      /\ report'.legacy = report.legacy
  BY <1>1 DEF RelInv, ReleaseTyped, Reports
<1>7. ReleaseTyped'
  <2>1. report' \in Reports
    BY <1>1, <1>5, <1>6 DEF Reports
  <2> QED BY <1>1, <1>4, <1>5, <2>1 DEF RelInv, ReleaseTyped
<1>8. Conversing'
  <2>1. RelBusy' = RelBusy
    BY <1>1, <1>3, <1>4 DEF RelBusy
  <2>2. Saving = {}
    BY <1>1 DEF RelInv, Conversing
  <2>3. Saving' = {i}
    BY <1>3, <1>4, <2>2 DEF Saving
  <2>4. \A j \in Experiment!Items : Talks(conv'[j])
    BY <1>3, <1>4 DEF RelInv, Conversing
  <2> QED BY <1>1, <2>1, <2>3, <2>4 DEF RelInv, Conversing
<1>9. Recorded'
  <2>1. Written' = Written \cup {i}
    BY <1>3, <1>4 DEF Written
  <2>2. \A j \in Experiment!Items : Experiment!Row(j)' = Experiment!Row(j)
    BY <1>3, <1>4 DEF Experiment!Row
  <2>3. jsonl' = {Experiment!Row(j)' : j \in Written'}
    BY <1>1, <2>1, <2>2 DEF RelInv, Recorded, Written
  <2>4. report.rows = jsonl /\ IsFiniteSet(report.rows) /\ disk.rows \subseteq jsonl
    BY <1>1 DEF RelInv, Recorded
  <2>5. report'.rows = jsonl'
    BY <1>1, <1>6, <2>4
  <2>6. jsonl' \subseteq ResultRows /\ \A w \in jsonl' : ~w.returned
    BY <1>1, <1>5, LinesAreRows
  <2>7. Publics(report'.rows) = jsonl'
    BY <2>5, <2>6, Unmarked
  <2>8. IsFiniteSet(report'.rows)
    BY <1>6, <2>4, FS_AddElement
  <2>9. Publics(disk'.rows) \subseteq jsonl'
    BY <1>1 DEF RelInv, Recorded
  <2> QED BY <1>1, <2>3, <2>4, <2>5, <2>7, <2>8, <2>9 DEF Recorded
<1>10. Saved' /\ Traceable' /\ Replaying' /\ Experiment!ReleaseIsEarned' /\ Returned'
  <2>1. disk.release = "INSUFFICIENT" /\ ~disk.finished
    BY <1>1 DEF RelInv, Saved
  <2>2. \A w \in disk.rows : ~w.returned
    BY <1>1, LinesAreRows DEF RelInv, Recorded
  <2> QED BY <1>1, <1>6, <2>1, <2>2, CasesKeep
<1> QED BY <1>7, <1>8, <1>9, <1>10 DEF RelInv

\* The report is saved, and the lock is free.
LEMMA RelSaveKeeps ==
  ASSUME ReleaseConstants, RelInv, NEW i \in Experiment!Items, Experiment!Save(i)
  PROVE  RelInv'
<1> DEFINE d == [conv[i] EXCEPT !.pc = "recorded"]
<1>1. /\ rel_main = "cases" /\ conv[i].pc = "save" /\ rel_lock' = {} /\ disk' = report
      /\ conv' = [conv EXCEPT ![i] = d]
      /\ UNCHANGED <<report, jsonl, rel_journal, remote, rel_main, replay>>
  BY DEF Experiment!Save
<1>2. conv[i] \in ConvRows /\ Talks(conv[i])
  BY DEF RelInv, ReleaseTyped, Conversing
<1>3. /\ d \in ConvRows /\ Talks(d) /\ d.pc = "recorded"
      /\ d.error = conv[i].error /\ d.evidence = conv[i].evidence /\ d.calls = conv[i].calls
      /\ d.met = conv[i].met
  BY <1>1, <1>2 DEF ConvRows, Talks
<1> HIDE DEF d
<1>4. /\ conv' \in [Experiment!Items -> ConvRows] /\ conv'[i] = d
      /\ \A j \in Experiment!Items : j # i => conv'[j] = conv[j]
  BY <1>1, <1>3 DEF RelInv, ReleaseTyped
<1>5. ReleaseTyped'
  BY <1>1, <1>4 DEF RelInv, ReleaseTyped
<1>6. Conversing'
  <2>1. RelBusy' \subseteq RelBusy
    BY <1>3, <1>4 DEF RelBusy
  <2>2. IsFiniteSet(RelBusy) /\ Cardinality(RelBusy) \in Nat /\ Cardinality(RelBusy) <= Threads
    BY FewConversations DEF RelInv, Conversing
  <2>3. Cardinality(RelBusy') \in Nat /\ Cardinality(RelBusy') <= Cardinality(RelBusy)
    BY <2>1, <2>2, FS_Subset, FS_CardinalityType
  <2>4. Cardinality(RelBusy') <= Threads
    BY <2>2, <2>3 DEF ReleaseConstants
  <2>5. Saving' = {}
    BY <1>1, <1>3, <1>4 DEF Saving, RelInv, Conversing
  <2>6. \A j \in Experiment!Items : Talks(conv'[j])
    BY <1>3, <1>4 DEF RelInv, Conversing
  <2> QED BY <1>1, <2>4, <2>5, <2>6 DEF Conversing
<1>7. Recorded'
  <2>1. Written' = Written
    BY <1>1, <1>3, <1>4 DEF Written
  <2>2. \A j \in Experiment!Items : Experiment!Row(j)' = Experiment!Row(j)
    BY <1>3, <1>4 DEF Experiment!Row
  <2>3. jsonl' = {Experiment!Row(j)' : j \in Written'}
    BY <1>1, <2>1, <2>2 DEF RelInv, Recorded, Written
  <2> QED BY <1>1, <2>3 DEF RelInv, Recorded
<1>8. Saved' /\ Traceable' /\ Replaying' /\ Experiment!ReleaseIsEarned' /\ Returned'
  <2>1. report.release = "INSUFFICIENT" /\ ~report.finished
    BY <1>1 DEF RelInv, Saved
  <2>2. \A w \in report.rows : ~w.returned
    BY <1>1, LinesAreRows DEF RelInv, Recorded
  <2> QED BY <1>1, <2>1, <2>2, CasesKeep
<1> QED BY <1>5, <1>6, <1>7, <1>8 DEF RelInv

\* What an export does to a row.
Mark(rep, label, verdict, w) ==
  IF w \in Experiment!RowsOf(rep, label) THEN [w EXCEPT !.returned = (verdict = "PASS")] ELSE w

\* A marked row is the row, returned or not.
LEMMA MarkOfRow ==
  ASSUME NEW rep, NEW label, NEW verdict, NEW w \in ResultRows
  PROVE  /\ Mark(rep, label, verdict, w) \in ResultRows
         /\ Mark(rep, label, verdict, w).item = w.item
         /\ Mark(rep, label, verdict, w).evidence = w.evidence
         /\ Experiment!Public(Mark(rep, label, verdict, w)) = Experiment!Public(w)
         /\ (Mark(rep, label, verdict, w).returned =>
               IF w \in Experiment!RowsOf(rep, label) THEN verdict = "PASS" ELSE Mark(rep, label, verdict, w) = w /\ w.returned)
<1>1. CASE w \notin Experiment!RowsOf(rep, label)
  BY <1>1 DEF Mark
<1>2. CASE w \in Experiment!RowsOf(rep, label)
  <2>1. (verdict = "PASS") \in BOOLEAN
    OBVIOUS
  <2>2. PICK b \in BOOLEAN : b = (verdict = "PASS")
    BY <2>1
  <2> DEFINE m == [w EXCEPT !.returned = b]
  <2>3. Mark(rep, label, verdict, w) = m
    BY <1>2, <2>2 DEF Mark
  <2>4. m \in ResultRows /\ m.item = w.item /\ m.evidence = w.evidence /\ m.returned = b
    BY DEF ResultRows
  <2>5. Experiment!Public(m) = Experiment!Public(w)
    BY DEF Experiment!Public, ResultRows
  <2> QED BY <1>2, <2>2, <2>3, <2>4, <2>5
<1> QED BY <1>1, <1>2

\* The same for a row of the old version.
LEMMA MarkOfLegacy ==
  ASSUME NEW rep, NEW label, NEW verdict, NEW w \in LegacyRows
  PROVE  /\ Mark(rep, label, verdict, w) \in LegacyRows
         /\ Mark(rep, label, verdict, w).item = w.item
         /\ Experiment!Public(Mark(rep, label, verdict, w)) = Experiment!Public(w)
<1>1. CASE w \notin Experiment!RowsOf(rep, label)
  BY <1>1 DEF Mark
<1>2. CASE w \in Experiment!RowsOf(rep, label)
  <2>1. (verdict = "PASS") \in BOOLEAN
    OBVIOUS
  <2>2. PICK b \in BOOLEAN : b = (verdict = "PASS")
    BY <2>1
  <2> DEFINE m == [w EXCEPT !.returned = b]
  <2>3. Mark(rep, label, verdict, w) = m
    BY <1>2, <2>2 DEF Mark
  <2>4. m \in LegacyRows /\ m.item = w.item
    BY DEF LegacyRows
  <2>5. Experiment!Public(m) = Experiment!Public(w)
    BY DEF Experiment!Public, LegacyRows
  <2> QED BY <2>3, <2>4, <2>5
<1> QED BY <1>1, <1>2

\* An export marks lines of the report and notes its verdict, and changes nothing else.
LEMMA MarkedReport ==
  ASSUME NEW rep \in Reports, NEW label \in Experiment!Labels, NEW verdict \in Verdicts,
         NEW new, new = Experiment!Marked(rep, label, verdict)
  PROVE  /\ new \in Reports
         /\ new.exports = rep.exports \cup {<<label, verdict>>}
         /\ new.rows = {Mark(rep, label, verdict, w) : w \in rep.rows}
         /\ new.legacy = {Mark(rep, label, verdict, w) : w \in rep.legacy}
         /\ new.native = rep.native /\ new.release = rep.release /\ new.finished = rep.finished
<1> DEFINE lines == {Mark(rep, label, verdict, w) : w \in rep.rows}
           former == {Mark(rep, label, verdict, w) : w \in rep.legacy}
           exports == rep.exports \cup {<<label, verdict>>}
<1>1. new = [rep EXCEPT !.exports = exports, !.rows = lines, !.legacy = former]
  BY DEF Experiment!Marked, Mark, Reports
<1>2. rep.rows \subseteq ResultRows /\ rep.legacy \subseteq LegacyRows
  BY DEF Reports
<1>3. lines \in SUBSET ResultRows /\ former \in SUBSET LegacyRows
  BY <1>2, MarkOfRow, MarkOfLegacy
<1>4. exports \in SUBSET (Experiment!Labels \X Verdicts)
  BY DEF Reports
<1> HIDE DEF lines, former, exports
<1>5. new \in Reports
  BY <1>1, <1>3, <1>4 DEF Reports
<1>6. /\ new.exports = exports /\ new.rows = lines /\ new.legacy = former
      /\ new.native = rep.native /\ new.release = rep.release /\ new.finished = rep.finished
  BY <1>1 DEF Reports
<1> QED BY <1>5, <1>6 DEF lines, former, exports

\* The lines of a label after an export are the marked ones.
LEMMA MarkedRows ==
  ASSUME NEW rep \in Reports, NEW label \in Experiment!Labels, NEW verdict \in Verdicts,
         NEW new, new = Experiment!Marked(rep, label, verdict), NEW l \in Experiment!Labels
  PROVE  Experiment!RowsOf(new, l) = {Mark(rep, label, verdict, w) : w \in Experiment!RowsOf(rep, l)}
<1>1. /\ new.rows = {Mark(rep, label, verdict, w) : w \in rep.rows}
      /\ new.legacy = {Mark(rep, label, verdict, w) : w \in rep.legacy}
  BY MarkedReport
<1>2. CASE l = "graph"
  BY <1>1, <1>2 DEF Experiment!RowsOf
<1>3. CASE l = "graph-business"
  <2>1. \A w \in rep.rows : Mark(rep, label, verdict, w).item = w.item
    BY MarkOfRow DEF Reports
  <2>2. Experiment!RowsOf(new, l) = {w \in new.rows : w.item[1] \in Comparable}
    BY <1>3 DEF Experiment!RowsOf
  <2>3. Experiment!RowsOf(rep, l) = {w \in rep.rows : w.item[1] \in Comparable}
    BY <1>3 DEF Experiment!RowsOf
  <2> QED BY <1>1, <2>1, <2>2, <2>3
<1>4. CASE l = "legacy-business"
  BY <1>1, <1>4 DEF Experiment!RowsOf
<1> QED BY <1>2, <1>3, <1>4 DEF Experiment!Labels

\* The lines of a label are lines.
LEMMA RowsAreRows ==
  ASSUME NEW rep \in Reports, NEW l \in Experiment!Labels
  PROVE  /\ Experiment!RowsOf(rep, l) \subseteq ResultRows \cup LegacyRows
         /\ (l # "legacy-business" => Experiment!RowsOf(rep, l) \subseteq rep.rows)
         /\ (l = "legacy-business" => Experiment!RowsOf(rep, l) \subseteq LegacyRows)
BY DEF Experiment!RowsOf, Reports, Experiment!Labels

\* What is exported of the lines does not change by an export, nor do the traces expected.
LEMMA MarkedKeeps ==
  ASSUME NEW rep \in Reports, NEW label \in Experiment!Labels, NEW verdict \in Verdicts,
         NEW new, new = Experiment!Marked(rep, label, verdict)
  PROVE  /\ \A l \in Experiment!Labels : Publics(Experiment!RowsOf(new, l)) = Publics(Experiment!RowsOf(rep, l))
         /\ Publics(new.rows) = Publics(rep.rows)
         /\ {w.item : w \in new.legacy} = {w.item : w \in rep.legacy}
         /\ Experiment!Expected(new.rows) = Experiment!Expected(rep.rows)
<1>1. /\ new.rows = {Mark(rep, label, verdict, w) : w \in rep.rows}
      /\ new.legacy = {Mark(rep, label, verdict, w) : w \in rep.legacy}
  BY MarkedReport
<1>2. ASSUME NEW l \in Experiment!Labels
      PROVE  Publics(Experiment!RowsOf(new, l)) = Publics(Experiment!RowsOf(rep, l))
  <2>1. Experiment!RowsOf(new, l) = {Mark(rep, label, verdict, w) : w \in Experiment!RowsOf(rep, l)}
    BY MarkedRows
  <2>2. \A w \in Experiment!RowsOf(rep, l) : Experiment!Public(Mark(rep, label, verdict, w)) = Experiment!Public(w)
    BY RowsAreRows, MarkOfRow, MarkOfLegacy
  <2> QED BY <2>1, <2>2 DEF Publics
<1>3. /\ \A w \in rep.rows : /\ Experiment!Public(Mark(rep, label, verdict, w)) = Experiment!Public(w)
                             /\ Mark(rep, label, verdict, w).item = w.item
                             /\ Mark(rep, label, verdict, w).evidence = w.evidence
      /\ \A w \in rep.legacy : Mark(rep, label, verdict, w).item = w.item
  BY MarkOfRow, MarkOfLegacy DEF Reports
<1>4. Publics(new.rows) = Publics(rep.rows)
  BY <1>1, <1>3 DEF Publics
<1>5. {w.item : w \in new.legacy} = {w.item : w \in rep.legacy}
  BY <1>1, <1>3
<1>6. Experiment!Expected(new.rows) = Experiment!Expected(rep.rows)
  BY <1>1, <1>3 DEF Experiment!Expected
<1> QED BY <1>2, <1>4, <1>5, <1>6

\* Nor do they become infinitely many.
LEMMA MarkedAreFew ==
  ASSUME NEW rep \in Reports, NEW label \in Experiment!Labels, NEW verdict \in Verdicts,
         NEW new, new = Experiment!Marked(rep, label, verdict), IsFiniteSet(rep.rows)
  PROVE  IsFiniteSet(new.rows)
<1> DEFINE f == [w \in rep.rows |-> Mark(rep, label, verdict, w)]
<1>1. new.rows = {Mark(rep, label, verdict, w) : w \in rep.rows}
  BY MarkedReport
<1>2. f \in Surjection(rep.rows, new.rows)
  BY <1>1 DEF Surjection
<1> QED BY <1>2, FS_Surjection

\* An export sends the lines, or loses one of them, and marks what came back whole.
RelOutcome(who, rep, label, new, verdict) ==
  /\ new = Experiment!Marked(rep, label, verdict)
  /\ remote' \in Remotes /\ remote'.begun = remote.begun /\ remote'.ended = remote.ended
  /\ \A x \in {"run", "replay"}, l \in Experiment!Labels :
       <<x, l>> # <<who, label>> => remote'.rows[<<x, l>>] = remote.rows[<<x, l>>]
  /\ verdict = "PASS" => remote'.rows[<<who, label>>] = Publics(Experiment!RowsOf(rep, label))

\* Every export of the program is such an export.
LEMMA ExportedFacts ==
  ASSUME NEW rep \in Reports, NEW label \in Experiment!Labels, NEW who \in {"run", "replay"}, NEW new,
         remote \in Remotes, Experiment!Exported(who, rep, label, new)
  PROVE  \E verdict \in Verdicts : RelOutcome(who, rep, label, new, verdict)
<1> DEFINE lines == Experiment!RowsOf(rep, label)
           d == Experiment!Dataset(label)
           data == remote.data[d]
<1>1. d \in {"full", "business"} /\ <<who, label>> \in {"run", "replay"} \X Experiment!Labels
  BY DEF Experiment!Dataset
<1>2. CASE remote' = [remote EXCEPT !.data[d] = "empty"] /\ new = Experiment!Marked(rep, label, "INSUFFICIENT")
  <2>1. remote' \in Remotes /\ remote'.begun = remote.begun /\ remote'.ended = remote.ended /\ remote'.rows = remote.rows
    BY <1>1, <1>2 DEF Remotes
  <2> QED BY <1>2, <2>1 DEF Verdicts, RelOutcome
<1>3. CASE remote' = remote /\ new = Experiment!Marked(rep, label, "FAIL")
  BY <1>3 DEF Verdicts, RelOutcome
<1>4. ASSUME NEW sent \in {Publics(lines)} \cup {Publics(lines \ {x}) : x \in lines}, NEW scored \in BOOLEAN,
             remote' = [remote EXCEPT !.data[d] = "full", !.rows[<<who, label>>] = sent],
             new = Experiment!Marked(rep, label, IF Experiment!Readback(sent, lines, scored) THEN "PASS" ELSE "INSUFFICIENT")
      PROVE  \E verdict \in Verdicts : RelOutcome(who, rep, label, new, verdict)
  <2>1. sent \in SUBSET (ResultRows \cup LegacyRows)
    <3>1. \A w \in lines : Experiment!Public(w) \in ResultRows \cup LegacyRows
      BY RowsAreRows, PublicRow, PublicLegacy
    <3> QED BY <1>4, <3>1 DEF Publics
  <2> DEFINE verdict == IF Experiment!Readback(sent, lines, scored) THEN "PASS" ELSE "INSUFFICIENT"
             datas == [remote.data EXCEPT ![d] = "full"]
             sets == [remote.rows EXCEPT ![<<who, label>>] = sent]
  <2>2. verdict \in Verdicts /\ (verdict = "PASS" => sent = Publics(lines))
    BY DEF Verdicts, Experiment!Readback, Publics
  <2>3. datas \in [{"full", "business"} -> {Experiment!None, "empty", "full"}]
    BY <1>1 DEF Remotes
  <2>4. /\ sets \in [{"run", "replay"} \X Experiment!Labels -> SUBSET (ResultRows \cup LegacyRows)]
        /\ sets[<<who, label>>] = sent
        /\ \A x \in {"run", "replay"}, l \in Experiment!Labels :
             <<x, l>> # <<who, label>> => sets[<<x, l>>] = remote.rows[<<x, l>>]
    BY <1>1, <2>1 DEF Remotes
  <2>5. remote' = [remote EXCEPT !.data = datas, !.rows = sets]
    BY <1>4
  <2> HIDE DEF datas, sets, verdict
  <2>6. /\ remote' \in Remotes /\ remote'.begun = remote.begun /\ remote'.ended = remote.ended
        /\ remote'.rows = sets
    BY <2>3, <2>4, <2>5 DEF Remotes
  <2>7. new = Experiment!Marked(rep, label, verdict)
    BY <1>4 DEF verdict
  <2> QED BY <2>2, <2>4, <2>6, <2>7 DEF RelOutcome
<1> QED BY <1>2, <1>3, <1>4 DEF Experiment!Exported, Publics

\* A phase after the cases: all is recorded, and the report on the disk is that of the run.
LEMMA PhaseKeeps ==
  ASSUME ReleaseConstants, RelInv, rel_main \notin {"done", "dead"}, NEW phase, NEW new, Experiment!SavedAt(phase, new),
         phase \in Phases \ {"cases", "dead"}, \A i \in Experiment!Items : conv[i].pc = "recorded",
         new \in Reports, Publics(new.rows) = jsonl, IsFiniteSet(new.rows),
         new.legacy = {} \/ {w.item : w \in new.legacy} = Comparable \X Repeats,
         phase # "done" => new.release = "INSUFFICIENT" /\ ~new.finished,
         rel_journal' \in Traces, remote' \in Remotes, replay' = replay,
         Traceable', Returned', Experiment!ReleaseIsEarned'
  PROVE  RelInv'
<1>1. /\ rel_main' = phase /\ report' = new /\ disk' = new
      /\ conv' = conv /\ rel_lock' = rel_lock /\ jsonl' = jsonl
  BY DEF Experiment!SavedAt
<1>2. ReleaseTyped'
  BY <1>1 DEF RelInv, ReleaseTyped
<1>3. Conversing'
  BY <1>1 DEF RelInv, Conversing, Saving, RelBusy
<1>4. Recorded'
  <2>1. jsonl' = {Experiment!Row(j)' : j \in Written'}
    BY <1>1 DEF RelInv, Recorded, Written, Experiment!Row
  <2> QED BY <1>1, <2>1 DEF Recorded
<1>5. Saved'
  BY <1>1 DEF Saved, After
<1>6. Replaying'
  BY DEF RelInv, Replaying
<1> QED BY <1>2, <1>3, <1>4, <1>5, <1>6 DEF RelInv

\* What holds of the report in a phase after the cases.
LEMMA AfterCases ==
  ASSUME RelInv, rel_main \notin {"done", "dead"}, \A i \in Experiment!Items : conv[i].pc = "recorded"
  PROVE  /\ report \in Reports /\ Publics(report.rows) = jsonl /\ IsFiniteSet(report.rows)
         /\ report.release = "INSUFFICIENT" /\ ~report.finished
         /\ (rel_main # "cases" => disk = report)
         /\ (rel_main # "cases" => report.legacy = {} \/ {w.item : w \in report.legacy} = Comparable \X Repeats)
         /\ rel_journal \in Traces /\ remote \in Remotes /\ disk.release = "INSUFFICIENT"
BY DEF RelInv, ReleaseTyped, Recorded, Saved, After

\* A report that has not passed earns nothing yet.
LEMMA NotReleased ==
  ASSUME NEW phase, NEW new, Experiment!SavedAt(phase, new), new.release = "INSUFFICIENT"
  PROVE  Experiment!ReleaseIsEarned'
BY DEF Experiment!SavedAt, Experiment!ReleaseIsEarned

\* Rows that stay as they are stay returned.
LEMMA StillReturned ==
  ASSUME RelInv, NEW phase, NEW new, Experiment!SavedAt(phase, new), disk = report,
         new.rows = report.rows, new.legacy = report.legacy, remote'.rows = remote.rows
  PROVE  Returned'
<1>1. disk'.rows = disk.rows /\ disk'.legacy = disk.legacy
  BY DEF Experiment!SavedAt
<1>2. \A l : Experiment!RowsOf(disk', l) = Experiment!RowsOf(disk, l)
  BY <1>1 DEF Experiment!RowsOf
<1> QED BY <1>1, <1>2 DEF RelInv, Returned, ReadBack

\* The cases are run on the old version, or its process fails.
LEMMA LegacyKeeps == ASSUME ReleaseConstants, RelInv, Experiment!Legacy PROVE RelInv'
<1>1. /\ rel_main = "cases" /\ \A i \in Experiment!Items : conv[i].pc = "recorded"
      /\ UNCHANGED <<rel_journal, remote, replay>>
  BY DEF Experiment!Legacy
<1>2. /\ report \in Reports /\ Publics(report.rows) = jsonl /\ IsFiniteSet(report.rows)
      /\ report.release = "INSUFFICIENT" /\ ~report.finished
      /\ rel_journal \in Traces /\ remote \in Remotes
  BY <1>1, AfterCases
<1>3. PICK new \in Reports :
        /\ Experiment!SavedAt("trace", new) /\ new.rows = report.rows
        /\ new.legacy = report.legacy \/ {w.item : w \in new.legacy} = Comparable \X Repeats
        /\ new.release = report.release /\ new.finished = report.finished
        /\ new.native = report.native
  <2>1. CASE Experiment!SavedAt("trace", report)
    BY <1>2, <2>1
  <2>2. ASSUME NEW done \in SUBSET (Comparable \X Repeats), NEW met \in SUBSET (Comparable \X Repeats),
               Experiment!SavedAt("trace", [report EXCEPT !.legacy = {Experiment!LegacyRow(i, done, met) : i \in Comparable \X Repeats}])
        PROVE  \E new \in Reports :
                 /\ Experiment!SavedAt("trace", new) /\ new.rows = report.rows
                 /\ {w.item : w \in new.legacy} = Comparable \X Repeats
                 /\ new.release = report.release /\ new.finished = report.finished
                 /\ new.native = report.native
    <3> DEFINE former == {Experiment!LegacyRow(i, done, met) : i \in Comparable \X Repeats}
               new == [report EXCEPT !.legacy = former]
    <3>1. \A i \in Comparable \X Repeats :
            Experiment!LegacyRow(i, done, met) \in LegacyRows /\ Experiment!LegacyRow(i, done, met).item = i
      <4> TAKE i \in Comparable \X Repeats
      <4>1. Experiment!LegacyPass(i, done, met) \in BOOLEAN
        BY DEF Experiment!LegacyPass
      <4>2. PICK b \in BOOLEAN : b = Experiment!LegacyPass(i, done, met)
        BY <4>1
      <4>3. Experiment!LegacyRow(i, done, met) = [item |-> i, pass |-> b, returned |-> FALSE]
        BY <4>2 DEF Experiment!LegacyRow
      <4> QED BY <4>3 DEF LegacyRows
    <3>2. former \in SUBSET LegacyRows /\ {w.item : w \in former} = Comparable \X Repeats
      BY <3>1
    <3> HIDE DEF former
    <3>3. new \in Reports
      BY <1>2, <3>2 DEF Reports
    <3>4. /\ new.legacy = former /\ new.rows = report.rows /\ new.release = report.release
          /\ new.finished = report.finished /\ new.native = report.native
      BY <1>2 DEF Reports
    <3>5. Experiment!SavedAt("trace", new)
      BY <2>2 DEF former
    <3> HIDE DEF new
    <3> QED BY <3>2, <3>3, <3>4, <3>5
  <2> QED BY <2>1, <2>2 DEF Experiment!Legacy
<1>4. report.legacy = {} \/ {w.item : w \in report.legacy} = Comparable \X Repeats
  BY <1>1 DEF RelInv, Saved
<1>5. Returned'
  <2>1. \A w \in report.rows : ~w.returned
    BY <1>1, LinesAreRows DEF RelInv, Recorded
  <2> QED BY <1>3, <2>1 DEF Experiment!SavedAt, Returned
<1>6. Traceable'
  BY <1>1, <1>3 DEF RelInv, Traceable, Experiment!SavedAt, Experiment!None
<1>7. Experiment!ReleaseIsEarned'
  BY <1>2, <1>3, NotReleased
<1>8. "trace" \in Phases \ {"cases", "dead"}
  BY DEF Phases
<1> QED BY <1>1, <1>2, <1>3, <1>4, <1>5, <1>6, <1>7, <1>8, PhaseKeeps

\* The ends of the runs are journaled, one of them perhaps not.
LEMMA TracedKeeps == ASSUME ReleaseConstants, RelInv, Experiment!Traced PROVE RelInv'
<1>1. rel_main = "trace" /\ UNCHANGED <<remote, replay>>
  BY DEF Experiment!Traced
<1>2. \A i \in Experiment!Items : conv[i].pc = "recorded"
  BY <1>1 DEF RelInv, Saved, After
<1>3. /\ report \in Reports /\ Publics(report.rows) = jsonl /\ IsFiniteSet(report.rows)
      /\ report.release = "INSUFFICIENT" /\ ~report.finished /\ disk = report
      /\ report.legacy = {} \/ {w.item : w \in report.legacy} = Comparable \X Repeats
      /\ rel_journal \in Traces /\ remote \in Remotes
  BY <1>1, <1>2, AfterCases
<1>4. PICK begun \in SUBSET rel_journal.begun, ended \in SUBSET rel_journal.begun :
        /\ rel_journal' = [begun |-> begun, ended |-> ended]
        /\ Experiment!SavedAt("native", [report EXCEPT !.kept = ended,
             !.local = IF Experiment!Complete(rel_journal', Experiment!Expected(report.rows)) THEN "PASS" ELSE "INSUFFICIENT"])
  BY DEF Experiment!Traced
<1> DEFINE local == IF Experiment!Complete(rel_journal', Experiment!Expected(report.rows)) THEN "PASS" ELSE "INSUFFICIENT"
           new == [report EXCEPT !.kept = ended, !.local = local]
<1>5. rel_journal' \in Traces
  BY <1>3, <1>4 DEF Traces
<1>6. ended \in SUBSET Experiment!GraphRuns /\ local \in Verdicts
  BY <1>3 DEF Traces, Verdicts
<1> HIDE DEF local
<1>7. /\ new \in Reports /\ new.rows = report.rows /\ new.legacy = report.legacy
      /\ new.release = report.release /\ new.finished = report.finished
      /\ new.native = report.native
  BY <1>3, <1>6 DEF Reports
<1>8. Experiment!SavedAt("native", new)
  BY <1>4 DEF local
<1> HIDE DEF new
<1>9. Traceable'
  <2>1. remote.begun = {} /\ report.native = Experiment!None
    BY <1>1 DEF RelInv, Traceable
  <2> QED BY <1>1, <1>7, <1>8, <2>1 DEF Traceable, Experiment!SavedAt, Experiment!None
<1>10. Returned' /\ Experiment!ReleaseIsEarned'
  BY <1>1, <1>3, <1>7, <1>8, StillReturned, NotReleased
<1>11. "native" \in Phases \ {"cases", "dead"}
  BY DEF Phases
<1> QED BY <1>1, <1>2, <1>3, <1>5, <1>7, <1>8, <1>9, <1>10, <1>11, PhaseKeeps

\* The remote service is asked for the runs.
LEMMA NativeKeeps == ASSUME ReleaseConstants, RelInv, Experiment!Native PROVE RelInv'
<1>1. rel_main = "native" /\ UNCHANGED <<rel_journal, replay>>
  BY DEF Experiment!Native
<1>2. \A i \in Experiment!Items : conv[i].pc = "recorded"
  BY <1>1 DEF RelInv, Saved, After
<1>3. /\ report \in Reports /\ Publics(report.rows) = jsonl /\ IsFiniteSet(report.rows)
      /\ report.release = "INSUFFICIENT" /\ ~report.finished /\ disk = report
      /\ report.legacy = {} \/ {w.item : w \in report.legacy} = Comparable \X Repeats
      /\ rel_journal \in Traces /\ remote \in Remotes
  BY <1>1, <1>2, AfterCases
<1>4. PICK begun \in SUBSET rel_journal.begun, ended \in SUBSET rel_journal.begun :
        /\ remote' = [remote EXCEPT !.begun = begun, !.ended = ended]
        /\ Experiment!SavedAt("graph", [report EXCEPT !.native =
             IF Experiment!Expected(report.rows) \subseteq begun THEN "PASS" ELSE "INSUFFICIENT"])
  BY DEF Experiment!Native
<1> DEFINE native == IF Experiment!Expected(report.rows) \subseteq begun THEN "PASS" ELSE "INSUFFICIENT"
           new == [report EXCEPT !.native = native]
<1>5. /\ remote' \in Remotes /\ remote'.begun = begun /\ remote'.rows = remote.rows
  BY <1>3, <1>4 DEF Remotes, Traces
<1>6. native \in Verdicts /\ (native = "PASS" => Experiment!Expected(report.rows) \subseteq begun)
  BY DEF Verdicts
<1> HIDE DEF native
<1>7. /\ new \in Reports /\ new.rows = report.rows /\ new.legacy = report.legacy
      /\ new.release = report.release /\ new.finished = report.finished /\ new.native = native
  BY <1>3, <1>6 DEF Reports
<1>8. Experiment!SavedAt("graph", new)
  BY <1>4 DEF native
<1> HIDE DEF new
<1>9. Traceable'
  <2>1. rel_main' = "graph" /\ report' = new /\ conv' = conv
    BY <1>8 DEF Experiment!SavedAt
  <2>2. Experiment!Expected(report.rows)' = Experiment!Expected(report.rows)
    BY <1>7, <2>1 DEF Experiment!Expected
  <2> QED BY <1>1, <1>4, <1>5, <1>6, <1>7, <2>1, <2>2 DEF Traceable
<1>10. Returned' /\ Experiment!ReleaseIsEarned'
  BY <1>3, <1>5, <1>7, <1>8, StillReturned, NotReleased
<1>11. "graph" \in Phases \ {"cases", "dead"}
  BY DEF Phases
<1> QED BY <1>1, <1>2, <1>3, <1>5, <1>7, <1>8, <1>9, <1>10, <1>11, PhaseKeeps

\* The lines of a label are exported, unless there are none.
LEMMA ExportKeeps ==
  ASSUME ReleaseConstants, RelInv, NEW label \in Experiment!Labels, Experiment!Export(label)
  PROVE  RelInv'
<1>1. rel_main = label /\ UNCHANGED <<rel_journal, replay>>
  BY DEF Experiment!Export
<1>2. rel_main \notin {"cases", "trace", "native", "done", "dead"}
  BY <1>1 DEF Experiment!Labels
<1>3. \A i \in Experiment!Items : conv[i].pc = "recorded"
  BY <1>2 DEF RelInv, Saved, After
<1>4. /\ report \in Reports /\ Publics(report.rows) = jsonl /\ IsFiniteSet(report.rows)
      /\ report.release = "INSUFFICIENT" /\ ~report.finished /\ disk = report
      /\ report.legacy = {} \/ {w.item : w \in report.legacy} = Comparable \X Repeats
      /\ rel_journal \in Traces /\ remote \in Remotes
  BY <1>2, <1>3, AfterCases
<1>5. /\ Experiment!Following(label) \in Phases \ {"cases", "dead"}
      /\ Experiment!Following(label) \notin {"cases", "trace", "native", "done"}
  BY DEF Experiment!Following, Phases, Experiment!Labels
<1>6. CASE Experiment!SavedAt(Experiment!Following(label), report) /\ UNCHANGED remote
  <2>1. Traceable'
    <3>1. Experiment!Expected(report.rows)' = Experiment!Expected(report.rows)
      BY <1>6 DEF Experiment!SavedAt, Experiment!Expected
    <3> QED BY <1>1, <1>2, <1>5, <1>6, <3>1 DEF RelInv, Traceable, Experiment!SavedAt
  <2>2. Returned' /\ Experiment!ReleaseIsEarned'
    BY <1>4, <1>6, StillReturned, NotReleased
  <2> QED BY <1>1, <1>2, <1>3, <1>4, <1>5, <1>6, <2>1, <2>2, PhaseKeeps
<1>7. CASE \E new : Experiment!Exported("run", report, label, new) /\ Experiment!SavedAt(Experiment!Following(label), new)
  <2>1. PICK new : Experiment!Exported("run", report, label, new) /\ Experiment!SavedAt(Experiment!Following(label), new)
    BY <1>7
  <2>2. PICK verdict \in Verdicts : RelOutcome("run", report, label, new, verdict)
    BY <1>4, <2>1, ExportedFacts
  <2>15. /\ new = Experiment!Marked(report, label, verdict)
        /\ remote' \in Remotes /\ remote'.begun = remote.begun
    BY <2>2 DEF RelOutcome
  <2>3. /\ new \in Reports /\ new.rows = {Mark(report, label, verdict, w) : w \in report.rows}
        /\ new.native = report.native /\ new.release = report.release
        /\ new.finished = report.finished
    BY <1>4, <2>15, MarkedReport
  <2>4. /\ \A l \in Experiment!Labels : Publics(Experiment!RowsOf(new, l)) = Publics(Experiment!RowsOf(report, l))
        /\ Publics(new.rows) = Publics(report.rows)
        /\ {w.item : w \in new.legacy} = {w.item : w \in report.legacy}
        /\ Experiment!Expected(new.rows) = Experiment!Expected(report.rows)
    <3>1. report \in Reports /\ new = Experiment!Marked(report, label, verdict)
      BY <1>4, <2>15
    <3>2. \A l \in Experiment!Labels : Publics(Experiment!RowsOf(new, l)) = Publics(Experiment!RowsOf(report, l))
      BY <3>1, MarkedKeeps
    <3>3. Publics(new.rows) = Publics(report.rows) /\ Experiment!Expected(new.rows) = Experiment!Expected(report.rows)
      BY <3>1, MarkedKeeps
    <3>4. {w.item : w \in new.legacy} = {w.item : w \in report.legacy}
      BY <3>1, MarkedKeeps
    <3> QED BY <3>2, <3>3, <3>4
  <2>16. IsFiniteSet(new.rows)
    BY <1>4, <2>15, MarkedAreFew
  <2>5. /\ rel_main' = Experiment!Following(label) /\ report' = new /\ disk' = new /\ conv' = conv
    BY <2>1 DEF Experiment!SavedAt
  <2>6. Traceable'
    <3>1. Experiment!Expected(report.rows)' = Experiment!Expected(report.rows)
      BY <2>4, <2>5 DEF Experiment!Expected
    <3>2. report.native = "PASS" => Experiment!Expected(report.rows) \subseteq remote.begun
      BY <1>2 DEF RelInv, Traceable
    <3> QED BY <1>1, <1>5, <2>15, <2>3, <2>5, <3>1, <3>2 DEF RelInv, Traceable
  <2>7. Returned'
    <3>1. SUFFICES ASSUME NEW v \in new.rows, v.returned
                   PROVE  \E l \in {"graph", "graph-business"} :
                            v \in Experiment!RowsOf(new, l) /\ remote'.rows[<<"run", l>>] = Publics(Experiment!RowsOf(new, l))
      BY <2>5 DEF Returned, ReadBack
    <3>2. PICK w \in report.rows : v = Mark(report, label, verdict, w)
      BY <2>3
    <3>3. w \in ResultRows
      BY <1>4 DEF Reports
    <3>4. IF w \in Experiment!RowsOf(report, label) THEN verdict = "PASS" ELSE v = w /\ w.returned
      BY <3>1, <3>2, <3>3, MarkOfRow
    <3>5. CASE w \in Experiment!RowsOf(report, label)
      <4>1. label \in {"graph", "graph-business"}
        BY <3>3, <3>5, RowsAreRows, VersionsDiffer, <1>4 DEF Experiment!Labels
      <4>2. v \in Experiment!RowsOf(new, label)
        BY <1>4, <2>15, <3>2, <3>5, MarkedRows
      <4> QED BY <2>2, <2>4, <3>4, <3>5, <4>1, <4>2 DEF RelOutcome, Experiment!Labels
    <3>6. CASE w \notin Experiment!RowsOf(report, label)
      <4>1. PICK l \in {"graph", "graph-business"} : w \in Experiment!RowsOf(report, l) /\ ReadBack(l)
        BY <1>4, <3>4, <3>6 DEF RelInv, Returned
      <4>2. l \in Experiment!Labels /\ l # label
        BY <3>6, <4>1 DEF Experiment!Labels
      <4>3. v \in Experiment!RowsOf(new, l)
        BY <1>4, <2>15, <3>2, <4>1, <4>2, MarkedRows
      <4>4. remote'.rows[<<"run", l>>] = remote.rows[<<"run", l>>]
        BY <2>2, <4>2 DEF RelOutcome
      <4>5. remote.rows[<<"run", l>>] = Publics(Experiment!RowsOf(report, l))
        BY <1>4, <4>1 DEF ReadBack
      <4> QED BY <2>4, <4>1, <4>2, <4>3, <4>4, <4>5
    <3> QED BY <3>5, <3>6
  <2>8. Experiment!ReleaseIsEarned'
    BY <1>4, <2>1, <2>3, NotReleased
  <2>9. new.legacy = {} \/ {w.item : w \in new.legacy} = Comparable \X Repeats
    BY <1>4, <2>4
  <2> QED BY <1>1, <1>2, <1>3, <1>4, <1>5, <2>1, <2>15, <2>3, <2>4, <2>6, <2>7, <2>8, <2>9,
     <2>16, PhaseKeeps
<1> QED BY <1>6, <1>7 DEF Experiment!Export

\* A comparison that passes has lines of both versions.
LEMMA ComparedBoth ==
  ASSUME NEW rep \in Reports, IsFiniteSet(rep.rows), Experiment!Comparison(rep) = "PASS"
  PROVE  rep.legacy # {}
<1> DEFINE each == {Experiment!Compared(c, rep.rows, rep.legacy) : c \in Comparable}
<1>1. each = {"PASS"}
  BY DEF Experiment!Comparison
<1>2. PICK c \in Comparable : Experiment!Compared(c, rep.rows, rep.legacy) = "PASS"
  BY <1>1
<1> DEFINE new == {w \in rep.rows : w.item[1] = c}
           former == {w \in rep.legacy : w.item[1] = c}
<1>3. new # {} /\ Cardinality(new) = Cardinality(former)
  BY <1>2, ExperimentCounts DEF Experiment!Compared
<1>4. IsFiniteSet(new) /\ Cardinality(new) # 0
  BY <1>3, FS_Subset, FS_EmptySet
<1>5. former # {}
  BY <1>3, <1>4, FS_EmptySet
<1> QED BY <1>5

\* A report that passes earned it.
LEMMA PassedIsEarned ==
  ASSUME ReleaseConstants, RelInv, rel_main = "finish",
         Experiment!Acceptance({Experiment!Deterministic(report.rows), Experiment!Quality(report.rows), Experiment!Risk(report.rows),
                     Experiment!RemoteStatus(report), Experiment!Comparison(report)}) = "PASS"
  PROVE  /\ \A i \in Experiment!Items : conv[i].met /\ \E w \in report.rows : w.item = i /\ w.ok /\ w.evidence /\ w.pass
         /\ {w.item : w \in report.legacy} = Comparable \X Repeats
         /\ Publics(report.rows) \subseteq jsonl
         /\ \A i \in Experiment!Items : \A t \in 1 .. conv[i].turn : <<i, t>> \in remote.begun
<1>1. /\ Experiment!Deterministic(report.rows) = "PASS"
      /\ Experiment!RemoteStatus(report) = "PASS"
      /\ Experiment!Comparison(report) = "PASS"
  BY DEF Experiment!Acceptance
<1>2. /\ report \in Reports /\ IsFiniteSet(report.rows) /\ Publics(report.rows) = jsonl
      /\ \A i \in Experiment!Items : conv[i] \in ConvRows /\ conv[i].pc = "recorded"
  BY DEF RelInv, ReleaseTyped, Recorded, Saved, After
<1>3. \A w \in report.rows : w \in ResultRows /\ w.pass
  BY <1>1, <1>2 DEF Experiment!Deterministic, Reports
<1>4. ASSUME NEW i \in Experiment!Items
      PROVE  conv[i].met /\ \E w \in report.rows : w.item = i /\ w.ok /\ w.evidence /\ w.pass
  <2>1. Experiment!Row(i) \in jsonl
    BY <1>2 DEF RelInv, Recorded, Written
  <2>2. PICK w \in report.rows : Experiment!Public(w) = Experiment!Row(i)
    BY <1>2, <2>1 DEF Publics
  <2>3. /\ w.item = Experiment!Row(i).item /\ w.ok = Experiment!Row(i).ok
        /\ w.evidence = Experiment!Row(i).evidence
        /\ w.pass = Experiment!Row(i).pass /\ w.pass
    BY <1>3, <2>2, PublicRow
  <2>4. w.item = i /\ w.ok = ~conv[i].error /\ w.evidence = conv[i].evidence /\ conv[i].met
        /\ conv[i].evidence /\ ~conv[i].error
    BY <2>3, RowFits
  <2> QED BY <2>3, <2>4
<1>5. {w.item : w \in report.legacy} = Comparable \X Repeats
  <2>1. report.legacy # {}
    BY <1>1, <1>2, ComparedBoth
  <2> QED BY <2>1 DEF RelInv, Saved, After
<1>6. ASSUME NEW i \in Experiment!Items, NEW t \in 1 .. conv[i].turn
      PROVE  <<i, t>> \in remote.begun
  <2>1. Experiment!Expected(report.rows) \subseteq remote.begun
    BY <1>1 DEF RelInv, Traceable, Experiment!RemoteStatus
  <2>2. t \in 1 .. Turns /\ t <= conv[i].turn /\ conv[i].turn \in Nat /\ t \in Nat
    BY <1>2 DEF ConvRows, ReleaseConstants
  <2>3. <<i, t>> \in Experiment!GraphRuns
    BY <2>2 DEF Experiment!GraphRuns
  <2>4. <<i, t>> \in Experiment!Expected(report.rows)
    BY <1>4, <2>2, <2>3 DEF Experiment!Expected
  <2> QED BY <2>1, <2>4
<1> QED BY <1>2, <1>4, <1>5, <1>6

\* The release verdict is decided.
LEMMA FinishKeeps == ASSUME ReleaseConstants, RelInv, Experiment!Finish PROVE RelInv'
<1>1. rel_main = "finish" /\ UNCHANGED <<rel_journal, remote, replay>>
  BY DEF Experiment!Finish
<1>2. \A i \in Experiment!Items : conv[i].pc = "recorded"
  BY <1>1 DEF RelInv, Saved, After
<1>3. /\ report \in Reports /\ Publics(report.rows) = jsonl /\ IsFiniteSet(report.rows)
      /\ disk = report
      /\ report.legacy = {} \/ {w.item : w \in report.legacy} = Comparable \X Repeats
      /\ rel_journal \in Traces /\ remote \in Remotes
  BY <1>1, <1>2, AfterCases
<1> DEFINE earned == Experiment!Acceptance({Experiment!Deterministic(report.rows), Experiment!Quality(report.rows), Experiment!Risk(report.rows),
                                  Experiment!RemoteStatus(report), Experiment!Comparison(report)})
<1>4. PICK frozen \in BOOLEAN :
        Experiment!SavedAt("done", [report EXCEPT !.finished = TRUE, !.frozen = frozen, !.release = earned])
  BY DEF Experiment!Finish
<1> DEFINE new == [report EXCEPT !.finished = TRUE, !.frozen = frozen, !.release = earned]
<1>5. earned \in Verdicts
  BY DEF Experiment!Acceptance, Verdicts
<1>6. earned = "PASS" =>
        /\ \A i \in Experiment!Items : conv[i].met /\ \E w \in report.rows : w.item = i /\ w.ok /\ w.evidence /\ w.pass
        /\ {w.item : w \in report.legacy} = Comparable \X Repeats
        /\ Publics(report.rows) \subseteq jsonl
        /\ \A i \in Experiment!Items : \A t \in 1 .. conv[i].turn : <<i, t>> \in remote.begun
  BY <1>1, PassedIsEarned
<1> HIDE DEF earned
<1>7. /\ new \in Reports /\ new.rows = report.rows /\ new.legacy = report.legacy
      /\ new.release = earned /\ new.native = report.native
  BY <1>3, <1>5 DEF Reports
<1>8. Experiment!SavedAt("done", new)
  BY <1>4
<1> HIDE DEF new
<1>9. rel_main' = "done" /\ report' = new /\ disk' = new /\ conv' = conv /\ jsonl' = jsonl
  BY <1>8 DEF Experiment!SavedAt
<1>10. Traceable'
  <2>1. Experiment!Expected(report.rows)' = Experiment!Expected(report.rows)
    BY <1>7, <1>9 DEF Experiment!Expected
  <2> QED BY <1>1, <1>7, <1>9, <2>1 DEF RelInv, Traceable
<1>11. Returned'
  BY <1>1, <1>3, <1>7, <1>8, StillReturned
<1>12. Experiment!ReleaseIsEarned'
  BY <1>1, <1>6, <1>7, <1>9 DEF Experiment!ReleaseIsEarned, Publics
<1>13. "done" \in Phases \ {"cases", "dead"}
  BY DEF Phases
<1> QED BY <1>1, <1>2, <1>3, <1>7, <1>8, <1>10, <1>11, <1>12, <1>13, PhaseKeeps

\* The empty report.
LEMMA NoReportFits ==
  /\ Experiment!NoReport \in Reports /\ Experiment!NoReport.rows = {}
  /\ Experiment!NoReport.legacy = {} /\ Experiment!NoReport.native = Experiment!None
  /\ Experiment!NoReport.release = "INSUFFICIENT" /\ ~Experiment!NoReport.finished
BY DEF Experiment!NoReport, Reports, Verdicts, Experiment!None

\* A killed experiment keeps what is on the disk.
LEMMA KillKeeps == ASSUME ReleaseConstants, RelInv, Experiment!Kill PROVE RelInv'
<1>1. /\ rel_main \notin {"done", "dead"} /\ rel_main' = "dead" /\ rel_lock' = {}
      /\ report' = Experiment!NoReport
      /\ UNCHANGED <<conv, disk, jsonl, rel_journal, remote, replay>>
  BY DEF Experiment!Kill
<1>2. ReleaseTyped'
  <2>1. rel_lock' \in SUBSET Experiment!Items /\ rel_main' \in Phases /\ report' \in Reports
    BY <1>1, NoReportFits DEF Phases
  <2> QED BY <1>1, <2>1 DEF RelInv, ReleaseTyped
<1>3. Conversing'
  BY <1>1 DEF RelInv, Conversing, RelBusy
<1>4. Recorded'
  <2>1. jsonl' = {Experiment!Row(j)' : j \in Written'}
    BY <1>1 DEF RelInv, Recorded, Written, Experiment!Row
  <2> QED BY <1>1, <2>1 DEF RelInv, Recorded
<1>5. Saved' /\ Traceable' /\ Replaying'
  <2>1. Saved'
    BY <1>1 DEF RelInv, Saved, After
  <2>2. Traceable'
    BY <1>1, NoReportFits DEF RelInv, Traceable
  <2>3. Replaying'
    BY <1>1 DEF RelInv, Replaying
  <2> QED BY <2>1, <2>2, <2>3
<1>6. Returned'
  BY <1>1 DEF RelInv, Returned, ReadBack
<1>7. Experiment!ReleaseIsEarned'
  <2>1. disk.release = "INSUFFICIENT"
    BY <1>1 DEF RelInv, Saved
  <2> QED BY <1>1, <2>1 DEF Experiment!ReleaseIsEarned
<1> QED BY <1>2, <1>3, <1>4, <1>5, <1>6, <1>7 DEF RelInv

\* The labels of pairs, one pair more.
LEMMA OneMoreFirst ==
  ASSUME NEW S, NEW a, NEW b
  PROVE  {e[1] : e \in S \cup {<<a, b>>}} = {e[1] : e \in S} \cup {a}
<1> DEFINE L == {e[1] : e \in S \cup {<<a, b>>}}
           R == {e[1] : e \in S} \cup {a}
           p == <<a, b>>
<1>1. p[1] = a
  OBVIOUS
<1>2. ASSUME NEW x \in L PROVE x \in R
  <2>1. PICK e \in S \cup {p} : x = e[1]
    BY <1>2
  <2> QED BY <1>1, <2>1
<1>3. ASSUME NEW x \in R PROVE x \in L
  <2>1. CASE x = a
    <3>1. p \in S \cup {p} /\ x = p[1]
      BY <1>1, <2>1
    <3> QED BY <3>1
  <2>2. CASE x \in {e[1] : e \in S}
    BY <2>2
  <2> QED BY <1>3, <2>1, <2>2
<1> QED BY <1>2, <1>3

\* A step of the replay leaves the experiment as it is.
LEMMA ReplayKeeps ==
  ASSUME ReleaseConstants, RelInv, rel_main = "done", UNCHANGED <<conv, rel_lock, report, disk, jsonl, rel_journal, rel_main>>,
         replay' \in Replays, remote' \in Remotes, remote.begun \subseteq remote'.begun,
         remote'.begun \subseteq rel_journal.begun,
         \A l \in Experiment!Labels : remote'.rows[<<"run", l>>] = remote.rows[<<"run", l>>],
         Replaying'
  PROVE  RelInv'
<1>1. ReleaseTyped'
  BY DEF RelInv, ReleaseTyped
<1>2. Conversing'
  BY DEF RelInv, Conversing, Saving, RelBusy
<1>3. Recorded'
  <2>1. jsonl' = {Experiment!Row(j)' : j \in Written'}
    BY DEF RelInv, Recorded, Written, Experiment!Row
  <2> QED BY <2>1 DEF RelInv, Recorded
<1>4. Saved'
  BY DEF RelInv, Saved, After
<1>5. Traceable'
  <2>1. Experiment!Expected(report.rows)' = Experiment!Expected(report.rows)
    BY DEF Experiment!Expected
  <2> QED BY <2>1 DEF RelInv, Traceable
<1>6. Returned'
  BY DEF RelInv, Returned, ReadBack, Experiment!Labels
<1>7. Experiment!ReleaseIsEarned'
  BY DEF RelInv, Experiment!ReleaseIsEarned
<1> QED BY <1>1, <1>2, <1>3, <1>4, <1>5, <1>6, <1>7 DEF RelInv

\* What holds while a replay is under way.
LEMMA ReplayFacts ==
  ASSUME RelInv
  PROVE  /\ replay \in Replays /\ remote \in Remotes /\ rel_journal \in Traces /\ disk \in Reports
         /\ remote.begun \subseteq rel_journal.begun
         /\ (replay.pc # "idle" => rel_main = "done")
BY DEF RelInv, ReleaseTyped, Traceable, Replaying

\* A finished experiment is taken up for replay.
LEMMA ValidateKeeps == ASSUME ReleaseConstants, RelInv, Experiment!Validate PROVE RelInv'
<1> DEFINE new == [disk EXCEPT !.exports = {}, !.native = Experiment!None, !.release = "INSUFFICIENT"]
<1>1. /\ rel_main \in {"done", "dead"} /\ disk.finished /\ disk.frozen
      /\ replay' = [pc |-> "upload", expected |-> Experiment!Expected(disk.rows), report |-> new]
      /\ UNCHANGED <<conv, rel_lock, report, disk, jsonl, rel_journal, remote, rel_main>>
  BY DEF Experiment!Validate, Experiment!Replayable, Experiment!run
<1>2. rel_main = "done"
  BY <1>1 DEF RelInv, Saved
<1>3. /\ new \in Reports /\ new.exports = {} /\ new.native = Experiment!None
      /\ new.rows = disk.rows
      /\ new.legacy = disk.legacy
  BY ReplayFacts DEF Reports, Verdicts
<1> HIDE DEF new
<1>4. Experiment!Expected(disk.rows) \in SUBSET Experiment!GraphRuns
  BY DEF Experiment!Expected
<1>5. /\ replay' \in Replays /\ replay'.pc = "upload"
      /\ replay'.expected = Experiment!Expected(disk.rows)
      /\ replay'.report = new
  BY <1>1, <1>3, <1>4 DEF Replays
<1>6. Replaying'
  <2>1. Experiment!Expected(disk.rows)' = Experiment!Expected(disk.rows)
    BY <1>1 DEF Experiment!Expected
  <2>2. \A l \in Experiment!Labels : Experiment!RowsOf(new, l) = Experiment!RowsOf(disk, l)
    BY <1>3 DEF Experiment!RowsOf
  <2>3. {e[1] : e \in new.exports} = Before("upload")
    BY <1>3 DEF Before
  <2> QED BY <1>1, <1>2, <1>3, <1>5, <2>1, <2>2, <2>3 DEF Replaying, Experiment!None
<1> QED BY <1>1, <1>2, <1>5, <1>6, ReplayFacts, ReplayKeeps

\* A replay that has halted.
LEMMA HaltedKeeps ==
  ASSUME ReleaseConstants, RelInv, replay.pc # "idle", Experiment!Halted,
         UNCHANGED <<conv, rel_lock, report, disk, jsonl, rel_journal, remote, rel_main>>
  PROVE  RelInv'
<1>1. /\ replay' \in Replays /\ replay'.pc = "failed" /\ replay'.expected = replay.expected
      /\ replay'.report = replay.report
  BY ReplayFacts DEF Experiment!Halted, Replays
<1>2. Replaying'
  <2>1. Experiment!Expected(disk.rows)' = Experiment!Expected(disk.rows)
    BY DEF Experiment!Expected
  <2> QED BY <1>1, <2>1 DEF RelInv, Replaying
<1> QED BY <1>1, <1>2, ReplayFacts, ReplayKeeps

\* The spans are sent.
LEMMA UploadKeeps == ASSUME ReleaseConstants, RelInv, Experiment!Upload PROVE RelInv'
<1>1. /\ replay.pc = "upload"
      /\ UNCHANGED <<conv, rel_lock, report, disk, jsonl, rel_journal, remote, rel_main>>
  BY DEF Experiment!Upload, Experiment!run
<1>2. CASE replay' = [replay EXCEPT !.pc = "query"]
  <2>1. /\ replay' \in Replays /\ replay'.pc = "query" /\ replay'.expected = replay.expected
        /\ replay'.report = replay.report
    BY <1>2, ReplayFacts DEF Replays
  <2>2. Before("query") = Before("upload")
    BY DEF Before
  <2>3. Replaying'
    <3>1. Experiment!Expected(disk.rows)' = Experiment!Expected(disk.rows)
      BY <1>1 DEF Experiment!Expected
    <3> QED BY <1>1, <2>1, <2>2, <3>1 DEF RelInv, Replaying
  <2> QED BY <1>1, <2>1, <2>3, ReplayFacts, ReplayKeeps
<1>3. CASE Experiment!Halted
  BY <1>1, <1>3, HaltedKeeps
<1> QED BY <1>2, <1>3 DEF Experiment!Upload

\* The service is asked what it took in.
LEMMA RelQueryKeeps == ASSUME ReleaseConstants, RelInv, Experiment!Query PROVE RelInv'
<1> DEFINE native == IF replay.expected \subseteq remote'.ended THEN "PASS" ELSE "INSUFFICIENT"
           new == [replay.report EXCEPT !.native = native]
<1>1. /\ replay.pc = "query"
      /\ UNCHANGED <<conv, rel_lock, report, disk, jsonl, rel_journal, rel_main>>
      /\ remote' \in {remote, [remote EXCEPT !.begun = rel_journal.begun, !.ended = rel_journal.ended]}
      /\ replay' = [replay EXCEPT !.pc = "graph", !.report = new]
  BY DEF Experiment!Query, Experiment!Refs, Experiment!run
<1>2. /\ remote' \in Remotes /\ remote.begun \subseteq remote'.begun
      /\ remote'.begun \subseteq rel_journal.begun /\ remote'.rows = remote.rows
  BY <1>1, ReplayFacts DEF Remotes, Traces
<1>3. native \in Verdicts /\ (native = "PASS" => replay.expected \subseteq remote'.ended)
  BY DEF Verdicts
<1> HIDE DEF native
<1>4. replay.report \in Reports
  BY ReplayFacts DEF Replays
<1>5. /\ new \in Reports /\ new.rows = replay.report.rows /\ new.legacy = replay.report.legacy
      /\ new.exports = replay.report.exports /\ new.native = native
  BY <1>3, <1>4 DEF Reports
<1> HIDE DEF new
<1>6. /\ replay' \in Replays /\ replay'.pc = "graph" /\ replay'.expected = replay.expected
      /\ replay'.report = new
  BY <1>1, <1>5, ReplayFacts DEF Replays
<1>7. Replaying'
  <2>1. Experiment!Expected(disk.rows)' = Experiment!Expected(disk.rows)
    BY <1>1 DEF Experiment!Expected
  <2>2. \A l \in Experiment!Labels : Experiment!RowsOf(new, l) = Experiment!RowsOf(replay.report, l)
    BY <1>5 DEF Experiment!RowsOf
  <2>3. Before("graph") = Before("query")
    BY DEF Before
  <2> QED BY <1>1, <1>2, <1>3, <1>5, <1>6, <2>1, <2>2, <2>3 DEF RelInv, Replaying
<1> QED BY <1>1, <1>2, <1>6, <1>7, ReplayFacts, ReplayKeeps

\* The lines of a label are exported again.
LEMMA ReplayExportKeeps ==
  ASSUME ReleaseConstants, RelInv, NEW label \in Experiment!Labels,
         Experiment!ReplayExport(label)
  PROVE  RelInv'
<1>1. replay.pc = label /\ UNCHANGED <<conv, rel_lock, report, disk, jsonl, rel_journal, rel_main>>
  BY DEF Experiment!ReplayExport, Experiment!run
<1>2. replay.pc \notin {"idle", "upload", "query", "failed"}
  BY <1>1 DEF Experiment!Labels
<1>3. CASE Experiment!Halted /\ UNCHANGED remote
  BY <1>1, <1>2, <1>3, HaltedKeeps
<1>4. CASE \E new : /\ Experiment!Exported("replay", replay.report, label, new)
                   /\ replay' = [replay EXCEPT !.pc = Experiment!Following(label), !.report = new]
  <2> DEFINE rep == replay.report
  <2>1. PICK new : /\ Experiment!Exported("replay", rep, label, new)
                   /\ replay' = [replay EXCEPT !.pc = Experiment!Following(label), !.report = new]
    BY <1>4
  <2>2. rep \in Reports /\ remote \in Remotes
    BY ReplayFacts DEF Replays
  <2>3. PICK verdict \in Verdicts : RelOutcome("replay", rep, label, new, verdict)
    BY <2>1, <2>2, ExportedFacts
  <2>4. /\ new = Experiment!Marked(rep, label, verdict)
        /\ remote' \in Remotes /\ remote'.begun = remote.begun /\ remote'.ended = remote.ended
    BY <2>3 DEF RelOutcome
  <2>5. /\ new \in Reports /\ new.exports = rep.exports \cup {<<label, verdict>>}
        /\ new.native = rep.native
    BY <2>2, <2>4, MarkedReport
  <2>6. \A l \in Experiment!Labels : Publics(Experiment!RowsOf(new, l)) = Publics(Experiment!RowsOf(rep, l))
    BY <2>2, <2>4, MarkedKeeps
  <2>7. /\ Experiment!Following(label) \in {"graph-business", "legacy-business", "finish"}
        /\ Before(Experiment!Following(label)) = Before(label) \cup {label}
        /\ label \notin Before(label)
    BY DEF Experiment!Following, Before, Experiment!Labels
  <2>8. /\ replay' \in Replays /\ replay'.pc = Experiment!Following(label)
        /\ replay'.expected = replay.expected
        /\ replay'.report = new
    BY <2>1, <2>5, <2>7, ReplayFacts DEF Replays
  <2>9. \A l \in Experiment!Labels : remote'.rows[<<"run", l>>] = remote.rows[<<"run", l>>]
    BY <2>3 DEF RelOutcome
  <2>10. {e[1] : e \in rep.exports} = Before(label)
    BY <1>1, <1>2 DEF RelInv, Replaying
  <2>11. {e[1] : e \in new.exports} = Before(Experiment!Following(label))
    <3>1. {e[1] : e \in rep.exports \cup {<<label, verdict>>}} = {e[1] : e \in rep.exports} \cup {label}
      BY OneMoreFirst
    <3> QED BY <2>5, <2>7, <2>10, <3>1
  <2>12. ASSUME NEW l \in Experiment!Labels, <<l, "PASS">> \in new.exports
         PROVE  remote'.rows[<<"replay", l>>] = Publics(Experiment!RowsOf(disk, l))
    <3>1. CASE l = label
      <4>1. <<label, "PASS">> \notin rep.exports
        BY <2>7, <2>10
      <4>2. verdict = "PASS"
        BY <2>5, <2>12, <3>1, <4>1
      <4>3. remote'.rows[<<"replay", label>>] = Publics(Experiment!RowsOf(rep, label))
        BY <2>3, <4>2 DEF RelOutcome
      <4> QED BY <1>2, <3>1, <4>3 DEF RelInv, Replaying
    <3>2. CASE l # label
      <4>1. <<l, "PASS">> \in rep.exports
        BY <2>5, <2>12, <3>2
      <4>2. remote'.rows[<<"replay", l>>] = remote.rows[<<"replay", l>>]
        BY <2>3, <3>2 DEF RelOutcome
      <4> QED BY <1>2, <4>1, <4>2 DEF RelInv, Replaying
    <3> QED BY <3>1, <3>2
  <2>13. Replaying'
    <3>1. Experiment!Expected(disk.rows)' = Experiment!Expected(disk.rows)
      BY <1>1 DEF Experiment!Expected
    <3>2. /\ rel_main = "done" /\ disk.finished /\ disk.frozen
          /\ replay.expected = Experiment!Expected(disk.rows)
          /\ \A l \in Experiment!Labels : Publics(Experiment!RowsOf(rep, l)) = Publics(Experiment!RowsOf(disk, l))
          /\ (rep.native = "PASS" => replay.expected \subseteq remote.ended)
      BY <1>2 DEF RelInv, Replaying
    <3> QED BY <1>1, <2>4, <2>5, <2>6, <2>7, <2>8, <2>11, <2>12, <3>1, <3>2 DEF Replaying
  <2>14. rel_main = "done" /\ remote.begun \subseteq rel_journal.begun
    BY <1>2, ReplayFacts
  <2> QED BY <1>1, <2>4, <2>8, <2>9, <2>13, <2>14, ReplayKeeps
<1> QED BY <1>3, <1>4 DEF Experiment!ReplayExport

\* The replay is complete, or not.
LEMMA ReplayEndsKeeps == ASSUME ReleaseConstants, RelInv, Experiment!ReplayEnds PROVE RelInv'
<1> DEFINE whole == (\A e \in replay.report.exports : e[2] = "PASS") /\ replay.report.native = "PASS"
<1>1. /\ replay.pc = "finish"
      /\ UNCHANGED <<conv, rel_lock, report, disk, jsonl, rel_journal, remote, rel_main>>
      /\ replay' = [replay EXCEPT !.pc = IF whole THEN "complete" ELSE "failed"]
  BY DEF Experiment!ReplayEnds, Experiment!run
<1>2. CASE ~whole
  <2>1. Experiment!Halted
    BY <1>1, <1>2 DEF Experiment!Halted
  <2> QED BY <1>1, <2>1, HaltedKeeps
<1>3. CASE whole
  <2>1. /\ replay' \in Replays /\ replay'.pc = "complete" /\ replay'.expected = replay.expected
        /\ replay'.report = replay.report
    BY <1>1, <1>3, ReplayFacts DEF Replays
  <2>2. Before("complete") = Before("finish")
    BY DEF Before
  <2>3. Replaying'
    <3>1. Experiment!Expected(disk.rows)' = Experiment!Expected(disk.rows)
      BY <1>1 DEF Experiment!Expected
    <3> QED BY <1>1, <1>3, <2>1, <2>2, <3>1 DEF RelInv, Replaying
  <2> QED BY <1>1, <2>1, <2>3, ReplayFacts, ReplayKeeps
<1> QED BY <1>2, <1>3

\* Nothing has begun, and nothing was saved.
LEMMA ReleaseBegins == ASSUME ReleaseConstants, Experiment!Init PROVE RelInv
<1>1. /\ conv = [i \in Experiment!Items |-> Experiment!Fresh] /\ rel_lock = {}
      /\ report = Experiment!NoReport /\ disk = Experiment!NoReport /\ jsonl = {}
      /\ rel_journal = [begun |-> {}, ended |-> {}] /\ rel_main = "cases"
      /\ replay = [pc |-> "idle", report |-> Experiment!NoReport, expected |-> {}]
      /\ remote = [begun |-> {}, ended |-> {}, data |-> [d \in {"full", "business"} |-> Experiment!None],
                   rows |-> [e \in {"run", "replay"} \X Experiment!Labels |-> {}]]
  BY DEF Experiment!Init
<1>2. Experiment!Fresh \in ConvRows /\ Talks(Experiment!Fresh) /\ Experiment!Fresh.pc = "todo"
  BY DEF Experiment!Fresh, ConvRows, Talks, ReleaseConstants
<1>3. /\ rel_journal \in Traces /\ remote \in Remotes /\ remote.begun = {} /\ replay \in Replays
      /\ replay.pc = "idle"
  BY <1>1, NoReportFits DEF Traces, Remotes, Replays
<1>4. /\ conv \in [Experiment!Items -> ConvRows]
      /\ \A i \in Experiment!Items : Talks(conv[i]) /\ conv[i].pc = "todo"
  BY <1>1, <1>2
<1>5. RelBusy = {} /\ Saving = {} /\ Written = {}
  BY <1>4 DEF RelBusy, Saving, Written
<1>6. ReleaseTyped
  BY <1>1, <1>3, <1>4, NoReportFits DEF ReleaseTyped, Phases
<1>7. Conversing
  BY <1>1, <1>4, <1>5, FS_EmptySet DEF Conversing, ReleaseConstants
<1>8. Recorded
  <2>1. Publics(Experiment!NoReport.rows) = {} /\ IsFiniteSet(Experiment!NoReport.rows)
    BY NoReportFits, FS_EmptySet DEF Publics
  <2> QED BY <1>1, <1>5, <2>1, NoReportFits DEF Recorded
<1>9. Saved /\ Traceable /\ Replaying
  BY <1>1, <1>3, NoReportFits DEF Saved, After, Traceable, Replaying, Experiment!None
<1>10. Returned /\ Experiment!ReleaseIsEarned
  BY <1>1, NoReportFits DEF Returned, Experiment!ReleaseIsEarned
<1> QED BY <1>6, <1>7, <1>8, <1>9, <1>10 DEF RelInv

\* Every step keeps the invariant.
LEMMA ReleaseStep ==
  ASSUME ReleaseConstants, RelInv, Experiment!Next \/ UNCHANGED Experiment!vars
  PROVE  RelInv'
<1>1. CASE \E i \in Experiment!Items : Experiment!Begin(i) \/ Experiment!Turn(i) \/ Experiment!Ended(i) \/ Experiment!Judge(i) \/ Experiment!Snapshot(i) \/ Experiment!Append(i) \/ Experiment!Save(i)
  BY <1>1, BeginKeeps, TurnKeeps, EndedKeeps, JudgeKeeps, SnapshotKeeps, AppendKeeps, RelSaveKeeps
<1>2. CASE Experiment!Legacy \/ Experiment!Traced \/ Experiment!Native \/ Experiment!Finish \/ Experiment!Kill
  BY <1>2, LegacyKeeps, TracedKeeps, NativeKeeps, FinishKeeps, KillKeeps
<1>3. CASE \E label \in Experiment!Labels : Experiment!Export(label) \/ Experiment!ReplayExport(label)
  BY <1>3, ExportKeeps, ReplayExportKeeps
<1>4. CASE Experiment!Validate \/ Experiment!Upload \/ Experiment!Query \/ Experiment!ReplayEnds
  BY <1>4, ValidateKeeps, UploadKeeps, RelQueryKeeps, ReplayEndsKeeps
<1>5. CASE UNCHANGED Experiment!vars
  <2>1. UNCHANGED <<conv, rel_lock, report, disk, jsonl, rel_journal, remote, rel_main, replay>>
    BY <1>5 DEF Experiment!vars, Experiment!run
  <2>2. ReleaseTyped' /\ Conversing'
    BY <2>1 DEF RelInv, ReleaseTyped, Conversing, Saving, RelBusy
  <2>3. Recorded' /\ Saved'
    BY <2>1 DEF RelInv, Recorded, Written, Experiment!Row, Saved, After
  <2>4. Traceable' /\ Replaying'
    BY <2>1 DEF RelInv, Traceable, Replaying, Experiment!Expected
  <2>5. Returned' /\ Experiment!ReleaseIsEarned'
    BY <2>1 DEF RelInv, Returned, ReadBack, Experiment!ReleaseIsEarned
  <2> QED BY <2>2, <2>3, <2>4, <2>5 DEF RelInv
<1> QED BY <1>1, <1>2, <1>3, <1>4, <1>5 DEF Experiment!Next

\* What the invariant says of the experiment.
LEMMA ReleaseSays ==
  ASSUME ReleaseConstants, RelInv
  PROVE  /\ Experiment!TypeOK /\ Experiment!RowsAreJournaled /\ Experiment!CallsAreAccounted
         /\ Experiment!ReleaseIsEarned /\ Experiment!ReturnedIsRead
         /\ Experiment!ReplayIsComplete /\ Experiment!ConfirmsWhatWasShown
<1>1. Experiment!TypeOK
  <2>1. \A i \in Experiment!Items : conv[i] \in ConvRows
    BY DEF RelInv, ReleaseTyped
  <2>2. Cardinality({i \in Experiment!Items : conv[i].pc \notin {"todo", "recorded"}}) <= Threads
    BY DEF RelInv, Conversing, RelBusy
  <2>3. rel_main # "dead" => rel_lock = {i \in Experiment!Items : conv[i].pc = "save"}
    BY DEF RelInv, Conversing, Saving
  <2>4. rel_main \in Phases
    BY DEF RelInv, ReleaseTyped
  <2> QED BY <2>1, <2>2, <2>3, <2>4, ExperimentCounts DEF Experiment!TypeOK, ConvRows, Phases
<1>2. Experiment!RowsAreJournaled /\ Experiment!CallsAreAccounted
  <2>1. jsonl = {Experiment!Row(i) : i \in Written} /\ \A i \in Written : Experiment!Row(i).item = i /\ Experiment!Row(i).calls = conv[i].made
    BY RowFits DEF RelInv, Recorded, Written, Conversing, Talks
  <2>2. \A w \in disk.rows : Experiment!Public(w) \in jsonl
    BY DEF RelInv, Recorded, Publics
  <2>3. \A v, w \in jsonl : v.item = w.item => v = w
    BY <2>1
  <2>4. \A i \in Experiment!Items : conv[i].pc \in {"save", "recorded"} => \E w \in jsonl : w.item = i
    BY <2>1 DEF Written
  <2>5. \A w \in jsonl : w.calls = conv[w.item].made
    BY <2>1
  <2> QED BY <2>2, <2>3, <2>4, <2>5 DEF Experiment!RowsAreJournaled, Experiment!CallsAreAccounted
<1>3. Experiment!ReleaseIsEarned
  BY DEF RelInv
<1>4. Experiment!ReturnedIsRead
  BY DEF RelInv, Returned, ReadBack, Experiment!ReturnedIsRead, Publics
<1>5. Experiment!ReplayIsComplete
  <2> SUFFICES ASSUME replay.pc = "complete"
               PROVE  /\ disk.finished /\ disk.frozen
                      /\ \A label \in Experiment!Labels : remote.rows[<<"replay", label>>] = Publics(Experiment!RowsOf(disk, label))
                      /\ \A i \in Experiment!Items : \A t \in 1 .. conv[i].turn :
                           (\E w \in disk.rows : w.item = i /\ w.evidence) => <<i, t>> \in remote.ended
    BY DEF Experiment!ReplayIsComplete, Publics
  <2>1. /\ disk.finished /\ disk.frozen /\ replay.expected = Experiment!Expected(disk.rows)
        /\ replay.expected \subseteq remote.ended
        /\ \A l \in Experiment!Labels : <<l, "PASS">> \in replay.report.exports =>
             remote.rows[<<"replay", l>>] = Publics(Experiment!RowsOf(disk, l))
        /\ {e[1] : e \in replay.report.exports} = Before("complete")
        /\ \A e \in replay.report.exports : e[2] = "PASS"
    BY DEF RelInv, Replaying
  <2>2. replay.report.exports \subseteq Experiment!Labels \X Verdicts
    BY ReplayFacts DEF Replays, Reports
  <2>3. \A l \in Experiment!Labels : <<l, "PASS">> \in replay.report.exports
    <3> TAKE l \in Experiment!Labels
    <3>1. PICK e \in replay.report.exports : e[1] = l
      BY <2>1 DEF Before
    <3>2. e = <<e[1], e[2]>>
      BY <2>2
    <3> QED BY <2>1, <3>1, <3>2
  <2>4. ASSUME NEW i \in Experiment!Items, NEW t \in 1 .. conv[i].turn, \E w \in disk.rows : w.item = i /\ w.evidence
        PROVE  <<i, t>> \in remote.ended
    <3>1. conv[i] \in ConvRows
      BY DEF RelInv, ReleaseTyped
    <3>2. t \in 1 .. Turns /\ conv[i].turn >= t
      BY <3>1 DEF ConvRows, ReleaseConstants
    <3>3. <<i, t>> \in Experiment!Expected(disk.rows)
      BY <2>4, <3>2 DEF Experiment!Expected, Experiment!GraphRuns
    <3> QED BY <2>1, <3>3
  <2> QED BY <2>1, <2>3, <2>4
<1>6. Experiment!ConfirmsWhatWasShown
  BY DEF RelInv, Conversing, Talks, Experiment!ConfirmsWhatWasShown
<1> QED BY <1>1, <1>2, <1>3, <1>4, <1>5, <1>6

-------------------------------------------------------------------------------
(* The composition                                                             *)

\* In the composition the rows of an approval take the steps of ApprovalRuntime and no
\* others (approval_runner.py is the only worker of its executions).
LEMMA ApprovalsRun == RunSpec => Spec
<1>1. RunInit => Init
  BY DEF RunInit
<1>2. [RunNext]_run => [Next]_vars
  BY DEF RunNext, run, approvals, vars
<1> QED BY <1>1, <1>2, PTL DEF RunSpec, Spec

\* What the graph of an approval delivers is settled in the rows first, whatever the other
\* components of the composition do (approval_runner.py, graph_approval_service.py).
THEOREM EffectsSettle == RunSpec => []ApprovalEffectsSettle
<1>1. TypeOK /\ DeliveredIsSettled /\ CheckpointHasReceipt /\ ConflictOnlyAfterArchive /\ NoticesOnce
      => ApprovalEffectsSettle
  BY DEF ApprovalEffectsSettle
<1> QED BY <1>1, ApprovalsRun, TypeCorrect, NothingIsDeliveredEarly, CheckpointsAreBacked,
          ConflictsComeFromTheArchive, NoticesAreSentOnce, PTL

\* An approval is decided, counted and announced as ApprovalOutcome says, and an archived
\* session's rows stay as they are, in the composition (graph_retention_service.py).
THEOREM OutcomeKept == RunSpec => ApprovalOutcomeIsKept
BY ApprovalsRun, RuntimeKeepsTheOutcome, ArchivesAreFinal, PTL DEF ApprovalOutcomeIsKept

\* In a behaviour of the legacy runtime its invariant holds (model_task_service.py).
LegacyIsInOrder == scope = "legacy" => Legacy!LInv

\* Its rows take the steps of LegacyRuntime and no others.
LEMMA LegacyRuns == RunSpec => []LegacyIsInOrder
<1>1. RunInit => LegacyIsInOrder
  BY LegacyConstants, Legacy!LStart DEF RunInit, LegacyIsInOrder
<1>2. LegacyIsInOrder /\ [RunNext]_run => LegacyIsInOrder'
  <2> SUFFICES ASSUME LegacyIsInOrder, [RunNext]_run, scope' = "legacy" PROVE Legacy!LInv'
    BY DEF LegacyIsInOrder
  <2>1. scope = "legacy" /\ Legacy!LInv
    BY DEF LegacyIsInOrder, RunNext, run
  <2>2. Legacy!Next \/ UNCHANGED Legacy!vars
    BY <2>1 DEF RunNext, run, legacy, Legacy!vars
  <2> QED BY <2>1, <2>2, LegacyConstants, Legacy!LStep, Legacy!LStutters
<1> QED BY <1>1, <1>2, PTL DEF RunSpec

\* A message is settled with its answer, a decision with its announcement, what failed is on
\* the seller's desk and nobody waits for nothing, in the composition (model_task_service.py,
\* approval_processor.py).
THEOREM LegacyWorkSettles == RunSpec => []LegacyWorkIsSettled
<1>1. LegacyIsInOrder => LegacyWorkIsSettled
  BY LegacyConstants, Legacy!LTypes, Legacy!LSettles
  DEF LegacyIsInOrder, LegacyWorkIsSettled, Legacy!LInv
<1> QED BY LegacyRuns, <1>1, PTL

\* Offers are accepted and confirmed with authority, ended sessions stay, counter offers are
\* fresh, in the composition (chat_service.py, intent_service.py).
THEOREM LegacyDealsHaveAuthority == RunSpec => LegacyDealsAreAuthorized
<1>1. LegacyIsInOrder /\ [RunNext]_run =>
        [scope = "legacy" => /\ Legacy!AcceptsWithAuthority /\ Legacy!KeepsEnds
                             /\ Legacy!CountersFreshly]_run
  <2> SUFFICES ASSUME LegacyIsInOrder, RunNext, scope = "legacy"
               PROVE  Legacy!AcceptsWithAuthority /\ Legacy!KeepsEnds /\ Legacy!CountersFreshly
    OBVIOUS
  <2>1. Legacy!LInv /\ Legacy!Next
    BY DEF LegacyIsInOrder, RunNext
  <2> QED BY <2>1, LegacyConstants, Legacy!LActsInAuthority DEF Legacy!InAuthority
<1> QED BY LegacyRuns, <1>1, PTL DEF RunSpec, LegacyDealsAreAuthorized

\* In a behaviour of the prototype its invariant holds (p0/store.py, p0/graph.py).
PrototypeIsInOrder == scope = "prototype" => PInv

\* Its rows take the steps of Prototype and no others.
LEMMA PrototypeRuns == RunSpec => []PrototypeIsInOrder
<1>1. RunInit => PrototypeIsInOrder
  BY PrototypeValues, PStart DEF RunInit, PrototypeIsInOrder
<1>2. PrototypeIsInOrder /\ [RunNext]_run => PrototypeIsInOrder'
  <2> SUFFICES ASSUME PrototypeIsInOrder, [RunNext]_run, scope' = "prototype" PROVE PInv'
    BY DEF PrototypeIsInOrder
  <2>1. scope = "prototype" /\ PInv
    BY DEF PrototypeIsInOrder, RunNext, run
  <2>2. Prototype!Next \/ UNCHANGED Prototype!vars
    BY <2>1 DEF RunNext, run, prototype, Prototype!vars, Prototype!base
  <2> QED BY <2>1, <2>2, PrototypeValues, PStep, PStutters
<1> QED BY <1>1, <1>2, PTL DEF RunSpec

\* Whatever dies, hangs or loses its connection, the prototype carries out the command of an
\* input once, accepts one answer for it, takes the inputs in their order and meets no
\* conflict when it restarts, in the composition (p0/store.py, p0/graph.py, p0_worker.py).
THEOREM PrototypeProcessesOnce == RunSpec => []PrototypeInputsOnce
<1>1. PrototypeIsInOrder => PrototypeInputsOnce
  BY PrototypeValues, PTypes, PPromise DEF PrototypeIsInOrder, PrototypeInputsOnce
<1> QED BY PrototypeRuns, <1>1, PTL

-------------------------------------------------------------------------------
(* Sums of the first n terms of a sequence of naturals                         *)

\* A set of naturals with 0, and with n + 1 for every n, has them all.
LEMMA NatSets == 
  ASSUME NEW T, 0 \in T, \A n \in Nat : n \in T => n + 1 \in T
  PROVE  Nat \subseteq T
<1> DEFINE B == Nat \ T
           R == OpToRel(<, Nat)
<1>1. IsWellFoundedOn(R, Nat)
  BY NatLessThanWellFounded
<1>2. \A x, y \in Nat : <<y, x>> \in R <=> y < x
  BY DEF OpToRel
<1> HIDE DEF R
<1>3. ASSUME B # {} PROVE FALSE
  <2>1. PICK x \in B : \A y \in B : <<y, x>> \notin R
    BY <1>1, <1>3, WFMin
  <2>2. x # 0 /\ x - 1 \in Nat /\ x - 1 \in T
    <3>1. x - 1 \in Nat
      OBVIOUS
    <3>2. <<x - 1, x>> \in R
      BY <1>2, <3>1
    <3> QED BY <2>1, <3>1, <3>2
  <2>3. (x - 1) + 1 \in T
    BY <2>2
  <2> QED BY <2>3
<1> QED BY <1>3

\* Partial sums.
Adds(f, n, s) ==
  /\ s \in [0 .. n -> Nat] /\ s[0] = 0
  /\ \A k \in 1 .. n : s[k] = f[k] + s[k - 1]

\* There are partial sums of every sequence of naturals.
LEMMA AddsExist ==
  ASSUME NEW f, NEW n \in Nat, \A k \in 1 .. n : f[k] \in Nat
  PROVE  \E s : Adds(f, n, s)
<1> DEFINE T == {m \in Nat : m <= n => \E s : Adds(f, m, s)}
<1>1. 0 \in T
  <2> DEFINE s == [k \in 0 .. 0 |-> 0]
  <2>1. Adds(f, 0, s)
    BY DEF Adds
  <2> QED BY <2>1
<1>2. ASSUME NEW m \in Nat, m \in T PROVE m + 1 \in T
  <2> SUFFICES ASSUME m + 1 <= n PROVE \E s : Adds(f, m + 1, s)
    OBVIOUS
  <2>1. PICK s : Adds(f, m, s)
    BY <1>2
  <2> DEFINE r == [k \in 0 .. m + 1 |-> IF k = m + 1 THEN f[m + 1] + s[m] ELSE s[k]]
  <2>2. m + 1 \in 1 .. n /\ m \in 0 .. m
    OBVIOUS
  <2>3. f[m + 1] \in Nat /\ s[m] \in Nat
    BY <2>1, <2>2 DEF Adds
  <2>4. f[m + 1] + s[m] \in Nat
    BY <2>3
  <2>5. r \in [0 .. m + 1 -> Nat]
    BY <2>1, <2>4 DEF Adds
  <2>6. r[0] = 0
    BY <2>1 DEF Adds
  <2>7. ASSUME NEW k \in 1 .. m + 1 PROVE r[k] = f[k] + r[k - 1]
    <3>1. k \in 0 .. m + 1 /\ k - 1 \in 0 .. m /\ k - 1 \in 0 .. m + 1 /\ k - 1 # m + 1
      OBVIOUS
    <3>2. r[k - 1] = s[k - 1]
      BY <3>1
    <3>3. CASE k = m + 1
      BY <3>1, <3>2, <3>3
    <3>4. CASE k # m + 1
      <4>1. k \in 1 .. m /\ r[k] = s[k]
        BY <3>1, <3>4
      <4> QED BY <2>1, <3>2, <4>1 DEF Adds
    <3> QED BY <3>3, <3>4
  <2> HIDE DEF r
  <2> QED BY <2>5, <2>6, <2>7 DEF Adds
<1> HIDE DEF T
<1>3. Nat \subseteq T
  BY <1>1, <1>2, NatSets
<1>4. n \in T
  BY <1>3
<1> QED BY <1>4 DEF T

\* A sequence of sums follows from its terms.
Follows(f, n, s) == s[0] = 0 /\ \A k \in 1 .. n : s[k] = f[k] + s[k - 1]

\* Partial sums are unique.
LEMMA FollowsOnce ==
  ASSUME NEW f, NEW n \in Nat, NEW r, NEW s, Follows(f, n, r), Follows(f, n, s)
  PROVE  \A m \in 0 .. n : r[m] = s[m]
<1> DEFINE T == {m \in Nat : m <= n => r[m] = s[m]}
<1>1. 0 \in T
  BY DEF Follows
<1>2. ASSUME NEW m \in Nat, m \in T PROVE m + 1 \in T
  <2> SUFFICES ASSUME m + 1 <= n PROVE r[m + 1] = s[m + 1]
    OBVIOUS
  <2>1. m + 1 \in 1 .. n /\ (m + 1) - 1 = m /\ r[m] = s[m]
    BY <1>2
  <2>2. r[m + 1] = f[m + 1] + r[(m + 1) - 1] /\ s[m + 1] = f[m + 1] + s[(m + 1) - 1]
    BY <2>1 DEF Follows
  <2> QED BY <2>1, <2>2
<1>3. Nat \subseteq T
  <2> HIDE DEF T
  <2> QED BY <1>1, <1>2, NatSets
<1> QED BY <1>3

\* The total is the last of the partial sums.
LEMMA TotalAdds ==
  ASSUME NEW f, NEW n \in Nat, \A k \in 1 .. n : f[k] \in Nat
  PROVE  \E s : Adds(f, n, s) /\ Batches!Total(f, n) = s[n]
<1> DEFINE D(s) == s = [k \in 0 .. n |-> IF k = 0 THEN 0 ELSE f[k] + s[k - 1]]
           t == CHOOSE s : D(s)
<1>1. PICK s : Adds(f, n, s)
  BY AddsExist
<1>2. D(s)
  <2>1. \A k \in 0 .. n : s[k] = IF k = 0 THEN 0 ELSE f[k] + s[k - 1]
    BY <1>1 DEF Adds
  <2> QED BY <1>1, <2>1 DEF Adds
<1>3. D(t)
  <2> HIDE DEF D
  <2> QED BY <1>2
<1>4. Batches!Total(f, n) = t[n]
  BY DEF Batches!Total
<1> HIDE DEF t
<1>5. Follows(f, n, t)
  <2>1. 0 \in 0 .. n /\ \A k \in 1 .. n : k \in 0 .. n /\ k # 0
    OBVIOUS
  <2>2. \A k \in 0 .. n : t[k] = IF k = 0 THEN 0 ELSE f[k] + t[k - 1]
    BY <1>3
  <2>3. t[0] = 0
    BY <2>1, <2>2
  <2>4. ASSUME NEW k \in 1 .. n PROVE t[k] = f[k] + t[k - 1]
    BY <2>1, <2>2
  <2> QED BY <2>3, <2>4 DEF Follows
<1>6. Follows(f, n, s)
  BY <1>1 DEF Adds, Follows
<1>7. t[n] = s[n]
  <2>1. n \in 0 .. n
    OBVIOUS
  <2> QED BY <1>5, <1>6, <2>1, FollowsOnce
<1> QED BY <1>1, <1>4, <1>7

\* Totals of nothing, and of one term more.
LEMMA TotalNone == ASSUME NEW f PROVE Batches!Total(f, 0) = 0
<1>1. PICK s : Adds(f, 0, s) /\ Batches!Total(f, 0) = s[0]
  BY TotalAdds
<1> QED BY <1>1 DEF Adds

\* A term more adds to the total.
LEMMA TotalMore ==
  ASSUME NEW f, NEW n \in Nat, \A k \in 1 .. n + 1 : f[k] \in Nat
  PROVE  Batches!Total(f, n + 1) = f[n + 1] + Batches!Total(f, n)
<1>1. PICK s : Adds(f, n + 1, s) /\ Batches!Total(f, n + 1) = s[n + 1]
  BY TotalAdds
<1>2. \A k \in 1 .. n : k \in 1 .. n + 1
  OBVIOUS
<1>3. PICK r : Adds(f, n, r) /\ Batches!Total(f, n) = r[n]
  BY <1>2, TotalAdds
<1>4. Follows(f, n, s) /\ Follows(f, n, r)
  BY <1>1, <1>2, <1>3 DEF Adds, Follows
<1>5. s[n] = r[n]
  <2>1. n \in 0 .. n
    OBVIOUS
  <2> QED BY <1>4, <2>1, FollowsOnce
<1>6. s[n + 1] = f[n + 1] + s[(n + 1) - 1] /\ (n + 1) - 1 = n
  BY <1>1 DEF Adds
<1> QED BY <1>1, <1>3, <1>5, <1>6

\* A total of naturals is a natural.
LEMMA TotalIsNat ==
  ASSUME NEW f, NEW n \in Nat, \A k \in 1 .. n : f[k] \in Nat
  PROVE  Batches!Total(f, n) \in Nat
<1>1. PICK s : Adds(f, n, s) /\ Batches!Total(f, n) = s[n]
  BY TotalAdds
<1> QED BY <1>1 DEF Adds

\* Larger terms have the larger total, the same terms the same.
LEMMA TotalGrows ==
  ASSUME NEW f, NEW g, NEW n \in Nat,
         \A k \in 1 .. n : f[k] \in Nat /\ g[k] \in Nat /\ f[k] <= g[k]
  PROVE  Batches!Total(f, n) <= Batches!Total(g, n)
<1> DEFINE T == {m \in Nat : m <= n => Batches!Total(f, m) <= Batches!Total(g, m)}
<1>1. 0 \in T
  BY TotalNone
<1>2. ASSUME NEW m \in Nat, m \in T PROVE m + 1 \in T
  <2> SUFFICES ASSUME m + 1 <= n PROVE Batches!Total(f, m + 1) <= Batches!Total(g, m + 1)
    OBVIOUS
  <2>1. \A k \in 1 .. m + 1 : f[k] \in Nat /\ g[k] \in Nat
    OBVIOUS
  <2>2. \A k \in 1 .. m : f[k] \in Nat /\ g[k] \in Nat
    OBVIOUS
  <2>3. Batches!Total(f, m) \in Nat /\ Batches!Total(g, m) \in Nat /\ Batches!Total(f, m) <= Batches!Total(g, m)
    BY <1>2, <2>2, TotalIsNat
  <2>4. /\ Batches!Total(f, m + 1) = f[m + 1] + Batches!Total(f, m)
        /\ Batches!Total(g, m + 1) = g[m + 1] + Batches!Total(g, m)
    BY <2>1, TotalMore
  <2>5. f[m + 1] \in Nat /\ g[m + 1] \in Nat /\ f[m + 1] <= g[m + 1]
    OBVIOUS
  <2> QED BY <2>3, <2>4, <2>5
<1>3. Nat \subseteq T
  <2> HIDE DEF T
  <2> QED BY <1>1, <1>2, NatSets
<1> QED BY <1>3

\* The same terms have the same total.
LEMMA TotalSame ==
  ASSUME NEW f, NEW g, NEW n \in Nat, \A k \in 1 .. n : f[k] \in Nat /\ g[k] = f[k]
  PROVE  Batches!Total(g, n) = Batches!Total(f, n)
<1>1. Batches!Total(f, n) <= Batches!Total(g, n) /\ Batches!Total(g, n) <= Batches!Total(f, n)
  BY TotalGrows
<1>2. Batches!Total(f, n) \in Nat /\ Batches!Total(g, n) \in Nat
  BY TotalIsNat
<1> QED BY <1>1, <1>2

\* A term that changes changes the total by as much.
LEMMA TotalChanges ==
  ASSUME NEW f, NEW g, NEW n \in Nat, NEW i \in 1 .. n,
         \A k \in 1 .. n : f[k] \in Nat /\ g[k] \in Nat /\ (k # i => g[k] = f[k])
  PROVE  Batches!Total(g, n) + f[i] = Batches!Total(f, n) + g[i]
<1> DEFINE T == {m \in Nat : i + m <= n => Batches!Total(g, i + m) + f[i] = Batches!Total(f, i + m) + g[i]}
<1>1. 0 \in T
  <2>1. i - 1 \in Nat /\ (i - 1) + 1 = i /\ i + 0 = i
    OBVIOUS
  <2>2. \A k \in 1 .. (i - 1) + 1 : f[k] \in Nat /\ g[k] \in Nat
    OBVIOUS
  <2>3. /\ Batches!Total(f, (i - 1) + 1) = f[(i - 1) + 1] + Batches!Total(f, i - 1)
        /\ Batches!Total(g, (i - 1) + 1) = g[(i - 1) + 1] + Batches!Total(g, i - 1)
    BY <2>1, <2>2, TotalMore
  <2>4. Batches!Total(g, i - 1) = Batches!Total(f, i - 1) /\ Batches!Total(f, i - 1) \in Nat
    <3>1. \A k \in 1 .. i - 1 : f[k] \in Nat /\ g[k] = f[k]
      OBVIOUS
    <3> QED BY <2>1, <3>1, TotalSame, TotalIsNat
  <2>5. f[i] \in Nat /\ g[i] \in Nat
    OBVIOUS
  <2> QED BY <2>1, <2>3, <2>4, <2>5
<1>2. ASSUME NEW m \in Nat, m \in T PROVE m + 1 \in T
  <2> SUFFICES ASSUME i + (m + 1) <= n
               PROVE  Batches!Total(g, i + (m + 1)) + f[i] = Batches!Total(f, i + (m + 1)) + g[i]
    OBVIOUS
  <2>1. i + m \in Nat /\ i + (m + 1) = (i + m) + 1 /\ (i + m) + 1 \in 1 .. n /\ (i + m) + 1 # i
    OBVIOUS
  <2>2. /\ \A k \in 1 .. (i + m) + 1 : f[k] \in Nat /\ g[k] \in Nat
        /\ \A k \in 1 .. i + m : f[k] \in Nat /\ g[k] \in Nat
    OBVIOUS
  <2>3. /\ Batches!Total(f, (i + m) + 1) = f[(i + m) + 1] + Batches!Total(f, i + m)
        /\ Batches!Total(g, (i + m) + 1) = g[(i + m) + 1] + Batches!Total(g, i + m)
    BY <2>1, <2>2, TotalMore
  <2>4. Batches!Total(f, i + m) \in Nat /\ Batches!Total(g, i + m) \in Nat
    BY <2>1, <2>2, TotalIsNat
  <2>5. Batches!Total(g, i + m) + f[i] = Batches!Total(f, i + m) + g[i]
    BY <1>2
  <2>6. g[(i + m) + 1] = f[(i + m) + 1] /\ f[(i + m) + 1] \in Nat /\ f[i] \in Nat /\ g[i] \in Nat
    BY <2>1
  <2> QED BY <2>1, <2>3, <2>4, <2>5, <2>6
<1>3. Nat \subseteq T
  <2> HIDE DEF T
  <2> QED BY <1>1, <1>2, NatSets
<1>4. n - i \in T /\ i + (n - i) = n
  BY <1>3
<1> QED BY <1>4

\* One term taken away, and no larger than what it is taken for.
LEMMA TotalWithout ==
  ASSUME NEW n \in Nat, NEW e, NEW d, NEW i \in 1 .. n, NEW x \in Nat, x <= e[i],
         \A k \in 1 .. n : e[k] \in Nat /\ d[k] \in Nat /\ (k # i => d[k] = e[k]),
         d[i] = 0, NEW t \in Nat, t <= Batches!Total(d, n)
  PROVE  x + t <= Batches!Total(e, n)
<1>1. Batches!Total(d, n) + e[i] = Batches!Total(e, n) + d[i]
  BY TotalChanges
<1>2. \A k \in 1 .. n : e[k] \in Nat
  OBVIOUS
<1>3. \A k \in 1 .. n : d[k] \in Nat
  OBVIOUS
<1>4. Batches!Total(d, n) \in Nat
  BY <1>3, TotalIsNat
<1>5. Batches!Total(e, n) \in Nat
  BY <1>2, TotalIsNat
<1>6. e[i] \in Nat
  OBVIOUS
<1> QED BY <1>1, <1>4, <1>5, <1>6

\* What is counted of some of the terms, each once, is no more than the total.
Bounded(g, h, p, n) ==
  \A e \in [1 .. n -> Nat] : (\A j \in 1 .. p : g[j] <= e[h[j]]) => Batches!Total(g, p) <= Batches!Total(e, n)

\* One more of them, taken away from the terms that are left.
LEMMA BoundedMore ==
  ASSUME NEW g, NEW h, NEW p \in Nat, NEW n \in Nat, Bounded(g, h, p, n),
         \A j \in 1 .. p + 1 : h[j] \in 1 .. n /\ g[j] \in Nat,
         \A j, k \in 1 .. p + 1 : h[j] = h[k] => j = k
  PROVE  Bounded(g, h, p + 1, n)
<1> SUFFICES ASSUME NEW e \in [1 .. n -> Nat], \A j \in 1 .. p + 1 : g[j] <= e[h[j]]
             PROVE  Batches!Total(g, p + 1) <= Batches!Total(e, n)
  BY DEF Bounded
<1>1. p + 1 \in 1 .. p + 1
  OBVIOUS
<1>2. PICK i \in 1 .. n : i = h[p + 1]
  BY <1>1
<1>3. PICK d : d = [e EXCEPT ![i] = 0]
  OBVIOUS
<1>4. d \in [1 .. n -> Nat] /\ \A k \in 1 .. n : k # i => d[k] = e[k]
  BY <1>3
<1>5. \A j \in 1 .. p : j \in 1 .. p + 1 /\ h[j] \in 1 .. n /\ h[j] # i /\ g[j] \in Nat
  <2> TAKE j \in 1 .. p
  <2>1. j \in 1 .. p + 1 /\ j # p + 1
    OBVIOUS
  <2> QED BY <1>1, <1>2, <2>1
<1>6. \A j \in 1 .. p : g[j] <= d[h[j]]
  BY <1>4, <1>5
<1>7. Batches!Total(g, p) <= Batches!Total(d, n)
  BY <1>4, <1>6 DEF Bounded
<1>8. Batches!Total(g, p) \in Nat
  BY <1>5, TotalIsNat
<1>9. g[p + 1] \in Nat /\ g[p + 1] <= e[i]
  BY <1>1, <1>2
<1>10. Batches!Total(g, p + 1) = g[p + 1] + Batches!Total(g, p)
  BY TotalMore
<1>12. d[i] = 0 /\ \A k \in 1 .. n : e[k] \in Nat /\ d[k] \in Nat /\ (k # i => d[k] = e[k])
  BY <1>3
<1>11. g[p + 1] + Batches!Total(g, p) <= Batches!Total(e, n)
  <2> HIDE <1>3
  <2> QED BY <1>7, <1>8, <1>9, <1>12, TotalWithout
<1> QED BY <1>10, <1>11

\* Terms that are each no larger than a term of their own have no larger total.
LEMMA TotalOfSome ==
  ASSUME NEW m \in Nat, NEW n \in Nat, NEW f, NEW g, NEW h,
         \A k \in 1 .. n : f[k] \in Nat,
         \A j \in 1 .. m : h[j] \in 1 .. n /\ g[j] \in Nat /\ g[j] <= f[h[j]],
         \A j, k \in 1 .. m : h[j] = h[k] => j = k
  PROVE  Batches!Total(g, m) <= Batches!Total(f, n)
<1> DEFINE T == {p \in Nat : p <= m => Bounded(g, h, p, n)}
<1>1. 0 \in T
  <2> SUFFICES ASSUME NEW e \in [1 .. n -> Nat] PROVE Batches!Total(g, 0) <= Batches!Total(e, n)
    BY DEF Bounded
  <2>1. Batches!Total(e, n) \in Nat
    BY TotalIsNat
  <2> QED BY <2>1, TotalNone
<1>2. ASSUME NEW p \in Nat, p \in T PROVE p + 1 \in T
  <2> SUFFICES ASSUME p + 1 <= m PROVE Bounded(g, h, p + 1, n)
    OBVIOUS
  <2>1. Bounded(g, h, p, n)
    BY <1>2
  <2>2. \A j \in 1 .. p + 1 : j \in 1 .. m
    OBVIOUS
  <2> QED BY <2>1, <2>2, BoundedMore
<1>3. Nat \subseteq T
  <2> HIDE DEF T
  <2> QED BY <1>1, <1>2, NatSets
<1>4. Bounded(g, h, m, n)
  BY <1>3
<1> DEFINE e == [k \in 1 .. n |-> f[k]]
<1>5. e \in [1 .. n -> Nat] /\ \A j \in 1 .. m : g[j] <= e[h[j]]
  OBVIOUS
<1>6. Batches!Total(e, n) = Batches!Total(f, n)
  <2>1. \A k \in 1 .. n : f[k] \in Nat /\ e[k] = f[k]
    OBVIOUS
  <2> HIDE DEF e
  <2> QED BY <2>1, TotalSame
<1> QED BY <1>4, <1>5, <1>6 DEF Bounded

-------------------------------------------------------------------------------
(* What a batch costs                                                          *)

\* A process that ended holds nothing, and nothing is in a journal that no call put there.
Quiet == locked = Batches!None /\ \A w \in Workers : work[w].pc = "free"
InBudget ==
  /\ Len(calls) <= MaxCalls /\ Len(journal) <= MaxCalls
  /\ \A i \in 1 .. Len(calls) : calls[i].tokens >= Reserve
  /\ \A i \in 1 .. Len(journal) : journal[i].tokens >= Reserve

\* What is reserved is the sum of the calls, and leaves room for the excess of those under way.
Asking == {w \in Workers : work[w].pc \in {"journal", "invoke", "waiting"}}
CapLeft == reserved \in Nat /\ reserved <= MaxTokens + Cardinality(Workers \ Asking) * Excess
ReservedIsTotal == reserved = Batches!TokensOf(calls)

\* The journal has a call as it is, but for an answer its thread has yet to write down.
AnswerPending(i) == \E w \in Workers : work[w].pc = "answered" /\ work[w].call = i
JournalIsCalls == \A i \in 1 .. Len(journal) : AnswerPending(i) \/ journal[i] = calls[i]

\* A call is billed once, after it is in the journal; what an answer reserves covers its bill.
Unbilled(c) == \A i \in 1 .. Len(billed) : billed[i].call # c
BillsAreOfCalls ==
  /\ \A i \in 1 .. Len(billed) : billed[i].call \in 1 .. Len(journal) /\ billed[i].cost <= Reserve + Excess
  /\ \A i, j \in 1 .. Len(billed) : billed[i].call = billed[j].call => i = j
Covers(s) ==
  \A i \in 1 .. Len(billed) : s[billed[i].call].status = "SUCCEEDED" => billed[i].cost <= s[billed[i].call].tokens
NotYetBilled == \A w \in Workers : work[w].pc \in {"journal", "invoke"} => Unbilled(work[w].call)
NotYetKnown ==
  \A w \in Asking : calls[work[w].call].status = "STARTED" /\ calls[work[w].call].tokens = Reserve

\* A completed batch is charged what its journal adds up to.
ChargeIsTotal == completed => charge = Batches!TokensOf(journal)

SumsFit ==
  /\ next \in 0 .. Cardinality(Episodes) + 1
  /\ InBudget /\ CapLeft /\ BillsAreOfCalls /\ Covers(journal) /\ ChargeIsTotal
  /\ IF Batches!Alive THEN ReservedIsTotal /\ JournalIsCalls /\ Covers(calls) /\ NotYetBilled /\ NotYetKnown
                      ELSE Quiet

\* What passes is written, and a manifest is complete only once the process is gone.
GateFits == gate.passed => gate.written
ManifestFits == completed \in BOOLEAN /\ (completed => main \in {"exited", "dead"})

\* What calls cost together, when one is added and when one changes.
Priced(s) == s \in Seq(Batches!Records)

\* What the records of calls cost are naturals.
LEMMA PricesAreNat ==
  ASSUME NEW s, Priced(s)
  PROVE  /\ Len(s) \in Nat
         /\ \A k \in 1 .. Len(s) : s[k].tokens \in Nat
         /\ \A k \in 1 .. Len(s) : [i \in 1 .. Len(s) |-> s[i].tokens][k] = s[k].tokens
<1>1. Len(s) \in Nat /\ \A k \in 1 .. Len(s) : s[k] \in Batches!Records
  BY DEF Priced
<1> QED BY <1>1 DEF Batches!Records

\* So is their sum.
LEMMA TokensAreNat == ASSUME NEW s, Priced(s) PROVE Batches!TokensOf(s) \in Nat
<1> DEFINE f == [i \in 1 .. Len(s) |-> s[i].tokens]
<1>1. \A k \in 1 .. Len(s) : f[k] \in Nat
  BY PricesAreNat
<1>2. Len(s) \in Nat
  BY PricesAreNat
<1> HIDE DEF f
<1>3. Batches!Total(f, Len(s)) \in Nat
  BY <1>1, <1>2, TotalIsNat
<1> QED BY <1>3 DEF Batches!TokensOf, f

\* The same records cost the same.
LEMMA TokensSame ==
  ASSUME NEW s, NEW t, Priced(s), Len(t) = Len(s), \A k \in 1 .. Len(s) : t[k] = s[k]
  PROVE  Batches!TokensOf(t) = Batches!TokensOf(s)
<1> DEFINE f == [i \in 1 .. Len(s) |-> s[i].tokens]
           g == [i \in 1 .. Len(s) |-> t[i].tokens]
<1>1. \A k \in 1 .. Len(s) : f[k] \in Nat /\ g[k] = f[k]
  BY PricesAreNat
<1>2. Len(s) \in Nat
  BY PricesAreNat
<1> HIDE DEF f, g
<1>3. Batches!Total(g, Len(s)) = Batches!Total(f, Len(s))
  BY <1>1, <1>2, TotalSame
<1> QED BY <1>3 DEF Batches!TokensOf, f, g

\* A call more adds what it costs.
LEMMA TokensMore ==
  ASSUME NEW s, NEW t, Priced(s), Priced(t), Len(t) = Len(s) + 1, \A k \in 1 .. Len(s) : t[k] = s[k]
  PROVE  Batches!TokensOf(t) = t[Len(t)].tokens + Batches!TokensOf(s)
<1> DEFINE f == [i \in 1 .. Len(s) |-> s[i].tokens]
           g == [i \in 1 .. Len(t) |-> t[i].tokens]
           n == Len(s)
<1>1. n \in Nat /\ Len(t) = n + 1
  BY PricesAreNat
<1>2. \A k \in 1 .. n + 1 : g[k] \in Nat
  BY <1>1, PricesAreNat
<1>3. \A k \in 1 .. n : f[k] \in Nat
  BY PricesAreNat
<1>4. \A k \in 1 .. n : k \in 1 .. n + 1 /\ g[k] = f[k]
  BY <1>1
<1>5. g[n + 1] = t[Len(t)].tokens
  BY <1>1
<1>6. Batches!TokensOf(t) = Batches!Total(g, n + 1)
  BY <1>1 DEF Batches!TokensOf
<1>7. Batches!TokensOf(s) = Batches!Total(f, n)
  BY DEF Batches!TokensOf
<1> HIDE DEF f, g, n
<1>8. Batches!Total(g, n + 1) = g[n + 1] + Batches!Total(g, n)
  BY <1>1, <1>2, TotalMore
<1>9. \A k \in 1 .. n : f[k] \in Nat /\ g[k] = f[k]
  BY <1>3, <1>4
<1>10. Batches!Total(g, n) = Batches!Total(f, n)
  BY <1>1, <1>9, TotalSame
<1> QED BY <1>5, <1>6, <1>7, <1>8, <1>10

\* A call that changes changes the sum by as much.
LEMMA TokensChange ==
  ASSUME NEW s, NEW t, Priced(s), Priced(t), Len(t) = Len(s), NEW c \in 1 .. Len(s),
         \A k \in 1 .. Len(s) : k # c => t[k] = s[k]
  PROVE  Batches!TokensOf(t) + s[c].tokens = Batches!TokensOf(s) + t[c].tokens
<1> DEFINE f == [i \in 1 .. Len(s) |-> s[i].tokens]
           g == [i \in 1 .. Len(t) |-> t[i].tokens]
           n == Len(s)
<1>1. n \in Nat /\ Len(t) = n /\ c \in 1 .. n
  BY PricesAreNat
<1>2. \A k \in 1 .. n : f[k] \in Nat /\ f[k] = s[k].tokens
  BY PricesAreNat
<1>3. \A k \in 1 .. n : g[k] \in Nat /\ g[k] = t[k].tokens
  BY <1>1, PricesAreNat
<1>4. \A k \in 1 .. n : f[k] \in Nat /\ g[k] \in Nat /\ (k # c => g[k] = f[k])
  BY <1>2, <1>3
<1>5. Batches!TokensOf(t) = Batches!Total(g, n) /\ Batches!TokensOf(s) = Batches!Total(f, n)
  BY <1>1 DEF Batches!TokensOf
<1> HIDE DEF f, g, n
<1>6. Batches!Total(g, n) + f[c] = Batches!Total(f, n) + g[c]
  BY <1>1, <1>4, TotalChanges
<1> QED BY <1>1, <1>2, <1>3, <1>5, <1>6

\* Room for the excess of a number of threads.
LEMMA RoomGrows ==
  ASSUME NEW j \in Nat, NEW k \in Nat, NEW x \in Nat
  PROVE  /\ k * x \in Nat /\ (k + 1) * x = k * x + x
         /\ (j <= k => j * x <= k * x)
<1>1. k * x \in Nat /\ (k + 1) * x = k * x + x
  OBVIOUS
<1>2. j <= k => j * x <= k * x
  <2> SUFFICES ASSUME j <= k PROVE j * x <= k * x
    OBVIOUS
  <2>1. PICK d \in Nat : k = j + d
    <3>1. k - j \in Nat /\ k = j + (k - j)
      OBVIOUS
    <3> QED BY <3>1
  <2>2. k * x = j * x + d * x /\ d * x \in Nat /\ j * x \in Nat
    BY <2>1
  <2> QED BY <2>2
<1> QED BY <1>1, <1>2

\* The threads of a batch are finitely many.
LEMMA OthersAreCounted ==
  ASSUME IsFiniteSet(Workers)
  PROVE  \A S : /\ Cardinality(Workers \ S) \in Nat /\ Cardinality(Workers) \in Nat
                /\ Cardinality(Workers \ S) <= Cardinality(Workers)
<1> TAKE S
<1>1. Workers \ S \in SUBSET Workers
  OBVIOUS
<1> QED BY <1>1, FS_CardinalityType, FS_Subset

\* Two threads do not ask about the same call.
LEMMA OneCall ==
  ASSUME BatchInv, Batches!Alive, NEW v \in Workers, NEW w \in Workers, v # w,
         work[v].pc \in {"journal", "invoke", "waiting", "answered"},
         work[w].pc \in {"journal", "invoke", "waiting", "answered"}
  PROVE  work[v].call # work[w].call
<1>1. calls[work[v].call].run = work[v].run /\ calls[work[w].call].run = work[w].run
  BY OwnCall
<1>2. work[v].run # work[w].run
  BY DEF BatchInv, Running, ThreadsApart
<1> QED BY <1>1, <1>2

\* While results are collected the manifest is not complete.
LEMMA ManifestWaits == ASSUME ManifestFits, Batches!Alive PROVE ~completed
BY DEF ManifestFits, Batches!Alive

\* What neither asks nor answers leaves the sums alone.
LEMMA AsideKeeps ==
  ASSUME BatchInv, SumsFit, Batches!Alive, Batches!Alive', next' \in 0 .. Cardinality(Episodes) + 1,
         UNCHANGED <<calls, reserved, billed, journal, completed, charge>>,
         \A w \in Workers : \/ work'[w] = work[w]
                            \/ /\ work[w].pc \notin {"journal", "invoke", "waiting", "answered"}
                               /\ work'[w].pc \notin {"journal", "invoke", "waiting", "answered"}
  PROVE  SumsFit'
<1>1. Asking' = Asking
  BY DEF Asking
<1>2. CapLeft'
  BY <1>1 DEF SumsFit, CapLeft
<1>3. InBudget' /\ BillsAreOfCalls' /\ Covers(journal)' /\ Covers(calls)' /\ ChargeIsTotal' /\ ReservedIsTotal'
  BY DEF SumsFit, InBudget, BillsAreOfCalls, Covers, ChargeIsTotal, ReservedIsTotal
<1>4. \A i : AnswerPending(i) => AnswerPending(i)'
  BY DEF AnswerPending
<1>5. JournalIsCalls'
  BY <1>4 DEF SumsFit, JournalIsCalls
<1>6. NotYetBilled'
  BY DEF SumsFit, NotYetBilled, Unbilled
<1>7. NotYetKnown'
  <2>1. \A w \in Asking : work'[w] = work[w]
    BY DEF Asking
  <2> QED BY <1>1, <2>1 DEF SumsFit, NotYetKnown
<1> QED BY <1>2, <1>3, <1>5, <1>6, <1>7 DEF SumsFit

\* The requested runs are finitely many.
LEMMA RunsAreCounted == ASSUME BatchConstants PROVE Cardinality(Episodes) \in Nat
<1>1. PICK n \in Nat : Episodes = 1 .. n
  BY DEF BatchConstants
<1> QED BY <1>1, FS_Interval

\* An episode that goes on or ends asks nothing.
LEMMA TurnsAside ==
  ASSUME BatchInv, NEW w \in Workers,
         (\E phase, tries : Batches!Goes(w, phase, tries)) \/ \E r : Batches!Leaves(w, r)
  PROVE  work'[w].pc \in {"free", "running"} /\ \A v \in Workers : v # w => work'[v] = work[v]
<1>1. work \in [Workers -> BatchWork]
  BY DEF BatchInv, BatchTyped
<1>2. ASSUME NEW phase, NEW tries, Batches!Goes(w, phase, tries)
      PROVE  work'[w].pc = "running" /\ \A v \in Workers : v # w => work'[v] = work[v]
  <2> DEFINE x == [Batches!Free EXCEPT !.pc = "running", !.run = work[w].run, !.phase = phase, !.tries = tries]
  <2>1. x.pc = "running"
    BY DEF Batches!Free
  <2>2. work' = [work EXCEPT ![w] = x]
    BY <1>2 DEF Batches!Goes
  <2> HIDE DEF x
  <2> QED BY <1>1, <2>1, <2>2
<1>3. ASSUME NEW r, Batches!Leaves(w, r)
      PROVE  work'[w].pc = "free" /\ \A v \in Workers : v # w => work'[v] = work[v]
  BY <1>1, <1>3 DEF Batches!Leaves, Batches!Free
<1> QED BY <1>2, <1>3

\* An episode begins, goes on or ends without asking, or is refused.
LEMMA EpisodeStepsKeepSums ==
  ASSUME BatchConstants, BatchInv, SumsFit, NEW w \in Workers,
         \/ Batches!Start(w) \/ Batches!SellerActs(w) \/ Batches!BuyerFails(w) \/ Batches!Refused(w)
  PROVE  SumsFit'
<1>1. /\ Batches!Alive /\ Batches!Alive'
      /\ UNCHANGED <<calls, reserved, billed, journal, completed, charge>>
  BY DEF Batches!Start, Batches!SellerActs, Batches!BuyerFails, Batches!Refused, Batches!files, Batches!Alive
<1>2. work \in [Workers -> BatchWork]
  BY DEF BatchInv, BatchTyped
<1>3. work[w].pc \in {"free", "running"}
  BY DEF Batches!Start, Batches!SellerActs, Batches!BuyerFails, Batches!Refused
<1>4. work'[w].pc \in {"free", "running"} /\ \A v \in Workers : v # w => work'[v] = work[v]
  <2>1. CASE Batches!Start(w)
    <3> DEFINE x == [Batches!Free EXCEPT !.pc = "running", !.run = next]
    <3>1. x.pc = "running"
      BY DEF Batches!Free
    <3>2. work' = work \/ work' = [work EXCEPT ![w] = x]
      BY <2>1 DEF Batches!Start
    <3> HIDE DEF x
    <3> QED BY <1>2, <1>3, <3>1, <3>2
  <2>2. CASE Batches!SellerActs(w) \/ Batches!BuyerFails(w) \/ Batches!Refused(w)
    <3>1. (\E phase, tries : Batches!Goes(w, phase, tries)) \/ \E r : Batches!Leaves(w, r)
      BY <2>2 DEF Batches!SellerActs, Batches!BuyerFails, Batches!Refused, Batches!Acted, Batches!Misacted
    <3> QED BY <3>1, TurnsAside
  <2> QED BY <2>1, <2>2
<1>5. next' \in 0 .. Cardinality(Episodes) + 1
  <2>1. PICK n \in Nat : Episodes = 1 .. n
    BY DEF BatchConstants
  <2>2. Cardinality(Episodes) = n
    BY <2>1, FS_Interval
  <2>3. next' = next \/ (next \in Episodes /\ next' = next + 1)
    BY DEF Batches!Start, Batches!SellerActs, Batches!BuyerFails, Batches!Refused
  <2>4. next \in 0 .. Cardinality(Episodes) + 1
    BY DEF SumsFit
  <2> QED BY <2>1, <2>2, <2>3, <2>4
<1> QED BY <1>1, <1>3, <1>4, <1>5, AsideKeeps

\* Runs are recorded and the gate is written.
LEMMA RecordingKeepsSums ==
  ASSUME BatchInv, SumsFit, (\E e \in Episodes : Batches!Recorded(e)) \/ Batches!WriteGate
  PROVE  SumsFit'
<1>1. /\ Batches!Alive /\ Batches!Alive' /\ UNCHANGED Batches!memory
      /\ UNCHANGED <<billed, journal, completed, charge>>
  BY DEF Batches!Recorded, Batches!WriteGate, Batches!Alive
<1>2. UNCHANGED <<next, work, calls, reserved>>
  BY <1>1 DEF Batches!memory
<1>3. next' \in 0 .. Cardinality(Episodes) + 1
  BY <1>2 DEF SumsFit
<1>4. \A w \in Workers : work'[w] = work[w]
  BY <1>2
<1> QED BY <1>1, <1>2, <1>3, <1>4, AsideKeeps

\* A call is let through only within the cap, and reserves what it may cost.
LEMMA ReservingKeepsSums ==
  ASSUME BatchConstants, BatchInv, SumsFit, NEW w \in Workers, Batches!Reserving(w)
  PROVE  SumsFit'
<1>p. PICK purpose \in Batches!Asked(work[w].phase) :
        calls' = Append(calls, [run |-> work[w].run, purpose |-> purpose, status |-> "STARTED",
                                tokens |-> Reserve])
  BY DEF Batches!Reserving
<1> DEFINE n == Len(calls) + 1
           c == [run |-> work[w].run, purpose |-> purpose, status |-> "STARTED",
                 tokens |-> Reserve]
<1>1. /\ Batches!Alive /\ Batches!Alive' /\ work[w].pc = "running" /\ locked = Batches!None
      /\ Len(calls) < MaxCalls /\ reserved + Reserve <= MaxTokens
      /\ reserved' = reserved + Reserve
      /\ UNCHANGED <<next, billed, journal, completed, charge>>
  BY DEF Batches!Reserving, Batches!WithinBudget, Batches!Alive, Batches!files
<1>2. /\ Len(calls) \in Nat /\ Len(journal) \in Nat /\ Len(calls) = Len(journal) /\ Priced(calls)
      /\ work \in [Workers -> BatchWork] /\ work[w].run \in Episodes
  BY <1>1, BatchFacts DEF BatchInv, BatchTyped, Running, JournalFollows, Priced, ThreadsApart
<1>3. c \in Batches!Records /\ c.tokens = Reserve /\ c.status = "STARTED" /\ calls' = Append(calls, c)
  <2>1. purpose \in Batches!Purposes
    BY DEF Batches!Asked, Batches!Purposes
  <2> QED BY <1>2, <1>p, <2>1 DEF Batches!Records, BatchConstants
<1> HIDE DEF c
<1>4. /\ Priced(calls') /\ Len(calls') = n /\ calls'[n] = c /\ n \in Nat
      /\ \A i \in 1 .. Len(calls) : calls'[i] = calls[i]
  BY <1>2, <1>3, AppendProperties DEF Priced
<1>5. /\ work'[w].pc = "journal" /\ work'[w].call = n
      /\ \A v \in Workers : v # w => work'[v] = work[v]
  <2>1. work' = [work EXCEPT ![w].pc = "journal", ![w].call = Len(calls')]
    BY DEF Batches!Reserving
  <2>2. work[w] \in BatchWork
    BY <1>2
  <2> QED BY <1>2, <1>4, <2>1, <2>2 DEF BatchWork
<1>6. InBudget'
  <2>1. \A i \in 1 .. Len(calls') : calls'[i].tokens >= Reserve
    <3>1. \A i \in 1 .. Len(calls') : i = n \/ i \in 1 .. Len(calls)
      BY <1>2, <1>4
    <3>2. c.tokens >= Reserve
      BY <1>3 DEF BatchConstants
    <3> QED BY <1>4, <3>1, <3>2 DEF SumsFit, InBudget
  <2>2. n <= MaxCalls
    BY <1>1, <1>2 DEF BatchConstants
  <2> QED BY <1>1, <1>4, <2>1, <2>2 DEF SumsFit, InBudget
<1>7. ReservedIsTotal' /\ reserved \in Nat
  <2>1. Batches!TokensOf(calls') = c.tokens + Batches!TokensOf(calls)
    BY <1>2, <1>4, TokensMore
  <2>2. reserved = Batches!TokensOf(calls) /\ Batches!TokensOf(calls) \in Nat
    BY <1>1, <1>2, TokensAreNat DEF SumsFit, ReservedIsTotal
  <2>3. reserved' = Batches!TokensOf(calls')
    BY <1>1, <1>3, <2>1, <2>2 DEF BatchConstants
  <2> QED BY <2>2, <2>3 DEF ReservedIsTotal
<1>8. CapLeft'
  <2>1. Cardinality(Workers \ Asking') \in Nat
    BY OthersAreCounted DEF BatchConstants
  <2>2. PICK k \in Nat : k = Cardinality(Workers \ Asking')
    BY <2>1
  <2>3. k * Excess \in Nat
    BY RoomGrows DEF BatchConstants
  <2>4. reserved' \in Nat /\ reserved' <= MaxTokens + k * Excess
    BY <1>1, <1>7, <2>3 DEF BatchConstants
  <2> QED BY <2>2, <2>4 DEF CapLeft
<1>9. BillsAreOfCalls' /\ Covers(journal)' /\ ChargeIsTotal'
  BY <1>1 DEF SumsFit, BillsAreOfCalls, Covers, ChargeIsTotal
<1>10. JournalIsCalls'
  <2>1. \A i \in 1 .. Len(journal) : AnswerPending(i) => AnswerPending(i)'
    BY <1>1, <1>5 DEF AnswerPending
  <2>2. \A i \in 1 .. Len(journal) : AnswerPending(i) \/ journal[i] = calls[i]
    BY <1>1 DEF SumsFit, JournalIsCalls
  <2> QED BY <1>1, <1>2, <1>4, <2>1, <2>2 DEF JournalIsCalls
<1>11. \A i \in 1 .. Len(billed) : billed[i].call \in 1 .. Len(calls)
  BY <1>2 DEF SumsFit, BillsAreOfCalls
<1>12. Covers(calls)'
  BY <1>1, <1>4, <1>11 DEF SumsFit, Covers
<1>13. NotYetBilled'
  <2> SUFFICES ASSUME NEW v \in Workers, work'[v].pc \in {"journal", "invoke"} PROVE Unbilled(work'[v].call)
    BY <1>1 DEF NotYetBilled, Unbilled
  <2>1. CASE v = w
    BY <1>2, <1>5, <1>11, <2>1 DEF Unbilled
  <2>2. CASE v # w
    BY <1>1, <1>5, <2>2 DEF SumsFit, NotYetBilled
  <2> QED BY <2>1, <2>2
<1>14. NotYetKnown'
  <2> SUFFICES ASSUME NEW v \in Asking' PROVE calls'[work'[v].call].status = "STARTED" /\ calls'[work'[v].call].tokens = Reserve
    BY DEF NotYetKnown
  <2>1. CASE v = w
    BY <1>3, <1>4, <1>5, <2>1
  <2>2. CASE v # w
    <3>1. v \in Asking /\ v \in Workers /\ work'[v] = work[v]
      BY <1>5, <2>2 DEF Asking
    <3>2. work[v].call \in 1 .. Len(calls)
      BY <1>1, <3>1, OwnCall DEF Asking
    <3> QED BY <1>1, <1>4, <3>1, <3>2 DEF SumsFit, NotYetKnown
  <2> QED BY <2>1, <2>2
<1> QED BY <1>1, <1>6, <1>7, <1>8, <1>9, <1>10, <1>12, <1>13, <1>14 DEF SumsFit

\* The call goes to the journal as it was reserved.
LEMMA JournalKeepsSums ==
  ASSUME BatchConstants, BatchInv, ManifestFits, SumsFit, NEW w \in Workers, Batches!Journal(w)
  PROVE  SumsFit'
<1> DEFINE n == Len(journal) + 1
           c == calls[work[w].call]
<1>1. /\ Batches!Alive /\ Batches!Alive' /\ work[w].pc = "journal"
      /\ journal' = Append(journal, c)
      /\ UNCHANGED <<next, calls, reserved, billed, completed, charge>>
  BY DEF Batches!Journal, Batches!Alive
<1>2. /\ Len(calls) = n /\ Len(journal) \in Nat /\ Priced(calls) /\ Priced(journal)
      /\ work[w].call = n
      /\ work \in [Workers -> BatchWork] /\ c \in Batches!Records /\ c = calls[n] /\ n \in Nat
      /\ main = "collecting"
  <2>1. CallOf(w) /\ JournalFollows /\ BatchTyped
    BY <1>1 DEF BatchInv, Running
  <2>2. locked = w /\ w # Batches!None /\ work[w].call = Len(calls)
    BY <1>1, <2>1 DEF CallOf, BatchConstants
  <2>3. Len(calls) = n
    BY <2>1, <2>2 DEF JournalFollows
  <2> QED BY <1>1, <2>1, <2>2, <2>3, BatchFacts, OwnCall DEF BatchTyped, Priced
<1> HIDE DEF c
<1>3. /\ Len(journal') = n /\ journal'[n] = c
      /\ \A i \in 1 .. Len(journal) : journal'[i] = journal[i]
  BY <1>1, <1>2, AppendProperties DEF Priced
<1>4. \A i \in 1 .. n : i = n \/ i \in 1 .. Len(journal)
  BY <1>2
<1>5. /\ work'[w].pc = "invoke" /\ work'[w].call = n
      /\ \A v \in Workers : v # w => work'[v] = work[v]
  <2>1. work' = [work EXCEPT ![w].pc = "invoke"]
    BY DEF Batches!Journal
  <2>2. work[w] \in BatchWork
    BY <1>2
  <2> QED BY <1>2, <2>1, <2>2 DEF BatchWork
<1>6. Asking' = Asking
  BY <1>1, <1>5 DEF Asking
<1>7. CapLeft' /\ ReservedIsTotal' /\ Covers(calls)'
  BY <1>1, <1>6 DEF SumsFit, CapLeft, ReservedIsTotal, Covers
<1>8. InBudget'
  <2>1. n <= MaxCalls /\ c.tokens >= Reserve
    BY <1>2 DEF SumsFit, InBudget
  <2>2. \A i \in 1 .. Len(journal') : journal'[i].tokens >= Reserve
    BY <1>3, <1>4, <2>1 DEF SumsFit, InBudget
  <2> QED BY <1>1, <1>3, <2>1, <2>2 DEF SumsFit, InBudget
<1>9. \A i \in 1 .. Len(billed) : billed[i].call \in 1 .. Len(journal)
  BY DEF SumsFit, BillsAreOfCalls
<1>10. BillsAreOfCalls' /\ Covers(journal)'
  <2>1. \A i \in 1 .. Len(billed) : billed[i].call \in 1 .. Len(journal')
    BY <1>2, <1>3, <1>9
  <2> QED BY <1>1, <1>3, <1>9, <2>1 DEF SumsFit, BillsAreOfCalls, Covers
<1>11. ChargeIsTotal'
  <2>1. ~completed'
    BY <1>1, ManifestWaits
  <2> QED BY <2>1 DEF ChargeIsTotal
<1>12. JournalIsCalls'
  <2>1. \A i \in 1 .. Len(journal) : AnswerPending(i) => AnswerPending(i)'
    BY <1>1, <1>5 DEF AnswerPending
  <2>2. \A i \in 1 .. Len(journal) : AnswerPending(i) \/ journal[i] = calls[i]
    BY <1>1 DEF SumsFit, JournalIsCalls
  <2>3. journal'[n] = calls[n]
    BY <1>2, <1>3
  <2> QED BY <1>1, <1>3, <1>4, <2>1, <2>2, <2>3 DEF JournalIsCalls
<1>13. NotYetBilled'
  <2> SUFFICES ASSUME NEW v \in Workers, work'[v].pc \in {"journal", "invoke"} PROVE Unbilled(work[v].call)
    BY <1>1, <1>2, <1>5 DEF NotYetBilled, Unbilled
  <2>1. work[v].pc \in {"journal", "invoke"}
    BY <1>1, <1>5
  <2> QED BY <1>1, <2>1 DEF SumsFit, NotYetBilled
<1>14. NotYetKnown'
  <2>1. \A v \in Workers : work'[v].call = work[v].call
    BY <1>2, <1>5
  <2>2. \A v \in Asking : v \in Workers
    BY DEF Asking
  <2> QED BY <1>1, <1>6, <2>1, <2>2 DEF SumsFit, NotYetKnown
<1>15. next' \in 0 .. Cardinality(Episodes) + 1
  BY <1>1 DEF SumsFit
<1> QED BY <1>1, <1>7, <1>8, <1>10, <1>11, <1>12, <1>13, <1>14, <1>15 DEF SumsFit

\* The provider bills a call that it has not billed.
LEMMA InvokeKeepsSums ==
  ASSUME BatchConstants, BatchInv, SumsFit, NEW w \in Workers, Batches!Invoke(w)
  PROVE  SumsFit'
<1> DEFINE k == work[w].call
           m == Len(billed) + 1
<1>2. /\ Batches!Alive /\ Batches!Alive' /\ work[w].pc = "invoke"
      /\ UNCHANGED <<next, calls, reserved, journal, completed, charge>>
  BY DEF Batches!Invoke, Batches!Alive, Batches!files
<1>3. /\ Len(billed) \in Nat /\ m \in Nat /\ k \in Nat /\ Len(journal) \in Nat
      /\ Len(calls) \in Nat
      /\ k \in 1 .. Len(calls) /\ k \in 1 .. Len(journal)
      /\ work \in [Workers -> BatchWork] /\ billed \in Seq([call : Nat, cost : Nat])
  <2>1. CallOf(w) /\ BatchTyped
    BY <1>2 DEF BatchInv, Running
  <2> QED BY <1>2, <2>1, BatchFacts, OwnCall DEF BatchTyped, CallOf
<1> DEFINE b == [call |-> k, cost |-> Reserve]
<1>4. b \in [call : Nat, cost : Nat] /\ b.call = k /\ b.cost <= Reserve + Excess
  BY <1>3 DEF BatchConstants
<1>5. billed' = Append(billed, b)
  BY DEF Batches!Invoke
<1>6. calls[k].status = "STARTED" /\ Unbilled(k)
  BY <1>2 DEF SumsFit, NotYetBilled, NotYetKnown, Asking
<1>7. journal[k].status = "STARTED"
  <2>1. ~AnswerPending(k)
    <3> SUFFICES ASSUME NEW v \in Workers, work[v].pc = "answered", work[v].call = k PROVE FALSE
      BY DEF AnswerPending
    <3>1. v # w
      BY <1>2
    <3> QED BY <1>2, <3>1, OneCall
  <2>2. journal[k] = calls[k]
    BY <1>2, <1>3, <2>1 DEF SumsFit, JournalIsCalls
  <2> QED BY <1>6, <2>2
<1>8. /\ work'[w].pc = "waiting" /\ work'[w].call = k
      /\ \A v \in Workers : v # w => work'[v] = work[v]
  <2>1. work' = [work EXCEPT ![w].pc = "waiting"]
    BY DEF Batches!Invoke
  <2>2. work[w] \in BatchWork
    BY <1>3
  <2> QED BY <1>3, <2>1, <2>2 DEF BatchWork
<1>9. \A v \in Workers : v # w /\ work[v].pc \in {"journal", "invoke"} => work[v].call # k
  BY <1>2, OneCall
<1> HIDE DEF k, b
<1>10. Len(billed') = m /\ billed'[m] = b /\ \A i \in 1 .. Len(billed) : billed'[i] = billed[i]
  BY <1>3, <1>4, <1>5, AppendProperties
<1>11. \A i \in 1 .. m : i = m \/ i \in 1 .. Len(billed)
  BY <1>3
<1> HIDE DEF m
<1>12. Asking' = Asking
  BY <1>2, <1>8 DEF Asking
<1>13. CapLeft' /\ ReservedIsTotal' /\ InBudget' /\ ChargeIsTotal'
  BY <1>2, <1>12 DEF SumsFit, CapLeft, ReservedIsTotal, InBudget, ChargeIsTotal
<1>14. BillsAreOfCalls'
  <2>1. \A i \in 1 .. m : billed'[i].call \in 1 .. Len(journal) /\ billed'[i].cost <= Reserve + Excess
    BY <1>3, <1>4, <1>10, <1>11 DEF SumsFit, BillsAreOfCalls
  <2>2. \A i \in 1 .. Len(billed) : billed[i].call # k
    BY <1>6 DEF Unbilled
  <2>3. \A i, j \in 1 .. Len(billed) : billed[i].call = billed[j].call => i = j
    BY DEF SumsFit, BillsAreOfCalls
  <2>4. \A i, j \in 1 .. m : billed'[i].call = billed'[j].call => i = j
    BY <1>4, <1>10, <1>11, <2>2, <2>3
  <2> QED BY <1>2, <1>10, <2>1, <2>4 DEF BillsAreOfCalls
<1>15. Covers(journal)' /\ Covers(calls)'
  <2>1. Covers(journal) /\ Covers(calls)
    BY <1>2 DEF SumsFit
  <2>2. Covers(journal)'
    BY <1>2, <1>4, <1>7, <1>10, <1>11, <2>1 DEF Covers
  <2>3. Covers(calls)'
    BY <1>2, <1>4, <1>6, <1>10, <1>11, <2>1 DEF Covers
  <2> QED BY <2>2, <2>3
<1>16. JournalIsCalls'
  <2>1. \A i : AnswerPending(i) => AnswerPending(i)'
    BY <1>2, <1>8 DEF AnswerPending
  <2> QED BY <1>2, <2>1 DEF SumsFit, JournalIsCalls
<1>17. NotYetBilled'
  <2> SUFFICES ASSUME NEW v \in Workers, work'[v].pc \in {"journal", "invoke"} PROVE Unbilled(work[v].call)'
    BY DEF NotYetBilled
  <2>1. v # w /\ work'[v] = work[v]
    BY <1>8
  <2>2. Unbilled(work[v].call) /\ work[v].call # k
    BY <1>2, <1>9, <2>1 DEF SumsFit, NotYetBilled
  <2> QED BY <1>4, <1>10, <1>11, <2>1, <2>2 DEF Unbilled
<1>18. NotYetKnown'
  <2>1. \A v \in Workers : work'[v].call = work[v].call
    BY <1>8 DEF k
  <2>2. \A v \in Asking : v \in Workers
    BY DEF Asking
  <2> QED BY <1>2, <1>12, <2>1, <2>2 DEF SumsFit, NotYetKnown
<1>19. next' \in 0 .. Cardinality(Episodes) + 1
  BY <1>2 DEF SumsFit
<1> QED BY <1>2, <1>13, <1>14, <1>15, <1>16, <1>17, <1>18, <1>19 DEF SumsFit

\* What an answer may cost, and that what it reserves is at least the bill that it tells.
AnswersFor(k, row) ==
  /\ row.tokens \in Reserve .. Reserve + Excess /\ reserved' = reserved + (row.tokens - Reserve)
  /\ \A i \in 1 .. Len(billed) :
       /\ billed'[i].cost <= Reserve + Excess
       /\ billed[i].call = k /\ row.status = "SUCCEEDED" => billed'[i].cost <= row.tokens

\* Every answer that arrives is such an answer.
LEMMA AnswerCosts ==
  ASSUME BatchConstants, BatchInv, SumsFit, NEW w \in Workers, NEW row \in Batches!Records, Batches!Answered(w),
         AnswerOf(work[w].call, row)
  PROVE  AnswersFor(work[w].call, row)
<1> DEFINE k == work[w].call
<1>1. Batches!Alive /\ work[w].pc = "waiting"
  BY DEF Batches!Answered
<1>2. calls[k].tokens = Reserve
  BY <1>1 DEF SumsFit, NotYetKnown, Asking
<1>3. reserved \in Nat /\ Reserve \in Nat /\ Excess \in Nat
  BY DEF SumsFit, CapLeft, BatchConstants
<1>4. \A i \in 1 .. Len(billed) : billed[i].cost <= Reserve + Excess
  BY DEF SumsFit, BillsAreOfCalls
<1> HIDE DEF k
<1>5. CASE row.status = "UNKNOWN" /\ row.tokens = calls[k].tokens /\ UNCHANGED <<reserved, billed>>
  BY <1>2, <1>3, <1>4, <1>5 DEF AnswersFor, k
<1>6. ASSUME NEW usage \in {Reserve, Reserve + Excess},
             row.tokens = Batches!Larger(calls[k].tokens, usage),
             reserved' = reserved + Batches!Larger(usage, Reserve) - Reserve,
             billed' = Batches!Told(k, usage)
      PROVE  AnswersFor(k, row)
  <2>1. usage \in Nat /\ Reserve <= usage /\ usage <= Reserve + Excess
    BY <1>3
  <2>2. row.tokens = usage /\ Batches!Larger(usage, Reserve) = usage
    BY <1>2, <1>3, <1>6, <2>1 DEF Batches!Larger
  <2>3. reserved' = reserved + (row.tokens - Reserve)
    BY <1>3, <1>6, <2>1, <2>2
  <2>4. \A i \in 1 .. Len(billed) :
          billed'[i] = IF billed[i].call = k THEN [call |-> k, cost |-> usage] ELSE billed[i]
    BY <1>6 DEF Batches!Told
  <2>5. \A i \in 1 .. Len(billed) : IF billed[i].call = k THEN billed'[i].cost = usage ELSE billed'[i] = billed[i]
    BY <2>4
  <2>6. row.tokens \in Reserve .. Reserve + Excess
    BY <1>3, <2>1, <2>2
  <2> QED BY <1>4, <2>1, <2>2, <2>3, <2>5, <2>6 DEF AnswersFor
<1> QED BY <1>5, <1>6 DEF AnswerOf, k

\* An answer that exceeds its reservation uses the room its call was given.
LEMMA AnsweredKeepsSums ==
  ASSUME BatchConstants, BatchInv, SumsFit, NEW w \in Workers, Batches!Answered(w)
  PROVE  SumsFit'
<1> DEFINE k == work[w].call
<1>1. /\ Batches!Alive /\ Batches!Alive' /\ work[w].pc = "waiting" /\ locked = Batches!None
      /\ UNCHANGED <<next, journal, completed, charge>>
  BY DEF Batches!Answered, Batches!Alive, Batches!files
<1>2. /\ Len(calls) \in Nat /\ Len(journal) = Len(calls) /\ Priced(calls) /\ k \in 1 .. Len(calls)
      /\ calls \in Seq(Batches!Records) /\ work \in [Workers -> BatchWork]
  BY <1>1, OwnCall DEF BatchInv, BatchTyped, Running, JournalFollows, Priced
<1>3. PICK row \in Batches!Records : AnswerOf(k, row)
  BY AnswerIsARecord
<1>a. AnswersFor(k, row)
  BY <1>3, AnswerCosts
<1>b. /\ Len(billed') = Len(billed)
      /\ \A i \in 1 .. Len(billed) : /\ billed'[i].call = billed[i].call
                                     /\ billed[i].call # k => billed'[i] = billed[i]
  BY <1>3, BillsAreTold
<1>4. calls[k].tokens = Reserve /\ calls[k].status = "STARTED" /\ \A v \in Workers : v # w /\ v \in Asking => work[v].call # k
  BY <1>1, OneCall DEF SumsFit, NotYetKnown, Asking
<1>5. /\ work'[w].pc = "answered" /\ work'[w].call = k
      /\ \A v \in Workers : v # w => work'[v] = work[v]
  <2>1. work' = [work EXCEPT ![w].pc = "answered"]
    BY DEF Batches!Answered
  <2>2. work[w] \in BatchWork
    BY <1>2
  <2> QED BY <1>2, <2>1, <2>2 DEF BatchWork
<1> HIDE DEF k
<1>6. /\ Priced(calls') /\ Len(calls') = Len(calls)
      /\ \A i \in 1 .. Len(calls) : calls'[i] = IF i = k THEN row ELSE calls[i]
  BY <1>2, <1>3, ExceptSeq DEF AnswerOf, Priced
<1>7. /\ row.tokens \in Nat /\ row.tokens >= Reserve /\ row.tokens <= Reserve + Excess
      /\ reserved' = reserved + (row.tokens - Reserve)
      /\ \A i \in 1 .. Len(billed) :
           /\ billed'[i].cost <= Reserve + Excess
           /\ billed[i].call = k /\ row.status = "SUCCEEDED" => billed'[i].cost <= row.tokens
      /\ Reserve \in Nat /\ Excess \in Nat
  BY <1>a DEF AnswersFor, BatchConstants, Batches!Records
<1>8. InBudget'
  BY <1>1, <1>6, <1>7 DEF SumsFit, InBudget
<1>9. ReservedIsTotal' /\ reserved \in Nat /\ reserved' \in Nat
  <2>1. Batches!TokensOf(calls') + Reserve = Batches!TokensOf(calls) + row.tokens
    <3>1. \A i \in 1 .. Len(calls) : i # k => calls'[i] = calls[i]
      BY <1>6
    <3>2. calls'[k] = row
      BY <1>2, <1>6
    <3>3. Batches!TokensOf(calls') + calls[k].tokens = Batches!TokensOf(calls) + calls'[k].tokens
      BY <1>2, <1>6, <3>1, TokensChange
    <3> QED BY <1>4, <3>2, <3>3
  <2>2. reserved = Batches!TokensOf(calls)
    BY <1>1 DEF SumsFit, ReservedIsTotal
  <2>3. Batches!TokensOf(calls) \in Nat /\ Batches!TokensOf(calls') \in Nat
    BY <1>2, <1>6, TokensAreNat
  <2>4. reserved' = Batches!TokensOf(calls')
    BY <1>7, <2>1, <2>2, <2>3
  <2> QED BY <2>2, <2>3, <2>4 DEF ReservedIsTotal
<1>10. CapLeft'
  <2>1. Workers \ Asking' = (Workers \ Asking) \cup {w} /\ w \notin Workers \ Asking
    BY <1>1, <1>5 DEF Asking
  <2>2. IsFiniteSet(Workers \ Asking)
    BY FS_Subset DEF BatchConstants
  <2>3. PICK j \in Nat : j = Cardinality(Workers \ Asking)
    BY <2>2, FS_CardinalityType
  <2>4. Cardinality(Workers \ Asking') = j + 1
    BY <2>1, <2>2, <2>3, FS_AddElement
  <2>5. j * Excess \in Nat /\ (j + 1) * Excess = j * Excess + Excess
    BY <1>7, RoomGrows
  <2>6. reserved <= MaxTokens + j * Excess
    BY <2>3 DEF SumsFit, CapLeft
  <2>7. reserved' <= MaxTokens + (j + 1) * Excess
    BY <1>7, <1>9, <2>5, <2>6 DEF BatchConstants
  <2> QED BY <1>9, <2>4, <2>7 DEF CapLeft
<1>11. BillsAreOfCalls'
  BY <1>1, <1>7, <1>b DEF SumsFit, BillsAreOfCalls
<1>c. ChargeIsTotal'
  BY <1>1 DEF SumsFit, ChargeIsTotal
<1>d. Covers(journal)'
  <2>1. journal[k].status = "STARTED"
    <3>1. ~AnswerPending(k)
      <4> SUFFICES ASSUME NEW v \in Workers, work[v].pc = "answered", work[v].call = k PROVE FALSE
        BY DEF AnswerPending
      <4>1. v # w /\ work[w].call = k
        BY <1>1 DEF k
      <4> QED BY <1>1, <4>1, OneCall
    <3> QED BY <1>1, <1>2, <1>4, <3>1 DEF SumsFit, JournalIsCalls
  <2> QED BY <1>1, <1>b, <2>1 DEF SumsFit, Covers
<1>12. Covers(calls)'
  <2>1. \A i \in 1 .. Len(billed) : billed[i].call \in 1 .. Len(calls)
    BY <1>2 DEF SumsFit, BillsAreOfCalls
  <2>2. \A i \in 1 .. Len(billed) :
          calls[billed[i].call].status = "SUCCEEDED" => billed[i].cost <= calls[billed[i].call].tokens
    BY <1>1 DEF SumsFit, Covers
  <2> SUFFICES ASSUME NEW i \in 1 .. Len(billed), calls'[billed[i].call].status = "SUCCEEDED"
               PROVE  billed'[i].cost <= calls'[billed[i].call].tokens
    BY <1>b DEF Covers
  <2>3. CASE billed[i].call = k
    BY <1>2, <1>6, <1>7, <2>3
  <2>4. CASE billed[i].call # k
    <3>1. calls'[billed[i].call] = calls[billed[i].call] /\ billed'[i] = billed[i]
      BY <1>6, <1>b, <2>1, <2>4
    <3> QED BY <2>2, <3>1
  <2> QED BY <2>3, <2>4
<1>13. JournalIsCalls'
  <2>1. \A i \in 1 .. Len(journal) : AnswerPending(i) => AnswerPending(i)'
    BY <1>1, <1>5 DEF AnswerPending
  <2>2. \A i \in 1 .. Len(journal) : AnswerPending(i) \/ journal[i] = calls[i]
    BY <1>1 DEF SumsFit, JournalIsCalls
  <2>3. \A i \in 1 .. Len(journal) : i = k => AnswerPending(i)'
    BY <1>5 DEF AnswerPending
  <2>4. \A i \in 1 .. Len(journal) : i # k => calls'[i] = calls[i]
    BY <1>2, <1>6
  <2>5. \A i \in 1 .. Len(journal) : AnswerPending(i)' \/ journal[i] = calls'[i]
    <3> HIDE DEF AnswerPending
    <3> QED BY <2>1, <2>2, <2>3, <2>4
  <2> QED BY <1>1, <2>5 DEF JournalIsCalls
<1>14. NotYetBilled'
  <2> SUFFICES ASSUME NEW v \in Workers, (work[v].pc \in {"journal", "invoke"})' PROVE Unbilled(work[v].call)'
    BY DEF NotYetBilled
  <2>1. v # w /\ work'[v] = work[v]
    BY <1>5
  <2> QED BY <1>1, <1>b, <2>1 DEF SumsFit, NotYetBilled, Unbilled
<1>15. NotYetKnown'
  <2> SUFFICES ASSUME NEW v \in Asking' PROVE calls'[work'[v].call].status = "STARTED" /\ calls'[work'[v].call].tokens = Reserve
    BY DEF NotYetKnown
  <2>1. v \in Workers /\ v # w /\ work'[v] = work[v] /\ v \in Asking
    BY <1>5 DEF Asking
  <2>2. work[v].call \in 1 .. Len(calls) /\ work[v].call # k
    BY <1>1, <1>4, <2>1, OwnCall DEF Asking
  <2> QED BY <1>1, <1>6, <2>1, <2>2 DEF SumsFit, NotYetKnown
<1>16. next' \in 0 .. Cardinality(Episodes) + 1
  BY <1>1 DEF SumsFit
<1> QED BY <1>1, <1>8, <1>9, <1>10, <1>11, <1>c, <1>d, <1>12, <1>13, <1>14, <1>15, <1>16 DEF SumsFit

\* The answer is written down as it is.
LEMMA JournalAnswerKeepsSums ==
  ASSUME BatchConstants, BatchInv, ManifestFits, SumsFit, NEW w \in Workers, Batches!JournalAnswer(w)
  PROVE  SumsFit'
<1> DEFINE k == work[w].call
           c == calls[k]
<1>1. /\ Batches!Alive /\ Batches!Alive' /\ work[w].pc = "answered" /\ locked = Batches!None
      /\ journal' = [journal EXCEPT ![k] = c]
      /\ UNCHANGED <<next, calls, reserved, billed, completed, charge>>
  BY DEF Batches!JournalAnswer, Batches!Alive
<1>2. /\ Len(calls) \in Nat /\ Len(journal) = Len(calls) /\ k \in 1 .. Len(journal)
      /\ c \in Batches!Records
      /\ journal \in Seq(Batches!Records) /\ work \in [Workers -> BatchWork]
  <2>1. k \in 1 .. Len(calls) /\ Len(calls) \in Nat /\ Len(journal) = Len(calls) /\ BatchTyped
    BY <1>1, OwnCall DEF BatchInv, Running, JournalFollows
  <2>2. c \in Batches!Records
    BY <2>1, BatchFacts
  <2> QED BY <2>1, <2>2 DEF BatchTyped
<1>3. /\ work'[w].pc \in {"free", "running"}
      /\ \A v \in Workers : v # w => work'[v] = work[v]
  <2>1. (\E phase, tries : Batches!Goes(w, phase, tries)) \/ \E r : Batches!Leaves(w, r)
    BY DEF Batches!JournalAnswer, Batches!Acted, Batches!Misacted
  <2> QED BY <2>1, TurnsAside
<1>4. \A v \in Workers : v # w /\ work[v].pc = "answered" => work[v].call # k
  BY <1>1, OneCall
<1> HIDE DEF k
<1>5. /\ Len(journal') = Len(journal)
      /\ \A i \in 1 .. Len(journal) : journal'[i] = IF i = k THEN c ELSE journal[i]
  BY <1>1, <1>2, ExceptSeq
<1>6. c.tokens >= Reserve
  BY <1>2 DEF SumsFit, InBudget
<1>7. InBudget'
  BY <1>1, <1>5, <1>6 DEF SumsFit, InBudget
<1>8. Asking' = Asking
  BY <1>1, <1>3 DEF Asking
<1>9. CapLeft' /\ ReservedIsTotal' /\ Covers(calls)'
  BY <1>1, <1>8 DEF SumsFit, CapLeft, ReservedIsTotal, Covers
<1>10. BillsAreOfCalls'
  BY <1>1, <1>5 DEF SumsFit, BillsAreOfCalls
<1>11. Covers(journal)'
  <2>1. \A i \in 1 .. Len(billed) : billed[i].call \in 1 .. Len(journal)
    BY DEF SumsFit, BillsAreOfCalls
  <2> QED BY <1>1, <1>5, <2>1 DEF SumsFit, Covers
<1>12. ChargeIsTotal'
  <2>1. ~completed'
    BY <1>1, ManifestWaits
  <2> QED BY <2>1 DEF ChargeIsTotal
<1>13. JournalIsCalls'
  <2>1. \A i \in 1 .. Len(journal) : i # k /\ AnswerPending(i) => AnswerPending(i)'
    BY <1>1, <1>3 DEF AnswerPending, k
  <2>2. \A i \in 1 .. Len(journal) : AnswerPending(i) \/ journal[i] = calls[i]
    BY <1>1 DEF SumsFit, JournalIsCalls
  <2> QED BY <1>1, <1>5, <2>1, <2>2 DEF JournalIsCalls
<1>14. NotYetBilled'
  <2> SUFFICES ASSUME NEW v \in Workers, (work[v].pc \in {"journal", "invoke"})' PROVE Unbilled(work[v].call)'
    BY DEF NotYetBilled
  <2>1. v # w /\ work'[v] = work[v]
    BY <1>3
  <2> QED BY <1>1, <2>1 DEF SumsFit, NotYetBilled, Unbilled
<1>15. NotYetKnown'
  <2>1. \A v \in Asking : work'[v] = work[v]
    BY <1>1, <1>3 DEF Asking
  <2> QED BY <1>1, <1>8, <2>1 DEF SumsFit, NotYetKnown
<1>16. next' \in 0 .. Cardinality(Episodes) + 1
  BY <1>1 DEF SumsFit
<1> QED BY <1>1, <1>7, <1>9, <1>10, <1>11, <1>12, <1>13, <1>14, <1>15, <1>16 DEF SumsFit

\* Everything is in the journal when the process writes its manifest and leaves.
LEMMA WriteManifestKeepsSums ==
  ASSUME BatchConstants, BatchInv, SumsFit, Batches!WriteManifest
  PROVE  SumsFit'
<1>1. /\ Batches!Alive /\ ~Batches!Alive' /\ main = "gated" /\ charge' = reserved
      /\ UNCHANGED <<next, work, calls, reserved, locked, billed, journal>>
  BY DEF Batches!WriteManifest, Batches!Alive, Batches!memory
<1>2. \A w \in Workers : work[w].pc = "free"
  BY <1>1, StillCollecting
<1>3. locked = Batches!None /\ Len(journal) = Len(calls)
  <2>1. (\A w \in Workers : CallOf(w)) /\ JournalFollows
    BY <1>1 DEF BatchInv, Running
  <2>2. \A w \in Workers : locked # w
    BY <1>2, <2>1 DEF CallOf
  <2> QED BY <2>1, <2>2 DEF JournalFollows
<1>4. Quiet'
  BY <1>1, <1>2, <1>3 DEF Quiet
<1>5. Asking' = Asking
  BY <1>1 DEF Asking
<1>6. InBudget' /\ CapLeft' /\ BillsAreOfCalls' /\ Covers(journal)' /\ (next \in 0 .. Cardinality(Episodes) + 1)'
  BY <1>1, <1>5 DEF SumsFit, InBudget, CapLeft, BillsAreOfCalls, Covers
<1>7. \A i \in 1 .. Len(calls) : journal[i] = calls[i]
  BY <1>1, <1>2, <1>3 DEF SumsFit, JournalIsCalls, AnswerPending
<1>8. Batches!TokensOf(journal) = Batches!TokensOf(calls)
  BY <1>3, <1>7, TokensSame DEF BatchInv, BatchTyped, Priced
<1>9. ChargeIsTotal'
  <2>1. reserved = Batches!TokensOf(calls)
    BY <1>1 DEF SumsFit, ReservedIsTotal
  <2>2. Batches!TokensOf(journal') = Batches!TokensOf(journal)
    BY <1>1
  <2> QED BY <1>1, <1>8, <2>1, <2>2 DEF ChargeIsTotal
<1> QED BY <1>1, <1>4, <1>6, <1>9 DEF SumsFit

\* What dies with the process is not in the journal, which stays.
LEMMA KilledKeepsSums ==
  ASSUME BatchConstants, BatchInv, SumsFit, Batches!Killed
  PROVE  SumsFit'
<1>1. /\ ~Batches!Alive' /\ next' = 0 /\ work' = [w \in Workers |-> Batches!Free] /\ calls' = <<>>
      /\ reserved' = 0 /\ locked' = Batches!None
      /\ UNCHANGED <<billed, journal, completed, charge>>
  BY DEF Batches!Killed, Batches!Alive, Batches!files
<1>2. Quiet'
  BY <1>1 DEF Quiet, Batches!Free
<1>3. InBudget'
  <2>1. Len(calls') = 0 /\ 0 <= MaxCalls
    BY <1>1 DEF BatchConstants
  <2> QED BY <1>1, <2>1 DEF SumsFit, InBudget
<1>4. CapLeft'
  <2>1. PICK k \in Nat : k = Cardinality(Workers \ Asking')
    BY OthersAreCounted DEF BatchConstants
  <2>2. k * Excess \in Nat
    BY RoomGrows DEF BatchConstants
  <2>3. 0 <= MaxTokens + k * Excess
    BY <2>2 DEF BatchConstants
  <2> QED BY <1>1, <2>1, <2>3 DEF CapLeft
<1>5. BillsAreOfCalls' /\ Covers(journal)' /\ ChargeIsTotal'
  BY <1>1 DEF SumsFit, BillsAreOfCalls, Covers, ChargeIsTotal
<1>6. next' \in 0 .. Cardinality(Episodes) + 1
  BY <1>1, RunsAreCounted
<1> QED BY <1>1, <1>2, <1>3, <1>4, <1>5, <1>6 DEF SumsFit

\* The recovery charges what the journal adds up to.
LEMMA FinalizingKeepsSums ==
  ASSUME SumsFit, Batches!Finalize
  PROVE  SumsFit'
<1>1. /\ ~Batches!Alive /\ ~Batches!Alive' /\ charge' = Batches!TokensOf(journal)
      /\ UNCHANGED <<next, work, calls, reserved, locked, billed, journal>>
  BY DEF Batches!Finalize, Batches!Alive, Batches!memory, Batches!Recoverable
<1>2. Asking' = Asking
  BY <1>1 DEF Asking
<1>3. ChargeIsTotal'
  <2>1. Batches!TokensOf(journal') = Batches!TokensOf(journal)
    BY <1>1
  <2> QED BY <1>1, <2>1 DEF ChargeIsTotal
<1>4. InBudget' /\ CapLeft' /\ BillsAreOfCalls' /\ Covers(journal)' /\ (next \in 0 .. Cardinality(Episodes) + 1)'
      /\ Quiet'
  BY <1>1, <1>2 DEF SumsFit, InBudget, CapLeft, BillsAreOfCalls, Covers, Quiet
<1> QED BY <1>1, <1>3, <1>4 DEF SumsFit

\* A batch begins without a call.
LEMMA SumsBegin == ASSUME BatchConstants, Batches!Init PROVE SumsFit
<1>1. /\ next = 1
      /\ (\A w \in Workers : work[w].pc = "free") /\ Len(calls) = 0 /\ reserved = 0
      /\ locked = Batches!None
      /\ Len(billed) = 0 /\ Len(journal) = 0 /\ Batches!Alive /\ ~completed
  BY DEF Batches!Init, Batches!Alive, Batches!Free
<1>2. InBudget /\ BillsAreOfCalls /\ Covers(journal) /\ Covers(calls) /\ ChargeIsTotal
  BY <1>1 DEF InBudget, BillsAreOfCalls, Covers, ChargeIsTotal, BatchConstants
<1>3. CapLeft
  <2>1. PICK k \in Nat : k = Cardinality(Workers \ Asking)
    BY OthersAreCounted DEF BatchConstants
  <2>2. k * Excess \in Nat
    BY RoomGrows DEF BatchConstants
  <2>3. 0 <= MaxTokens + k * Excess
    BY <2>2 DEF BatchConstants
  <2> QED BY <1>1, <2>1, <2>3 DEF CapLeft
<1>4. ReservedIsTotal
  <2>1. Batches!TokensOf(calls) = Batches!Total([i \in 1 .. Len(calls) |-> calls[i].tokens], 0)
    BY <1>1 DEF Batches!TokensOf
  <2> QED BY <1>1, <2>1, TotalNone DEF ReservedIsTotal
<1>5. JournalIsCalls /\ NotYetBilled /\ NotYetKnown
  BY <1>1 DEF JournalIsCalls, NotYetBilled, NotYetKnown, Asking
<1>6. next \in 0 .. Cardinality(Episodes) + 1
  BY <1>1, RunsAreCounted
<1> QED BY <1>1, <1>2, <1>3, <1>4, <1>5, <1>6 DEF SumsFit

\* Every step of threads, main thread, death and recovery keeps the sums.
LEMMA SumsStep ==
  ASSUME BatchConstants, BatchInv, ManifestFits, SumsFit, Batches!Next \/ UNCHANGED Batches!vars
  PROVE  SumsFit'
<1>1. ASSUME NEW w \in Workers, \/ Batches!Start(w) \/ Batches!Reserving(w) \/ Batches!Journal(w)
                                \/ Batches!Invoke(w) \/ Batches!Answered(w) \/ Batches!JournalAnswer(w)
                                \/ Batches!SellerActs(w) \/ Batches!BuyerFails(w) \/ Batches!Refused(w)
      PROVE  SumsFit'
  BY <1>1, EpisodeStepsKeepSums, ReservingKeepsSums, JournalKeepsSums, InvokeKeepsSums,
     AnsweredKeepsSums, JournalAnswerKeepsSums
<1>2. ASSUME UNCHANGED Batches!vars PROVE SumsFit'
  <2>1. UNCHANGED <<next, work, calls, reserved, locked, billed, journal, completed, charge, main>>
    BY <1>2 DEF Batches!vars, Batches!memory, Batches!files
  <2>2. Asking' = Asking /\ Batches!Alive' = Batches!Alive
    BY <2>1 DEF Asking, Batches!Alive
  <2>3. InBudget' /\ CapLeft' /\ BillsAreOfCalls' /\ Covers(journal)' /\ ChargeIsTotal'
        /\ (next \in 0 .. Cardinality(Episodes) + 1)'
    BY <2>1, <2>2 DEF SumsFit, InBudget, CapLeft, BillsAreOfCalls, Covers, ChargeIsTotal
  <2>4. CASE Batches!Alive
    <3>1. ReservedIsTotal' /\ JournalIsCalls' /\ Covers(calls)' /\ NotYetBilled' /\ NotYetKnown'
      BY <2>1, <2>2, <2>4 DEF SumsFit, ReservedIsTotal, JournalIsCalls, AnswerPending, Covers,
         NotYetBilled,
         Unbilled, NotYetKnown
    <3> QED BY <2>2, <2>3, <2>4, <3>1 DEF SumsFit
  <2>5. CASE ~Batches!Alive
    <3>1. Quiet'
      BY <2>1, <2>5 DEF SumsFit, Quiet
    <3> QED BY <2>2, <2>3, <2>5, <3>1 DEF SumsFit
  <2> QED BY <2>4, <2>5
<1> QED BY <1>1, <1>2, RecordingKeepsSums, WriteManifestKeepsSums, KilledKeepsSums,
   FinalizingKeepsSums DEF Batches!Next

\* Only the process and the recovery script write a gate, and they say so in it.
LEMMA GateStays ==
  ASSUME GateFits, Batches!Next \/ UNCHANGED Batches!vars
  PROVE  GateFits'
<1>1. CASE Batches!WriteGate \/ Batches!Finalize
  BY <1>1 DEF GateFits, Batches!WriteGate, Batches!Finalize
<1>2. CASE ~Batches!WriteGate /\ ~Batches!Finalize
  <2>1. gate' = gate
    BY <1>2 DEF Batches!Next, Batches!vars, Batches!files, Batches!Start, Batches!Reserving,
       Batches!Journal,
       Batches!Invoke, Batches!Answered, Batches!JournalAnswer, Batches!Refused,
       Batches!SellerActs, Batches!BuyerFails, Batches!Recorded, Batches!WriteManifest, Batches!Killed
  <2> QED BY <2>1 DEF GateFits
<1> QED BY <1>1, <1>2

\* What the sums say: the types, the cap, and that what was billed is charged.
LEMMA SumsSay ==
  ASSUME BatchConstants, BatchInv, SumsFit, GateFits
  PROVE  Batches!TypeOK /\ Batches!CapHolds /\ Batches!ChargesAreRecovered
<1>1. /\ Len(billed) \in Nat /\ Len(journal) \in Nat
      /\ \A i \in 1 .. Len(billed) : billed[i] \in [call : Nat, cost : Nat]
      /\ \A i \in 1 .. Len(calls) : calls[i] \in Batches!Records
      /\ \A i \in 1 .. Len(journal) : journal[i] \in Batches!Records
      /\ \A w \in Workers : work[w] \in BatchWork
  BY BatchFacts
<1>2. Batches!TypeOK
  <2>1. \A w \in Workers : work[w].pc \in {"free", "running", "journal", "invoke", "waiting", "answered"}
    BY <1>1 DEF BatchWork
  <2>2. \A w \in Workers : work[w].pc = "journal" <=> locked = w
    <3>1. CASE Batches!Alive
      BY <3>1 DEF BatchInv, Running, CallOf
    <3>2. CASE ~Batches!Alive
      BY <3>2 DEF SumsFit, Quiet, BatchConstants
    <3> QED BY <3>1, <3>2
  <2>3. next \in 0 .. Batches!Cardinality(Episodes) + 1
    BY BatchCounts DEF SumsFit
  <2>4. Len(journal) <= MaxCalls
    BY DEF SumsFit, InBudget
  <2>5. (\A e \in Episodes : results[e] \in Batches!Statuses) /\ (gate.passed => gate.written)
    BY DEF BatchInv, BatchTyped, GateFits
  <2>6. runs \subseteq Episodes /\ torn \in Episodes \cup {0} /\ main \in {"collecting", "gated", "exited", "dead"}
    BY DEF BatchInv, BatchTyped
  <2> QED BY <1>1, <2>1, <2>2, <2>3, <2>4, <2>5, <2>6 DEF Batches!TypeOK
<1>3. Batches!CapHolds
  <2>1. PICK j \in Nat : j = Cardinality(Workers \ Asking)
    BY OthersAreCounted DEF BatchConstants
  <2>2. PICK k \in Nat : k = Cardinality(Workers) /\ j <= k
    BY <2>1, OthersAreCounted DEF BatchConstants
  <2>3. j * Excess <= k * Excess /\ j * Excess \in Nat /\ k * Excess \in Nat
    BY <2>2, RoomGrows DEF BatchConstants
  <2>4. reserved \in Nat /\ reserved <= MaxTokens + j * Excess
    BY <2>1 DEF SumsFit, CapLeft
  <2>6. reserved <= MaxTokens + k * Excess
    BY <2>3, <2>4 DEF BatchConstants
  <2>7. Len(calls) <= MaxCalls /\ (Batches!Alive => reserved = Batches!TokensOf(calls))
    BY DEF SumsFit, InBudget, ReservedIsTotal
  <2> QED BY <2>2, <2>6, <2>7, BatchCounts DEF Batches!CapHolds
<1>4. Batches!ChargesAreRecovered
  <2>1. \A i \in 1 .. Len(billed) : billed[i].call \in 1 .. Len(journal)
    BY DEF SumsFit, BillsAreOfCalls
  <2> SUFFICES ASSUME completed
               PROVE  charge >= Batches!Total([i \in 1 .. Len(billed) |->
                          IF journal[billed[i].call].status = "SUCCEEDED" THEN Batches!Larger(Reserve, billed[i].cost) ELSE Reserve],
                          Len(billed))
    BY <1>1, <2>1 DEF Batches!ChargesAreRecovered
  <2> DEFINE f == [i \in 1 .. Len(journal) |-> journal[i].tokens]
             g == [i \in 1 .. Len(billed) |->
                     IF journal[billed[i].call].status = "SUCCEEDED" THEN Batches!Larger(Reserve, billed[i].cost) ELSE Reserve]
             h == [i \in 1 .. Len(billed) |-> billed[i].call]
             m == Len(billed)
             n == Len(journal)
  <2>2. charge = Batches!Total(f, n)
    BY DEF SumsFit, ChargeIsTotal, Batches!TokensOf
  <2>3. \A k \in 1 .. n : f[k] \in Nat /\ f[k] >= Reserve
    BY <1>1 DEF SumsFit, InBudget, Batches!Records
  <2>4. \A j \in 1 .. m : g[j] \in Nat /\ g[j] <= f[h[j]]
    <3> SUFFICES ASSUME NEW j \in 1 .. m PROVE g[j] \in Nat /\ g[j] <= f[h[j]]
      OBVIOUS
    <3> DEFINE row == journal[billed[j].call]
    <3>1. /\ f[h[j]] = row.tokens /\ row.tokens >= Reserve /\ row.tokens \in Nat
          /\ (row.status = "SUCCEEDED" => billed[j].cost <= row.tokens) /\ billed[j].cost \in Nat
      BY <1>1, <2>1, <2>3 DEF SumsFit, Covers
    <3>2. g[j] = IF row.status = "SUCCEEDED" THEN Batches!Larger(Reserve, billed[j].cost) ELSE Reserve
      OBVIOUS
    <3> HIDE DEF row, f, g, h
    <3> QED BY <3>1, <3>2 DEF Batches!Larger, BatchConstants
  <2>5. \A j \in 1 .. m : h[j] \in 1 .. n
    BY <2>1
  <2>6. \A j, k \in 1 .. m : h[j] = h[k] => j = k
    BY DEF SumsFit, BillsAreOfCalls
  <2>7. m \in Nat /\ n \in Nat
    BY <1>1
  <2> HIDE DEF f, g, h, m, n
  <2>8. Batches!Total(g, m) <= Batches!Total(f, n)
    <3>1. \A k \in 1 .. n : f[k] \in Nat
      BY <2>3
    <3>2. \A j \in 1 .. m : h[j] \in 1 .. n /\ g[j] \in Nat /\ g[j] <= f[h[j]]
      BY <2>4, <2>5
    <3> QED BY <2>6, <2>7, <3>1, <3>2, TotalOfSome
  <2>9. Batches!Total(g, m) \in Nat /\ Batches!Total(f, n) \in Nat
    BY <2>3, <2>4, <2>7, TotalIsNat
  <2> QED BY <2>2, <2>8, <2>9 DEF g, m
<1> QED BY <1>2, <1>3, <1>4

-------------------------------------------------------------------------------
(* The evaluation in the composition                                           *)

\* The evaluated negotiation, the batch and the release experiment are in order in every
\* behaviour of the composition (environment.py, dynamic_runner.py, p5/runner.py).
BatchIsInOrder == BatchInv /\ ManifestFits /\ GateFits /\ SumsFit
EvaluationIsInOrder ==
  /\ EpInv
  /\ scope = "batch" => BatchIsInOrder
  /\ scope = "release" => RelInv

\* The rest of the composition leaves the rows of an episode alone.
LEMMA EpisodeRuns ==
  /\ RunInit => EpInv /\ Episode!Agr!Init
  /\ EpInv /\ [RunNext]_run => EpInv' /\ (Episode!Agr!Next \/ UNCHANGED Episode!Agr!vars)
<1>1. RunInit => Episode!Init
  BY DEF RunInit
<1>2. [RunNext]_run => Episode!Next \/ UNCHANGED episode
  BY DEF RunNext, run
<1>3. UNCHANGED episode => UNCHANGED Episode!vars
  BY DEF episode, Episode!vars, Episode!env, Episode!audit
<1>4. ASSUME EpInv, UNCHANGED Episode!vars PROVE EpInv'
  <2>1. UNCHANGED <<pc, turns, offers, current, turnOffer, status, ep_rounds, confirmed, ep_approval,
                    commitments, audited, findings, viewed>>
    BY <1>4 DEF Episode!vars, Episode!env, Episode!audit
  <2>2. EpisodeTyped'
    BY <1>4, <2>1 DEF EpInv, EpisodeTyped
  <2>3. OffersInOrder'
    BY <1>4, <2>1 DEF EpInv, OffersInOrder
  <2>4. TurnInOrder'
    BY <1>4, <2>1 DEF EpInv, TurnInOrder, Episode!Agreeable
  <2>5. CommitmentsStand'
    BY <1>4, <2>1 DEF EpInv, CommitmentsStand, Authorized, Committed
  <2> QED BY <2>2, <2>3, <2>4, <2>5 DEF EpInv
<1> QED BY <1>1, <1>2, <1>3, <1>4, EpisodeValues, EpisodeBegins, AgreementBegins, EpisodeKeeps,
          EpisodeAgrees, EpisodeRests

\* A manifest is completed by the process, which then ends, or after its end.
LEMMA ManifestOnce ==
  ASSUME ManifestFits, Batches!Next \/ UNCHANGED batch
  PROVE  ManifestFits' /\ Batches!KeepsCompleted
<1>1. CASE UNCHANGED batch
  BY <1>1 DEF ManifestFits, batch, Batches!KeepsCompleted, Batches!files
<1>2. CASE Batches!Next
  <2>1. CASE ~completed
    <3>1. CASE Batches!WriteManifest
      BY <2>1, <3>1 DEF ManifestFits, Batches!WriteManifest, Batches!KeepsCompleted
    <3>2. CASE Batches!Finalize
      BY <2>1, <3>2 DEF ManifestFits, Batches!Finalize, Batches!KeepsCompleted, Batches!Alive
    <3>3. CASE ~Batches!WriteManifest /\ ~Batches!Finalize
      <4>1. completed' = completed
        BY <1>2, <3>3 DEF Batches!Next, Batches!files, Batches!Start, Batches!Reserving,
           Batches!Journal,
           Batches!Invoke, Batches!Answered, Batches!JournalAnswer, Batches!Refused, Batches!SellerActs, Batches!BuyerFails,
           Batches!Recorded, Batches!WriteGate, Batches!Killed
      <4> QED BY <2>1, <4>1 DEF ManifestFits, Batches!KeepsCompleted
    <3> QED BY <3>1, <3>2, <3>3
  <2>2. CASE completed
    <3>1. main \in {"exited", "dead"} /\ ~Batches!Alive
      BY <2>2 DEF ManifestFits, Batches!Alive
    <3> QED BY <1>2, <2>2, <3>1 DEF ManifestFits, Batches!Next, Batches!Start, Batches!Reserving,
       Batches!Journal, Batches!Invoke, Batches!Answered, Batches!JournalAnswer, Batches!Refused, Batches!SellerActs, Batches!BuyerFails,
       Batches!Recorded, Batches!WriteGate, Batches!WriteManifest, Batches!Killed,
       Batches!Finalize
  <2> QED BY <2>1, <2>2
<1> QED BY <1>1, <1>2

\* The rest of the composition leaves the files and threads of a batch alone.
LEMMA BatchRuns ==
  /\ RunInit => (scope = "batch" => BatchIsInOrder)
  /\ (scope = "batch" => BatchIsInOrder) /\ [RunNext]_run =>
        ((scope = "batch" => BatchIsInOrder)' /\ (scope = "batch" => Batches!KeepsCompleted))
<1>1. ASSUME RunInit, scope = "batch" PROVE BatchIsInOrder
  <2>1. Batches!Init
    BY <1>1 DEF RunInit
  <2>2. BatchInv /\ SumsFit
    BY <2>1, RunsAreNumbered, BatchBegins, SumsBegin
  <2> QED BY <2>1, <2>2 DEF BatchIsInOrder, ManifestFits, GateFits, Batches!Init, Batches!NoGate
<1>2. ASSUME BatchIsInOrder, [RunNext]_run, scope = "batch"
      PROVE  BatchIsInOrder' /\ Batches!KeepsCompleted
  <2>1. Batches!Next \/ UNCHANGED batch
    BY <1>2 DEF RunNext, run
  <2>2. Batches!Next \/ UNCHANGED Batches!vars
    BY <2>1 DEF batch, Batches!vars, Batches!memory, Batches!files
  <2>3. BatchInv /\ ManifestFits /\ GateFits /\ SumsFit
    BY <1>2 DEF BatchIsInOrder
  <2>4. BatchInv' /\ SumsFit'
    BY <2>2, <2>3, RunsAreNumbered, BatchStep, SumsStep
  <2>5. GateFits' /\ ManifestFits' /\ Batches!KeepsCompleted
    BY <2>1, <2>2, <2>3, GateStays, ManifestOnce
  <2> QED BY <2>4, <2>5 DEF BatchIsInOrder
<1>3. [RunNext]_run => scope' = scope
  BY DEF RunNext, run
<1>4. [RunNext]_run /\ scope # "batch" => (scope = "batch" => Batches!KeepsCompleted)
  OBVIOUS
<1> QED BY <1>1, <1>2, <1>3, <1>4

\* The rest of the composition leaves the release experiment alone.
LEMMA ReleaseRuns ==
  /\ RunInit => (scope = "release" => RelInv)
  /\ (scope = "release" => RelInv) /\ [RunNext]_run => (scope = "release" => RelInv)'
<1>1. ASSUME RunInit, scope = "release" PROVE RelInv
  <2>1. Experiment!Init
    BY <1>1 DEF RunInit
  <2> QED BY <2>1, ReleaseValues, ReleaseBegins
<1>2. ASSUME RelInv, [RunNext]_run, scope = "release" PROVE RelInv'
  <2>1. Experiment!Next \/ UNCHANGED release
    BY <1>2 DEF RunNext, run
  <2>2. Experiment!Next \/ UNCHANGED Experiment!vars
    BY <2>1 DEF release, Experiment!vars, Experiment!run
  <2> QED BY <1>2, <2>2, ReleaseValues, ReleaseStep
<1>3. [RunNext]_run => scope' = scope
  BY DEF RunNext, run
<1> QED BY <1>1, <1>2, <1>3

\* All three stay in order in the composition.
LEMMA EvaluationRuns == RunSpec => []EvaluationIsInOrder
<1>1. RunInit => EvaluationIsInOrder
  BY EpisodeRuns, BatchRuns, ReleaseRuns DEF EvaluationIsInOrder
<1>2. EvaluationIsInOrder /\ [RunNext]_run => EvaluationIsInOrder'
  BY EpisodeRuns, BatchRuns, ReleaseRuns DEF EvaluationIsInOrder
<1> QED BY <1>1, <1>2, PTL DEF RunSpec

\* An evaluated negotiation keeps the rules of Agreement: an agreement is reached only on
\* the open offer, with the seller's authority and once the buyer was shown it; and the files
\* of a completed batch are not written again (environment.py,
\* scripts/finalize_interrupted_dynamic_batch.py).
THEOREM EvaluationFinal == RunSpec => EvaluationIsFinal
<1>1. EvaluationIsInOrder /\ [RunNext]_run => [scope = "batch" => Batches!KeepsCompleted]_run
  BY BatchRuns DEF EvaluationIsInOrder
<1>2. EvaluationIsInOrder /\ [RunNext]_run => [Episode!Agr!Next]_Episode!Agr!vars
  BY EpisodeRuns DEF EvaluationIsInOrder
<1>3. RunInit => Episode!Agr!Init
  BY EpisodeRuns
<1> QED BY <1>1, <1>2, <1>3, EvaluationRuns, PTL
        DEF RunSpec, EvaluationIsFinal, Episode!AgreementIsKept, Episode!Agr!Spec

\* An evaluation counts what its calls cost, journals what it ran, passes or releases only on
\* complete evidence, and its audit finds no offer the tools should have refused: what
\* threads of a batch ask at the same time stays within the cap but for the excess the
\* provider bills, what was billed is charged wherever the process died, and the release
\* experiment returns and replays what is in its files (dynamic_runner.py, p5/runner.py,
\* scripts/finalize_interrupted_dynamic_batch.py, environment.py).
THEOREM EvaluationAccounted == RunSpec => []EvaluationIsAccounted
<1>1. EvaluationIsInOrder => EvaluationIsAccounted
  <2> SUFFICES ASSUME EvaluationIsInOrder PROVE EvaluationIsAccounted
    OBVIOUS
  <2>1. Episode!TypeOK /\ Episode!OpenIsCurrent /\ Episode!AuditFindsNothing
    BY EpisodeIsInOrder DEF EvaluationIsInOrder
  <2>2. ASSUME scope = "batch"
        PROVE  /\ Batches!TypeOK /\ Batches!CapHolds
               /\ Batches!ChargesAreRecovered /\ Batches!PassedIsComplete
    <3>1. BatchInv /\ SumsFit /\ GateFits
      BY <2>2 DEF EvaluationIsInOrder, BatchIsInOrder
    <3> QED BY <3>1, RunsAreNumbered, SumsSay DEF BatchInv, Filed
  <2>3. ASSUME scope = "release"
        PROVE  /\ Experiment!TypeOK /\ Experiment!RowsAreJournaled /\ Experiment!CallsAreAccounted
               /\ Experiment!ReleaseIsEarned /\ Experiment!ReturnedIsRead
               /\ Experiment!ReplayIsComplete /\ Experiment!ConfirmsWhatWasShown
    <3>1. RelInv
      BY <2>3 DEF EvaluationIsInOrder
    <3> QED BY <3>1, ReleaseValues, ReleaseSays
  <2> QED BY <2>1, <2>2, <2>3 DEF EvaluationIsAccounted
<1> QED BY <1>1, EvaluationRuns, PTL
===============================================================================
