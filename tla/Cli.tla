-------------------------------- MODULE Cli --------------------------------
(***************************************************************************)
(* The commands of cli/src/index.ts: check, batch, patch and detect, from  *)
(* the validation of the options to the files on disk and the exit code    *)
(* that a pipeline looks at.                                               *)
(***************************************************************************)
EXTENDS Reports

CONSTANTS Scans,    \* results that the scan of check may produce
          OneScans, \* results of one URL of a batch
          Saved,    \* results in a report that an earlier run saved
          Checks,   \* options of check
          Batches,  \* options of batch
          Paths,    \* files
          Lanes,    \* --concurrency of batch: 3 by default
          None

VARIABLES phase,    \* the step of the command that runs
          cmd,      \* its options
          files,    \* the files, by path
          before,   \* the files when the command started
          results,  \* results of check
          scanDiff, \* what --compare found, None without it
          queue,    \* validUrls of batch
          lane,     \* the URL each lane is scanning, None between two
          done,     \* batchResults
          exit      \* the exit code, None while the command runs

vars == <<phase, cmd, files, before, results, scanDiff, queue, lane, done, exit>>

\* bad: what the validation refuses.  threshold: None without --threshold.
CheckOptions == [bad : {"none", "url", "originIp", "proxy", "limit", "threshold"}, json : BOOLEAN,
                 threshold : {None} \cup 0 .. 100, failOnBypass : BOOLEAN, failOnRegression : BOOLEAN,
                 compare : {None} \cup Paths, output : {None} \cup Paths,
                 format : {"json", "html"}, limit : BOOLEAN, patch : BOOLEAN]

Absent == [kind |-> "absent", results |-> << >>]
Other  == [kind |-> "other", results |-> << >>]
Report(rs) == [kind |-> "report", results |-> rs]

\* The options of a command that is not check.
Plain == [bad |-> "none", json |-> FALSE, threshold |-> None, failOnBypass |-> FALSE,
          failOnRegression |-> FALSE, compare |-> None, output |-> None,
          format |-> "html", limit |-> FALSE, patch |-> FALSE]

Init ==
  /\ phase = "idle" /\ cmd = Plain /\ exit = None /\ results = << >> /\ scanDiff = None
  /\ files = [p \in Paths |-> Absent] /\ before = files
  /\ queue = << >> /\ done = << >> /\ lane = [w \in 1 .. Lanes |-> None]

batchVars == <<queue, lane, done>>
Exit(code) == exit' = code /\ phase' = "ended"

\* An earlier run left a file for the command to read.
Prepare(p, content) ==
  /\ phase = "idle" /\ phase' = "prepared"
  /\ files' = [files EXCEPT ![p] = content] /\ before' = files'
  /\ UNCHANGED <<cmd, results, scanDiff, batchVars, exit>>

-----------------------------------------------------------------------------
(* check                                                                   *)

\* A URL, an origin address or a limit that is refused ends it at once; a
\* threshold is not looked at before the scan is over.
CheckBegin(o) ==
  /\ phase \in {"idle", "prepared"} /\ cmd' = o
  /\ IF o.bad \in {"url", "originIp", "proxy", "limit"}
       THEN Exit(1) ELSE phase' = "scan" /\ UNCHANGED exit
  /\ UNCHANGED <<files, before, results, scanDiff, batchVars>>

\* --limit switches the probes and the calibration off: no result carries their
\* marks, a refusal of the origin counts as a block, and a block page with a status
\* of its own is none.
Uncalibrated(r) ==
  IF r.note = "none" THEN [r EXCEPT !.ua = FALSE, !.ip = FALSE]
  ELSE IF r.note = "origin_blocked"
    THEN [r EXCEPT !.note = "none", !.blocked = TRUE, !.verdict = "blocked"]
  ELSE [r EXCEPT !.note = "none", !.blocked = FALSE, !.verdict = "passed"]

CheckScan(rs) ==
  /\ phase = "scan" /\ phase' = "patch"
  /\ results' = IF cmd.limit THEN [i \in DOMAIN rs |-> Uncalibrated(rs[i])] ELSE rs
  /\ UNCHANGED <<cmd, files, before, scanDiff, batchVars, exit>>

\* The scan or the reverse engineering throws, or the patches cannot be
\* written: the command fails and reports nothing.
CheckThrows ==
  /\ phase = "scan" \/ (phase = "patch" /\ cmd.patch)
  /\ Exit(1)
  /\ UNCHANGED <<cmd, files, before, results, scanDiff, batchVars>>

\* The patches are saved; --json then prints everything and ends the command.
CheckPatch ==
  /\ phase = "patch"
  /\ IF cmd.json THEN Exit(0) ELSE phase' = "write" /\ UNCHANGED exit
  /\ UNCHANGED <<cmd, files, before, results, scanDiff, batchVars>>

\* -o and the three other outputs; an error is printed and the command goes on.
CheckWrite(ok) ==
  /\ phase = "write" /\ phase' = "compare"
  /\ files' = IF ok /\ cmd.output # None
                THEN [files EXCEPT ![cmd.output] =
                        IF cmd.format = "json" THEN Report(results) ELSE Other]
                ELSE files
  /\ UNCHANGED <<cmd, before, results, scanDiff, batchVars, exit>>

\* Mutant: the report that cannot be read passes the gate.
CheckCompareLenient ==
  /\ phase = "compare" /\ phase' = "gates"
  /\ scanDiff' = IF cmd.compare # None /\ files[cmd.compare].kind = "report"
                   THEN Diff(files[cmd.compare].results, results) ELSE None
  /\ UNCHANGED <<cmd, files, before, results, batchVars, exit>>
\* runScanDiff: the file is read now, after the report has been written.
CheckCompare ==
  LET readable == cmd.compare # None /\ files[cmd.compare].kind = "report" IN
  /\ phase = "compare"
  /\ scanDiff' = IF readable THEN Diff(files[cmd.compare].results, results) ELSE None
  /\ IF cmd.compare # None /\ ~readable /\ cmd.failOnRegression
       THEN Exit(1) ELSE phase' = "gates" /\ UNCHANGED exit
  /\ UNCHANGED <<cmd, files, before, results, batchVars>>

ThresholdFails ==
  /\ cmd.threshold # None
  /\ \/ cmd.bad = "threshold"
     \/ Check(results).score < cmd.threshold
     \/ Check(results).uaBypasses # {} \/ Check(results).ipBypasses # {}

CheckGates ==
  /\ phase = "gates"
  /\ Exit(IF \/ ThresholdFails
             \/ cmd.failOnBypass /\ Bypasses(results) # {}
             \/ cmd.failOnRegression /\ scanDiff # None /\ scanDiff.regressions # {}
           THEN 1 ELSE 0)
  /\ UNCHANGED <<cmd, files, before, results, scanDiff, batchVars>>

-----------------------------------------------------------------------------
(* batch                                                                   *)

\* The valid URLs of the file; none of them, or no file, ends the command.
BatchBegin(o, urls) ==
  /\ phase = "idle" /\ cmd' = o
  /\ IF urls = << >> THEN Exit(1) /\ UNCHANGED queue
     ELSE phase' = "batch" /\ queue' = urls /\ UNCHANGED exit
  /\ UNCHANGED <<files, before, results, scanDiff, lane, done>>

\* A lane shifts the next URL off the list that all lanes share.
BatchTake(w) ==
  /\ phase = "batch" /\ lane[w] = None /\ queue # << >>
  /\ lane' = [lane EXCEPT ![w] = Head(queue)] /\ queue' = Tail(queue)
  /\ UNCHANGED <<phase, cmd, files, before, results, scanDiff, done, exit>>

Finished(w, result) ==
  /\ phase = "batch" /\ lane[w] # None
  /\ done' = Append(done, result) /\ lane' = [lane EXCEPT ![w] = None]
  /\ UNCHANGED <<phase, cmd, files, before, results, scanDiff, queue, exit>>

BatchScanned(w, rs) ==
  Finished(w, [url |-> lane[w], success |-> TRUE, tally |-> Batch(rs), scan |-> rs])

\* A scan that throws counts as nothing tested.
BatchScanFails(w) ==
  Finished(w, [url |-> lane[w], success |-> FALSE, scan |-> << >>,
               tally |-> [total |-> 0, blocked |-> 0, bypassed |-> 0]])

SumOf(field) ==
  LET upTo[k \in 0 .. Len(done)] == IF k = 0 THEN 0 ELSE upTo[k - 1] + done[k].tally[field]
  IN upTo[Len(done)]

\* 0 when nothing was tested, where check says 100.
BatchScore == IF SumOf("total") = 0 THEN 0 ELSE Percent(SumOf("blocked"), SumOf("total"))

\* The table and the files, then the gates; SARIF and JUnit files are refused.
BatchEnd ==
  /\ phase = "batch" /\ queue = << >> /\ \A w \in 1 .. Lanes : lane[w] = None
  /\ files' = IF cmd.output # None /\ ~cmd.json
                THEN [files EXCEPT ![cmd.output] = Other] ELSE files
  /\ Exit(IF /\ ~cmd.json
             /\ \/ cmd.threshold # None /\ (cmd.bad = "threshold" \/ BatchScore < cmd.threshold)
                \/ cmd.failOnBypass /\ SumOf("bypassed") > 0
           THEN 1 ELSE 0)
  /\ UNCHANGED <<cmd, before, results, scanDiff, batchVars>>

-----------------------------------------------------------------------------
(* patch and detect                                                        *)

\* Patches from a saved report: nothing is written without a bypass in it, or
\* with --json.  A file that is not JSON ends the command.
PatchCommand(p, o) ==
  /\ phase \in {"idle", "prepared"} /\ cmd' = o
  /\ Exit(IF files[p].kind = "report" THEN 0 ELSE 1)
  /\ files' = IF /\ files[p].kind = "report" /\ ~o.json /\ o.output # None
                 /\ \E i \in DOMAIN files[p].results : files[p].results[i].status = "200"
                THEN [files EXCEPT ![o.output] = Other] ELSE files
  /\ UNCHANGED <<before, results, scanDiff, batchVars>>

\* detect changes nothing; it fails on a bad URL.
DetectCommand(ok) ==
  /\ phase = "idle" /\ Exit(IF ok THEN 0 ELSE 1)
  /\ UNCHANGED <<cmd, files, before, results, scanDiff, batchVars>>

CheckNext ==
  \/ \E o \in Checks : CheckBegin(o)
  \/ \E rs \in Scans : CheckScan(rs)
  \/ CheckThrows
  \/ CheckPatch
  \/ \E ok \in BOOLEAN : CheckWrite(ok)
  \/ CheckCompare
  \/ CheckGates

BatchNext ==
  \/ \E o \in Batches, urls \in {<<"u1", "u2", "u3">>, << >>} : BatchBegin(o, urls)
  \/ \E w \in 1 .. Lanes : BatchTake(w)
  \/ \E w \in 1 .. Lanes, rs \in OneScans : BatchScanned(w, rs)
  \/ \E w \in 1 .. Lanes : BatchScanFails(w)
  \/ BatchEnd

Next ==
  \/ \E p \in Paths, rs \in Saved : Prepare(p, Report(rs))
  \/ \E p \in Paths : Prepare(p, Other)
  \/ CheckNext
  \/ BatchNext
  \/ \E p \in Paths, o \in Batches : PatchCommand(p, o)
  \/ \E ok \in BOOLEAN : DetectCommand(ok)

Spec == Init /\ [][Next]_vars

-----------------------------------------------------------------------------
(* Properties.                                                             *)

Checked == phase \in {"patch", "write", "compare", "gates"} \/ (phase = "ended" /\ results # << >>)

\* Six implementations of "blocked" and "bypassed" agree on what was scanned, and
\* comparing it with a report on disk loses nothing.
ReportsAgree ==
  Checked =>
    /\ SameCounts(results) /\ BatchIsNoKinder(results)
    /\ \A p \in Paths :
         files[p].kind = "report" => DiffPartitions(files[p].results, results)

\* "Exit with exit code 1 if any bypasses are detected" (index.ts:348), and a
\* missed threshold (index.ts:338), unless --json ends the command before.
GatesHold ==
  exit = 0 /\ Checked /\ ~cmd.json =>
    /\ cmd.failOnBypass => Where(results, SarifLists) = {}
    /\ cmd.threshold # None => /\ Stats(results).score >= cmd.threshold
                               /\ \A i \in DOMAIN results : ~results[i].ua /\ ~results[i].ip

\* A payload blocked in the report that was there when the command started and
\* no longer blocked now fails the pipeline, unless --json ends the command or
\* the new report has overwritten the old one (index.ts:350, 609-658).
RegressionFails ==
  exit = 0 /\ Checked /\ ~cmd.json /\ cmd.failOnRegression /\ cmd.compare # None =>
    \/ cmd.output = cmd.compare
    \/ /\ before[cmd.compare].kind = "report"
       /\ \A i \in DOMAIN before[cmd.compare].results, j \in DOMAIN results :
            LET old == before[cmd.compare].results[i]  new == results[j] IN
            /\ old.key = new.key /\ ScanStatus(old) = "blocked" /\ ScanStatus(new) \in GotThrough
            => \/ \E k \in DOMAIN before[cmd.compare].results :
                    k > i /\ before[cmd.compare].results[k].key = old.key
               \/ \E k \in DOMAIN results : k > j /\ results[k].key = new.key

\* A batch reports every URL once, and a bypass that the check command would
\* have found in any of them fails it (index.ts:883-889).
BatchIsComplete ==
  exit # None /\ done # << >> =>
    /\ Len(done) = 3 /\ {done[i].url : i \in DOMAIN done} = {"u1", "u2", "u3"}
    /\ exit = 0 /\ cmd.failOnBypass /\ ~cmd.json =>
         \A i \in DOMAIN done : Check(done[i].scan).bypassed = {}

\* What a pipeline may rely on when it looks at the exit code and the files.
CliHolds == ReportsAgree /\ GatesHold /\ RegressionFails /\ BatchIsComplete
=============================================================================
