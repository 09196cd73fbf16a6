------------------------------ MODULE Dialogs ------------------------------
(***************************************************************************)
(* Two dialogs of static/main.js.  The batch dialog tests a list of URLs   *)
(* one after the other from the page; the monitoring dialog asks the       *)
(* worker to watch a target.  Both keep their state in globals and in the  *)
(* buttons, and both may be used again before an earlier answer is in.     *)
(***************************************************************************)
EXTENDS Filter, FiniteSets

CONSTANTS Lines,      \* what may stand on a line of the textarea
          Valid,      \* the lines that are http(s) URLs
          Batches,    \* [text, detect]: sequences of lines, and the setting to detect
          MaxUrls,    \* 100
          MaxItems,   \* 1000 results of one URL
          MaxBatches, \* bound: clicks on Start
          MaxSends,   \* bound: submissions of the monitoring form
          NoJob

VARIABLES job,    \* currentBatchJob
          loop,   \* the runs of startClientSideBatchProcessing, by batch
          dialog, \* the buttons and the figures of the batch dialog
          form,   \* the monitoring form
          sends   \* its requests without an answer

batchVars == <<job, loop, dialog>>
formVars == <<form, sends>>
vars == <<batchVars, formVars>>

Idle == [phase |-> "off", urls |-> << >>, i |-> 0, page |-> 0, got |-> 0, hits |-> 0,
         detect |-> FALSE, ask |-> FALSE, known |-> FALSE, probes |-> 0]

Init ==
  /\ job = NoJob
  /\ loop = [b \in 1 .. MaxBatches |-> Idle]
  /\ dialog = [start |-> TRUE, stop |-> FALSE, export |-> FALSE, percent |-> 0, shown |-> NoJob]
  /\ form = [button |-> TRUE, email |-> FALSE, alert |-> "none", openings |-> 0, sent |-> 0]
  /\ sends = {}

-----------------------------------------------------------------------------
(* The batch dialog.  Only the request of a loop waits: everything from an *)
(* answer to the next request is one step of the page.                     *)

Running == job # NoJob /\ job.status = "running"
Alive(b) == loop[b].phase \in {"request", "pause"}
Round(n, d) == (200 * n + d) \div (2 * d)

ShowBatchModal ==
  /\ dialog' = [dialog EXCEPT !.start = TRUE, !.stop = FALSE, !.export = FALSE, !.shown = NoJob]
  /\ UNCHANGED <<job, loop>>

\* The request for page 0 of the next URL; currentIndex and the progress bar move with it.
Request(l, i) ==
  [l EXCEPT !.phase = "request", !.i = i, !.page = 0, !.got = 0, !.hits = 0,
            !.ask = l.detect, !.known = FALSE, !.probes = IF l.detect THEN 1 ELSE 0]

\* The lines that are no URL are left out once the user agrees.
ValidUrls(text) == Keep(text, Valid)

\* inherited (history): the loops that were still alive when the job took over.
StartBatch(b, text, detect) ==
  LET urls == ValidUrls(text) IN
  /\ dialog.start /\ loop[b].phase = "off" /\ \A c \in 1 .. b - 1 : loop[c].phase # "off"
  /\ Len(urls) \in 1 .. MaxUrls
  /\ job' = [id |-> b, urls |-> urls, results |-> << >>, completed |-> 0,
             status |-> "running", inherited |-> {c \in 1 .. MaxBatches : Alive(c)}]
  /\ loop' = [loop EXCEPT ![b] = Request([Idle EXCEPT !.urls = urls, !.detect = detect], 1)]
  /\ dialog' = [dialog EXCEPT !.start = FALSE, !.stop = TRUE, !.percent = 0]

StopBatch ==
  /\ job # NoJob /\ dialog.stop
  /\ job' = [job EXCEPT !.status = "stopped"]
  /\ dialog' = [dialog EXCEPT !.start = TRUE, !.stop = FALSE]
  /\ UNCHANGED loop

Entry(b, l, ok) ==
  [url |-> l.urls[l.i], loop |-> b, ok |-> ok, tests |-> IF ok THEN l.got ELSE 0,
   rate |-> IF ok /\ l.got > 0 THEN Round(l.hits, l.got) ELSE 0]

\* Mutant: a result is added to a job that is over.
RecordAlways(b, l, ok) ==
  [job EXCEPT !.results = Append(@, Entry(b, l, ok)), !.completed = @ + 1]

\* The loop writes to the job it finds, which may not be the one that started it.
Record(b, l, ok) ==
  IF Running
  THEN [job EXCEPT !.results = Append(@, Entry(b, l, ok)), !.completed = @ + 1]
  ELSE job

\* How many of the results are successes, or are none.
Count(results, ok) == Cardinality({n \in DOMAIN results : results[n].ok = ok})

Finalize(j) ==
  /\ job' = [j EXCEPT !.status = "completed"]
  /\ dialog' = [dialog EXCEPT !.start = TRUE, !.stop = FALSE, !.export = TRUE, !.percent = 100,
       !.shown = [job |-> j.id, total |-> Len(j.urls),
                  successful |-> Count(j.results, TRUE),
                  failed |-> Count(j.results, FALSE)]]

\* After the answer about a URL: a pause before the next one, or the end of the loop.
NextUrl(b, j) ==
  LET l == loop[b] IN
  IF l.i < Len(l.urls) /\ j.status = "running"
  THEN /\ loop' = [loop EXCEPT ![b] = [Idle EXCEPT !.phase = "pause", !.urls = l.urls,
                                               !.detect = l.detect, !.i = l.i]]
       /\ job' = j /\ UNCHANGED dialog
  ELSE /\ loop' = [loop EXCEPT ![b] = [Idle EXCEPT !.phase = "ended"]]
       /\ IF j.status = "running" THEN Finalize(j) ELSE job' = j /\ UNCHANGED dialog

\* The pause is over; the loop condition looks at the job of now.
Wake(b) ==
  /\ loop[b].phase = "pause"
  /\ IF Running
     THEN /\ loop' = [loop EXCEPT ![b] = Request(@, @.i + 1)]
          /\ dialog' = [dialog EXCEPT !.percent = Round(loop[b].i, Len(loop[b].urls))]
     ELSE loop' = [loop EXCEPT ![b] = [Idle EXCEPT !.phase = "ended"]] /\ UNCHANGED dialog
  /\ UNCHANGED job

\* Mutant: every page of a URL asks for the detection.
NextPageAsksAgain(l, hit, waf) ==
  [l EXCEPT !.page = @ + 1, !.got = @ + 1, !.hits = @ + (IF hit THEN 1 ELSE 0),
            !.known = l.known \/ waf, !.probes = @ + (IF l.ask /\ ~(l.known \/ waf) THEN 1 ELSE 0)]

\* A page with a result: the WAF found on the first page is sent along, and
\* when none is found there no later page asks again.
NextPage(l, hit, waf) ==
  LET first == l.page = 0 /\ l.ask
      ask == IF first /\ ~waf THEN FALSE ELSE l.ask
      known == l.known \/ (first /\ waf)
  IN [l EXCEPT !.page = @ + 1, !.got = @ + 1, !.hits = @ + (IF hit THEN 1 ELSE 0),
               !.ask = ask, !.known = known, !.probes = @ + (IF ask /\ ~known THEN 1 ELSE 0)]

PageAnswered(b, hit, waf) ==
  LET l == NextPage(loop[b], hit, waf) IN
  /\ loop[b].phase = "request"
  /\ IF l.got > MaxItems
     THEN NextUrl(b, Record(b, l, TRUE))
     ELSE loop' = [loop EXCEPT ![b] = l] /\ UNCHANGED <<job, dialog>>

\* An empty page or a refusal ends the URL with what there is; a failed
\* request loses the pages before it.
UrlEnds(b, ok) == loop[b].phase = "request" /\ NextUrl(b, Record(b, loop[b], ok))

ExportBatch == \* reads the job, whatever its status
  [job |-> job.id, results |-> job.results, successful |-> Count(job.results, TRUE)]

Told(b) ==
  \/ \E hit \in BOOLEAN, waf \in BOOLEAN : PageAnswered(b, hit, waf)
  \/ \E ok \in BOOLEAN : UrlEnds(b, ok)

BatchNext ==
  \/ ShowBatchModal
  \/ \E b \in 1 .. MaxBatches, in \in Batches : StartBatch(b, in.text, in.detect)
  \/ StopBatch
  \/ \E b \in 1 .. MaxBatches : Wake(b) \/ Told(b)

-----------------------------------------------------------------------------
(* The monitoring form.                                                    *)

\* Opening it clears the alert and enables the button, whatever is under way.
ShowScheduleModal ==
  /\ form.openings < MaxSends
  /\ form' = [form EXCEPT !.button = TRUE, !.alert = "none", !.openings = @ + 1]
  /\ UNCHANGED sends

EnterEmail == ~form.email /\ form' = [form EXCEPT !.email = TRUE] /\ UNCHANGED sends

\* Mutant: the button stays enabled.
SubmitEnabled ==
  /\ form.openings > 0 /\ form.email /\ form.sent < MaxSends
  /\ form' = [form EXCEPT !.alert = "none", !.sent = @ + 1]
  /\ sends' = sends \cup {form.sent + 1}

Submit ==
  /\ form.openings > 0 /\ form.button
  /\ IF form.email
     THEN /\ form.sent < MaxSends
          /\ form' = [form EXCEPT !.button = FALSE, !.alert = "none", !.sent = @ + 1]
          /\ sends' = sends \cup {form.sent + 1}
     ELSE form' = [form EXCEPT !.alert = "missing"] /\ UNCHANGED sends

\* external: the answer tells which token to place in which file.
Answered(s, what) ==
  /\ s \in sends /\ sends' = sends \ {s}
  /\ form' = [form EXCEPT !.button = TRUE, !.alert = what,
                          !.email = IF what \in {"dispatched", "external"} THEN FALSE ELSE @]

FormNext ==
  \/ ShowScheduleModal
  \/ EnterEmail
  \/ Submit
  \/ \E s \in sends, what \in {"dispatched", "external", "failed", "unreachable"} : Answered(s, what)

-----------------------------------------------------------------------------

Entries == [url : Lines, loop : 1 .. MaxBatches, ok : BOOLEAN, tests : Nat, rate : Int]
Jobs    == [id : 1 .. MaxBatches, urls : Seq(Lines), results : Seq(Entries), completed : Nat,
            status : {"running", "stopped", "completed"}, inherited : SUBSET (1 .. MaxBatches)]
Loops   == [phase : {"off", "request", "pause", "ended"}, urls : Seq(Lines), i : Nat,
            page : Nat, got : Nat, hits : Nat, detect : BOOLEAN, ask : BOOLEAN,
            known : BOOLEAN, probes : Nat]
Figures == [job : 1 .. MaxBatches, total : Nat, successful : Nat, failed : Nat]

TypeOK ==
  /\ job \in Jobs \cup {NoJob}
  /\ loop \in [1 .. MaxBatches -> Loops]
  /\ dialog \in [start : BOOLEAN, stop : BOOLEAN, export : BOOLEAN, percent : Int,
                 shown : Figures \cup {NoJob}]
  /\ form \in [button : BOOLEAN, email : BOOLEAN, openings : Nat, sent : Nat,
               alert : {"none", "missing", "dispatched", "external", "failed", "unreachable"}]
  /\ sends \subseteq 1 .. MaxSends

\* A textarea has any number of lines, and NoJob is no batch.
Inputs ==
  /\ MaxBatches \in Nat /\ MaxSends \in Nat
  /\ Batches \subseteq [text : Seq(Lines), detect : BOOLEAN]
  /\ NoJob \notin Jobs

\* Of the first n results, how many the batch's own loop has added.
Own(j, n) == Cardinality({m \in 1 .. n : j.results[m].loop = j.id})

\* Whatever was started and stopped before, a batch (main.js:2896-2943) holds
\* the results of its own URLs in order and none twice; a result of other URLs
\* can only come from a loop that was asleep or waiting when the batch was
\* started; and a batch nobody else wrote into is completed only with a result
\* for each of its URLs.
BatchHoldsItsUrls ==
  job # NoJob =>
    /\ job.completed = Len(job.results)
    /\ \A n \in DOMAIN job.results :
         IF job.results[n].loop = job.id
         THEN Own(job, n) <= Len(job.urls) /\ job.results[n].url = job.urls[Own(job, n)]
         ELSE job.results[n].loop \in job.inherited
    /\ job.inherited = {} /\ job.status = "completed" => Own(job, Len(job.results)) = Len(job.urls)
    /\ Running => Alive(job.id)

\* The dialog's figures (main.js:3094-3139) are those of the completed batch it
\* names, and of every result in it.
FiguresAddUp ==
  dialog.shown # NoJob /\ job # NoJob /\ dialog.shown.job = job.id =>
    /\ job.status = "completed" /\ dialog.shown.successful + dialog.shown.failed = Len(job.results)
    /\ dialog.shown.successful = ExportBatch.successful

\* "Detection runs with the first page only" (main.js:2994-2995): a URL is
\* never probed for a WAF twice.
OneDetectionPerUrl == \A b \in 1 .. MaxBatches : loop[b].probes <= 1

\* Between two openings of the form (main.js:3264, 3298, 3359) at most one
\* request goes out at a time, and without any the button works.
OneSendPerOpening ==
  /\ Cardinality(sends) <= form.openings
  /\ sends = {} /\ form.openings > 0 => form.button

Over == job # NoJob /\ job.status # "running"

\* A batch that was stopped or completed never gains a result, however many of
\* its requests are still to be answered (main.js:2907, 2924).
OverIsOver == [][Over /\ job'.id = job.id => job'.results = job.results]_batchVars

\* A batch that runs is completed or stopped, if its requests are answered or
\* fail and the timer between two URLs fires (main.js:2896-2946).
BatchEnds == Running ~> ~Running
=============================================================================
