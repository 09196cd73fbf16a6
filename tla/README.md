# Verification of waf-checker

TLA+ models, TLC configurations and TLAPS proofs about
[waf-checker](../src/README.md): a tool that sends attack payloads to a site the
operator is authorised to test, decides for each answer whether a web application
firewall blocked it, and can repeat a small scan of the site every day and mail
an alert when the result changes. The same core runs in a Cloudflare Worker
(HTTP API, browser client, daily cron) and in a command-line tool. Paths below
are relative to `src/packages/`.

## 1. Inventory

### 1.1 The parts and how they interact

| Part | State it keeps | Operations | Talks to |
|---|---|---|---|
| Scheduled monitoring service, `worker/src/handlers/schedule.ts` | KV keys `pending:<token>`, `pendingIdx:<blind>`, `active:<token>`, `blind:<blind>`, each a separate `await`ed call | subscribe, verify, unsubscribe, daily cron run | KV, mail, ownership proof, scan engine |
| Cron queue, same file 543-689 | the order of `lastScannedAt` in the records; per run a due list and a deadline | list, sort, cap, take, requeue | scan engine, KV |
| Concurrency pool, `core/src/utils/concurrency.ts` | `nextIndex`, `maxAllowedLanes`, `results` shared by lanes | run the tasks of one page | the worker function (one task = one attack) |
| Scan engine: page plan, `core/src/check.ts` 875-1504 | variation-count cache (16 entries) of the isolate | plan the page, run it, report `total`/`hasMore` | pool, WAF detection, payloads |
| Scan engine: requests, `core/src/check.ts` 43-389 | none between calls; per request a hop count, per blocked attack a list of bypass probes | send with redirects, probe trusted identities | `fetch`, target validation, verdict |
| Verdict and baseline, `core/src/check.ts` 396-816, `core/src/baseline.ts` | none | classify an answer, capture a benign baseline | - |
| Monitoring fingerprint, `worker/src/services/monitor.ts`, `scan.ts` | `baselineFingerprint` in the record | scan fifteen items, summarise, compare with the last summary | cron, scan engine |
| Rate limiter, `worker/src/services/rate-limiter.ts` | one KV value per key: counter and start of the window | check and count | KV |
| WAF detection, `core/src/waf-detection.ts`, `waf-signatures.ts` | none between calls; per call the results of up to six probes | probe, match signatures, pick the best, look for bypass opportunities | `fetch` |
| Target validation, `core/src/utils/security.ts` | none | URL, IP and redirect-scope predicates | - |
| HTTP API, `worker/src/api.ts` | none | route, validate, call the core | everything above |
| Browser page, `worker/src/static/main.js` | globals of the page: abort controller, detected WAF, last session, open dialogs, batch job; `localStorage` | scan, detect, audit, cancel, reload; filter the table; ask for patches; run a batch; subscribe | HTTP API |
| Command line, `cli/src/index.ts` | files; none in memory between runs | check, batch, patch, detect; gates on the result | core |
| Reports, `core/src/reports`, `cli/src/reports` | none | statistics, comparison of two scans, SARIF, JUnit, HTML, Markdown | - |
| Reverse-engineering audit, `core/src/reverse-engineering` | none between calls; lanes share an index, a search holds its bounds | rule probes, body limit search, anomaly score, rate-limit probe | `fetch` |
| Virtual patches, `core/src/virtual-patch` | none | choose bypasses, write rules for eleven products, bundle them | - |
| Payloads, encodings, HTTP manipulation, record encryption | none | data and text | - |

### 1.2 What is hard here, and what makes each part correct

- **Concurrency over KV.** Every KV access is a separate asynchronous call: two
  requests, or a request and the cron run, interleave at any `await`. Correct
  means: only targets whose mailbox (and, for a host outside the mailbox's
  domain, whose challenge file) agreed are monitored; a token never crosses
  identities; a deleted record stays deleted; one record per identity; a
  cancelled subscription stays cancelled.
- **Crashes.** An invocation can be killed at any `await`. Correct means: the link
  of a verify that was cut off still works, and no second record results.
- **A queue with a cap and a deadline.** Correct means: no scan runs past the
  deadline, what a run leaves behind leads the next one, nobody is starved.
- **A pool on one thread.** Lanes share a counter across awaits and retire when the
  target answers 429. Correct means: each item once and in its own slot, the
  lowered limit respected, the promise settles.
- **Paging over a plan that is recomputed per page.** Correct means: the pages of a
  scan are the consecutive slices of one plan, and following them ends.
- **Redirects, timeouts and bypass probes within a subrequest budget.**
- **One page, many activities.** The Enter key starts a scan while another runs, and
  scans, detection, audit and Cancel share one controller and one detected WAF.
  Correct means: what is shown and stored of a scan is that scan's, and Cancel
  reaches a request that waits.
- **Dialogs used again before the last answer is in** (batch, monitoring, patches).
  Correct means: a job keeps its own results and ends; the text offered is that of the
  choices on show.
- **Probes that conclude from missing answers.** A probe that fails, is limited or is
  answered by somebody else must not count as a finding (detection, audit,
  fingerprint).
- **The same question answered in many places.** What is blocked, what is bypassed: the
  statistics, six report formats, the tables and the gates each decide it anew and must
  agree; and the exit code must follow from what was found.

## 2. Modules

| Module | Models | State and actions |
|---|---|---|
| `Subscription` | what the monitoring service promises to one identity | `offers`, `subs`; Offer, Withdraw, Activate, Cancel |
| `Monitor` | `handleScheduleSubscribe`, `handleScheduleVerify`, `handleScheduleUnsubscribe`, `handleScheduledCron` over KV | one variable per key prefix, one program counter per invocation and one for the cron run, one action per KV, network or mail call |
| `CronQueue` | order, cap and deadline of the daily run | the staleness order as a sequence; CronBegin, CronScan, CronSkip, CronFail, CronEnd, Join, Leave, DayPasses |
| `ParallelMap` | what `mapWithConcurrency` promises its caller | items running and done; Call, Advance, Resume, Fail, Resolve |
| `Pool` | `mapWithConcurrency` | shared counter and limit, one program counter per lane; Start, Answer, AnswerLimited, Wake, Throw, Resolve |
| `Paging` | the page plan of `handleApiCheckWithEnvelope` and its count cache, the page loop of the browser and of clients of `/api/audit` | cache of the isolate, cursor, gathered results; UiPage, UiPageFails, UiCancel, AuditPage, AuditStops, OtherScan, NewIsolate |
| `Attack` | one attack of a page: `sendRequest` with its redirects, `probeUserAgentBypass`, `probeIpHeaderBypass` | requests in flight with host and hops, identities tried and successful; Send, Redirect, AttackAnswered, FirstAnswered, PoolAnswered, PoolDone |
| `Verdict` | `evaluateWAFVerdict`, `captureBaseline` and how a scan hands the baseline and the detection from page to page | detection, baseline, the verdict being reported; Detect, Calibrate, NoCalibration, Judge, Report, NextPage |
| `RateLimit` | `checkRateLimit` | clock, the value in KV, one program counter per request; Tick, Begin, Read, Write, Fails |
| `Fingerprint` | `runMonitorScan`, `computeFingerprint`, `diffFingerprints` | the target, the stored fingerprint; Change, Scan |
| `WafDetection` | `WAFDetector` | probes in flight with hops, results in order; Begin, ProbeAnswered, CdnAnswered, ProbeFails, Settled, Attack, Return, Opportunities |
| `ReverseEngineering` | `runReverseEngineeringAudit` and its four analyses | lanes over the rules, body search, score, rate stages; Begin, Claim, RuleAnswered, RulesDone, BodyAnswered, SignalsAnswered, ScoreAnswered, RateBegin, StageAnswered, Report |
| `Reports` | statistics, diff, SARIF, JUnit, HTML, Markdown | operators on the results of a scan |
| `Cli` | the commands check, batch, patch, detect | phase of the command, files, lanes of a batch, exit code; one action per step between validation and exit |
| `VirtualPatch` | `generateVirtualPatches`, `heuristics.ts`, the eleven generators | the stored scan and the report; Ask |
| `Browser` | scans, detection, audit, Cancel, reload and `localStorage` of the page | page globals, one record per scan; StartScan, UpfrontAnswered, PageAnswered, ScanAborted, ScanEnds, Cancel, StartAudit, AuditEnds, StartDetect, DetectAnswered, ClearDetection, Reload, Type |
| `Dashboard` | the table with its filters, scores, summary bars, executive summary | the session and the boxes; Publish, ToggleAll, ToggleStatus, ToggleAgents, Search |
| `Studio` | the virtual patch dialog | report kept, tab, format, open requests; ScanPublished, Show, Answered, SelectVendor, SelectScope, SelectFormat, Close |
| `Dialogs` | the batch and the monitoring dialog | job, its loop, the dialog's figures; the form and its sends |
| `MCMonitor`, `MCCronQueue`, `MCAttack` | values of the constants for TLC | |
| `MCService`, `MCCommand`, `MCProbing`, `MCClients`, `MCEngine` | groups of components under one specification, with their inputs | `part` names the component that moves |
| `Filter` | `Array.prototype.filter` as a recursive function, which a proof can speak of | |
| `MonitorProofs`, `BrowserProofs` | proofs about the modules they are named after | |
| `CommandProofs`, `ServiceProofs`, `ProbingProofs`, `PagingProofs`, `EngineProofs` | proofs about the components that `MCCommand`, `MCService`, `MCProbing`, `MCClients` and `MCEngine` put together | |
| `Induction` | what these proofs need about numbers, filters, ranks and averages | |

`Monitor` refines `Subscription` and `Pool` refines `ParallelMap`. `CronQueue` is the
scheduling side of the cron run whose races `Monitor` has, and `Fingerprint` the
comparison each of its scans ends in. `Paging`, `Pool`, `Attack` and `Verdict` are the
layers of one scan: a page is a slice of the plan, the pool runs its items, an item is
one attack, its answer gets one verdict. `Reports`, `VirtualPatch`, `Dashboard` and
`Cli` take the verdicts as they come; `Browser`, `Studio` and `Dialogs` are the clients.
Each takes what the layer below may return as free, so their results hold together.

The five modules `MCService` to `MCEngine` put components that a team would change
together under one specification: the variable `part`, chosen at the start, says which
of them moves, the others keep their initial values, and a property says of which part it
speaks. This is a sum of the components' state graphs, not a product: the
components share no state in the code that these models would have to interleave.

### Monitor

A handler is a sequence of actions. The program counter names the call about to be
made, so the guard of an action is the point the handler has reached and the
computation up to the next `await` belongs to the action. The locals that survive
an `await` (`who`, `vtok`, `mtok`, `found`, `base`; for the run `keys`, `due`,
`cur`) are variables, so a stale local is really stale. A KV call takes effect
atomically and is seen by every later call (Cloudflare KV is weaker; the code
relies on this much, and what goes wrong here goes wrong there too). One cron run
is in progress at a time. A key outlives every handler that is still working with
it: the TTLs are 24 h, invocations live for minutes. `issued`, `mailed`, `proved`,
`owner`, `known`, `cancelled` and `gone` record what the outside world knows; no
action reads them except to say which links and tokens a client can present.

Three specifications share these actions: `Spec` lets everything overlap and be
killed anywhere; `SerialSpec` runs one request or cron run at a time;
`SerialKillSpec` adds kills of a subscribe or a verify to that. The properties
that hold under each tell what the code's index keys protect against: crashes of
subscribe and verify, but not overlaps, and not an unsubscribe that is cut off.

### CronQueue

`queue` holds the active subscriptions by ascending `lastScannedAt`. A run takes
the due ones in that order, at most `Cap`, and starts on one only while its worst
case fits before the deadline. Time is counted in units of ten seconds within a
run and in days between runs. Subscriptions join and leave between runs only;
`Monitor` has the races. A candidate that is skipped, or whose scan throws, keeps
its place.

### Pool

What a lane does between two awaits is one action: storing an answer, lowering the
limit, and taking the next index or retiring. The result of item `i` is
represented by `i`. After a 429 a lane may or may not pause, which covers calls
with and without `backoffMs`. `limitedAt` is the only history variable: the value
of `nextIndex` when the limit was last lowered.

### Paging

An item is a payload, one of its variations and a method. `Payloads` gives the number
of variations under each combination of options and WAF type; the first variation is
the payload itself, so it is the same item under every plan. `Offsets` is the loop
over the payloads with its short cut: a ParamCheck payload that lies before the page
is skipped by its cached count. The cache belongs to the isolate; other scans fill
it (`OtherScan`), a new isolate empties it. Detection may find another type for each
page. When the browser sends no type and asks the server to detect, because its own
detection failed, the pages may belong to different plans; `OnePlanInOrder` says so
by excluding exactly this case, and `PagingEnds` (a part of `ClientsFinish`) includes it.

### Attack

The target is free to answer every hop with a redirect to any host or with a final
answer; what the code tells apart of an answer is one of four outcomes. `host` and
`hops` are functions on the requests in flight. The two probe lists share their
code in the model as they do in shape: one probe alone, then a pool. Which of the
two is running is `kind`.

### Verdict

A reply is a record of exactly what `evaluateWAFVerdict` reads of an answer. The
relation `Alike` stands for `areBodiesStructurallySimilar`, which is not transitive;
the proofs use only that it is reflexive. The browser and the API client send back
the baseline of the first page, while detection may run again, so baseline and
detection can come from different pages.

### RateLimit

The time of a request is taken before it reads KV, the count is read, the new value is
written in a call of its own, and either call may fail, which lets the request through.
The lifetime of the value in KV is part of the model, as is the plain counter left by an
older version. Requests that overlap read the same count, so more than `maxAttempts`
may pass (the code's comment says so); the property is about the other direction.

### Fingerprint

A target is the WAF in front of it, the items it lets through and whether it is up.
Detection may miss the WAF, which changes the plan the fifteen items are taken from.
`AlertHasACause` lists the causes there are. Two of them are not a worse target: the
detection came out otherwise, and the earlier scan found the target down, for its
fingerprint is zero blocked and zero bypassed. Equal counts also hide one bypass
replaced by another.

### WafDetection

An answer is the set of features signatures look for, with a status, a captcha and a
redirect. A probe follows up to three redirects, and `Follows` compares each with the hop
before it (`InScope`), as the code does. So `ChainedAnswersOnly` says no more than that
an answer is of a host to which a chain of at most `MaxRedirects` redirects, each in scope
of the one before, leads from the target; the mutant that drops the comparison breaks it.
That the host is the target, its parent or its child, as the comment of the code has it,
is not true: from one subdomain over the apex to another is a chain of two. It is the
drift `attack_scope` shows of attacks. Answers of the parallel probes come in any order;
the results are gathered in the order of the probes. Confidence is computed as the code does, with its caps. The
worker's runtime adds headers of its own to what it receives (`Injected`), which the
code has to discount; `WorkerSeesTarget` says that it does. `VerdictStands`
characterises which result wins: the loop is neither a maximum nor "captcha first", and
a result that is neither the most confident nor shows a captcha can win
(confidence 90, then 20 with a captcha, then 50).

### ReverseEngineering

Every answer is a block, a pass, a limit or none. The lanes over the rules share an
index; the body search keeps its bounds as the code does; the score analysis adds up
signals one at a time; the rate probe starts when everything else has ended. What is
asked is recorded with its answer (`asked`), and `AuditIsGrounded` compares the report
with it.

### Reports and Cli

A result is the fields the formats look at: status, blocked, verdict, note and whether
a probe got through. Each format is the counts it prints and the results it lists.
`Cli` runs each command through its steps in order, each of which may fail, and ends in
an exit code and in files. `--json` prints and returns before the gates and files;
`CliHolds` says when exactly the gates decide the exit code, and with `--json` it says
nothing of them: a pipeline that sets a gate and reads JSON is not protected. `Produced` is what the
engine can report: a body with a block page counts as blocked under any status, 5xx
included, a refused target is a status of its own with an error, and a custom block page may
come with 200 or 400. Other things a reader of
`Cli` sees there: a comparison file that is also the output file is compared after
it was overwritten; "Perfect Score" is printed when every request failed;
batch counts by status only and scores 0 where check scores 100 when nothing was tested;
a write error of the patch file ends the command before its gates.

### VirtualPatch

A rule is where it looks (path, query, body, headers), how (anywhere, at the end, below a
directory), the tokens it looks for, which case it folds and what it decodes first. A
payload is its form (a word, text with and without blanks, a file and so on), whether it has
capitals, and whether what was sent is what was recorded. `Holds` is the product that runs
the rule and is external; `Encoding` is what the request makes of the text, `Folds` how
the product compares case. `VerifiedIsLookedFor` says that some strict rule, taken by itself,
looks for a bypass in the part of the request and in the text that carried it, for each
product, wherever `ParameterCovered` or `FileCovered` holds. It is narrower than "ready to
deploy for all detected bypasses" (`index.ts:57-58`), and these two conditions are
the other half of the result. They leave out what the generated rules do not match, or for
which this has to be read out of a product's manual:

- most products cannot read a body or do not decode a parameter, so text that the URL
  encodes passes them;
- ModSecurity lowers what it reads but `@contains` keeps the capitals of its token
  (`modsecurity.ts:86-98`), so text with capitals, for instance `' OR 1=1--`, is not found;
- a scoped HAProxy rule puts names of ACLs where an anonymous ACL belongs
  (`haproxy.ts:102`) and has no condition that could hold;
- Caddy's matcher of the query has no wildcard inside a value: `*=*token*` (`caddy.ts:87`)
  asks for a parameter named `*`;
- Azure compares case with tokens that were lowered (`azure.ts:88-94`,
  `heuristics.ts:257-273`), so `.DS_Store` is not found; the patterns for `.git` of Azure,
  nginx, gcp and k8s have the same flaw;
- a group of bypasses that travelled in different places gets a rule for the place of one
  of them, and a rule scoped to the scanned path misses a file elsewhere; nginx rules that
  are scoped repeat a location, and parameters are then excluded too;
- a header payload is sent as "Name: value", which no header's value contains;
- variants for the WAF that was detected, templates and padding are sent altered, while the
  rule is made from the payload as it was recorded (`altered`);
- a blank payload makes a rule of nginx and ModSecurity that matches everything.

Left out are the limits of the products (the size of an Envoy program, the number of
subexpressions of Cloud Armor), and that ungrouped AWS rules repeat a name.

The generators run over the groups one after another with a
counter of ids or priorities each (`PatchesFor` is that fold): `IdsUnique` is about the
arithmetic of eleven such counters, which differ in their step and in what they count.

### Browser, Dashboard, Studio, Dialogs

`Browser` has the page's globals as one record, and the activities interleave at every
`await`. What it shows: any activity's `finally` clears the controller of the one that
is still running, whose next page then fails; Cancel does nothing during the detection that
precedes a scan; a later page that is refused publishes what there is without saying so.
A scan that knew a type when it began keeps it although the page has since
forgotten or changed it, and `TypeIsItsOwn` says nothing of such a scan. `SessionIsOneScan`,
`TypeIsItsOwn` and `CancelReachesARequest` state what holds
nevertheless.

`Dashboard` computes each view from the same results as the code does. `ViewsAgree` goes
one way: what has a button for a patch is red and highlighted, but a block page under 200
is red, highlighted and scored as a bypass and has no button. `Studio` has the
answers to patch requests out of order: `main.js` has no sequence number, so an older
answer may replace a newer report. `InOrderIsCurrent` exempts exactly this (`late`) and
holds when answers come in order; `TextIsOfTheTab` holds always. `Dialogs` has a batch loop that is stopped and a new one started
while the old one waits, and a form that is submitted, closed and opened again. A loop
writes to the job it finds in the global, so a batch may hold results of URLs of another;
`inherited` is the history variable that says from which loops these can come, and `Own`
counts, up to a place in the list, the results of the batch's own loop. That foreign
results enter a batch is what the code does, and the properties exempt it: they are about
the batch's own results, its figures and its end.

## 3. Runs

| Run | Question | Bounds, and why they are enough |
|---|---|---|
| `monitor_overlap` | Can any interleaving of two requests and a cron run, with kills, expiries and days, monitor something unauthorised, let a token or an authorisation cross identities, bring back a deleted record, scan without a stored proof, or scan a record while a result of the last 23 h is stored? | 2 identities (1 external), 2 links, 1 manage token, 2 requests: two visits of one link, a renewed link and a run that holds a copy all occur |
| `monitor_serial` | Without overlap and kills, does the service implement `Subscription`? | 2 identities, 3 links and tokens: subscribe, renew, replace, cancel and subscribe again |
| `monitor_serial_kill` | Does a subscribe or verify that is cut off leave one record at most and a link that works? | 1 identity, 3 links and tokens |
| `monitor_cancelled` (violated) | Is a cancellation final? | smallest instance |
| `monitor_double_click` (violated) | Is there one record per identity? | smallest instance |
| `pool` | Each item once, in its slot; the limit holds; the promise settles; `ParallelMap` is implemented. Do exit codes, files and the counts of all formats follow from the results? | 4 lanes, 6 items: the limit falls 4, 2, 1 and items are left at each level. Commands: scans of one and two results covering every kind of verdict, all gates, 2 paths (so output and comparison may coincide), 2 batch lanes |
| `cron_queue` | Deadline, order of leftovers, no starvation. Is a refusal of the rate limiter deserved, and has an alert a cause? | 5 subscriptions, 1 lost; cap 3; the deadline admits 2 worst cases, so the cap and the deadline each cut a run short. 3 overlapping calls, limit 2, window 2, clock to 4: windows start over and overlap. A target with one WAF, three items, two plans that differ in one item |
| `cron_queue_starved` (violated) | What if there are as many lost subscriptions as places? | 3 subscriptions, 2 lost, cap 2 |
| `paging` | Is each page a slice of one plan, does a client gather exactly the plan, and does following the pages end? Does a batch keep its URLs, do its figures add up, does it end, and does a form send once? | 4 payloads of all three kinds, first and last with variations that depend on options and WAF; the budget is below the requested page size; pages end inside a payload, at its border and beyond the plan; a cache of 2 entries overflows. 2 batches of up to 2 URLs (and one that is refused for 3), 3 sends |
| `attack` | Subrequest budget, open requests, stop at the first hit, every identity tried, end of an attack. Does detection return the right result, of hosts to which its redirects lead? Is a finding of an audit measured? | 4 User-Agents on 2 lanes, 3 headers: a lane is refilled, the last one runs dry; 2 redirects, so the limit is met and a loop is cut. 2 signatures (one found by its edge and by its answers, one definitive), 9 answers, 2 payloads; hosts `www.`, the apex, a sibling, a foreign one and one that is not allowed; up to 3 redirects, so a probe comes over the apex to the sibling and never to the foreign host. 3 rules, 2 steps of the coarse search and all its refinement, 2 rate stages |
| `attack_scope` (violated) | Does an answer come from within the scope of the target? | target `www.`, its apex, and a sibling `shop.` |
| `verdict` | Do the baseline and the verdict agree, and when may a baseline change a verdict? Do patches look for the bypasses they cover, with unique ids, and is nothing empty or left out? Does the page keep scans apart, and is what it offers for patching what it shows? | one status of each class (200, 403, 429, no answer, refused), all headers and markers, each body trait where the code reads it, over 2 forms of body that are not alike. Patches: each and every pair of 31 results under 18 choices, so that two groups, two results of one group, and an item the rule of its group cannot see all occur. 2 scans, 1 other activity, 2 targets. Sessions of 1 to 4 results in up to 4 categories. 3 scans, 2 vendors, 2 formats, 2 requests in flight |

`CHECK_DEADLOCK FALSE` is set where the system stops: the tokens of a `Monitor`
run are used up, a pool call returns, an attack, a detection, an audit or a command is
done, a clock or the clicks of a page reach their bound.

### Fairness

- `Pool!FairSpec`: a worker call settles (every request carries a 10 s abort
  timer), timers fire, and the event loop runs what is ready: weak fairness of
  each lane's step, of the start and of the resolution.
- `CronQueue!FairSpec`: the platform fires the trigger every day and a run goes on
  to its end; nothing is assumed of clients. `NoStarvation` assumes that from some
  time on scans and KV writes do not fail.
- `Paging!FairSpec`: a request for a page is answered or fails in the end. Nothing forces a client to begin, and a
  new isolate may come up between any two pages.
- `Attack!FairSpec`: one abort timer of 10 s covers all hops of a request and its
  body, so every request in flight ends; with at most `MaxRedirects` hops each, weak
  fairness of the next step is what that amounts to.
- `ClientsSpec` (`ClientsFinish`, which is `PagingEnds` and `BatchEnds`): a timer of the page
  fires and a request is answered or fails; nobody needs to press Stop.

The specifications of `MCCommand`, `MCService`, `MCProbing` and `MCClients` repeat the
fairness of the component they extend, restricted to its part. The other components
have safety properties only.

### What the violated runs show

- `monitor_cancelled`: the cron run writes `active:<token>` back from a copy it
  read before a scan of up to minutes; an unsubscribe answered meanwhile is undone.
- `monitor_double_click`: two verifies of one link both read `blind:<i>` before
  either writes it, and leave two active records of which the index finds one.
- `cron_queue_starved`: skipped candidates keep their place at the head of the
  order, so as many lost subscriptions as places in a run fill every run.
- `attack_scope`: `isInScopeRedirect` compares a hop with the one before it, not with
  the scanned target, so `www.` to the apex to a sibling subdomain is two hops in
  scope that together leave it. `WAFDetector` compares hops in the same way
  (`waf-detection.ts:249`), against its own comment (239-244).

Two more of the same kind are not runs of their own: two overlapping subscribes
leave two working links (`OneLivePending` fails under `Spec`), and an unsubscribe
cut off after its first delete leaves a record no index finds (`ActiveIsIndexed`
fails when unsubscribes may be killed).

## 4. Proofs

TLAPS checks the following for every value of the constants that satisfies the named
assumptions; each assumption is evaluated by TLC on a run. Every invariant, action property
and refinement that the passing runs check is a theorem; what stays with TLC is liveness,
listed at the end.

`Induction` holds the lemmas the others cite. The provers cannot use a theorem with an
operator as parameter, so induction is stated about a set (`Induction`: a set that holds 0,
and `k + 1` with `k`, holds all numbers up to `n`; from `Smallest`, which is `WFMin` for the
natural numbers), and each use names the set of steps for which its claim is true.
From it follow what a filter keeps (`KeepIs`: the members of both, in order, and all of
those), what counting the members before one says of a strict order (`Ranking`: ranks
are the numbers from 1 on, each of one member) and that a share that holds in each class
holds in the whole (`Averages`).

`MonitorProofs` (assumption: `ConstantsAssumption`, external identities are
identities and `None` is none of the values):

- `TypeCorrect`, `TokenOwnership`, `Authorisation`, `DeletionIsFinal`: invariants
  of `Spec`, under every overlap and kill. None is inductive by itself, because what
  a handler will write is in its locals. `TypeInv` adds `LocalsOK`: which locals are
  set at each program counter. `OwnerInv` says of the tokens in the hands of
  handlers and of the run what `TokensKeepTheirOwner` says of KV. `AuthInv` carries
  the authorisation from the mailed link over the locals of verify to the record.
  `GoneInv` adds that only the verify that generated a manage token is about to
  write its record, and that an idle run holds no copy.
- `ProofStoredFirst`, `NoSecondScan`: about the copy a cron run works on. `CopyInv`: a
  copy in the due list was not scanned recently, nor was the record in KV, and the two
  agree on the proof but for the one being renewed; from the scan to the last write the
  proof of the copy is valid.
- `OneSubscription`, `Indexed`, `LinkKept`, `CancelIsFinal`: invariants of
  `SerialKillSpec`, where a subscribe or a verify may be cut off anywhere. `Alone`
  says that one handler or the run is away from idle, `IndexInv` that the blind
  index finds every record but for what the handler at work has changed so far,
  `LinkInv` that a link is in KV while its verify has not stored a record, and
  `CancelInv` that nobody who could write it again knows a cancelled subscription. The
  last is what fails as soon as a run may overlap an unsubscribe (`monitor_cancelled`).
- `OneLink`: `OneLivePending` under `SerialSpec`. `PendingInv` relates the pending index to
  the links that work, but for the link in the hands of the handler at work.
- `Implements`: `SerialSpec` implements `Subscription!Spec` under the mapping the run
  checks. Each action of `Monitor` is mapped to a step of `Subscription` or a stutter,
  under the conjunction of the invariants above: most actions change no key that the
  mapping reads, and a handler's effect happens at the one call its step is named for.

`CommandProofs` (assumptions: `PoolAssumption`, `N` and `Concurrency` are natural numbers;
`CommandAssumption`, scans are sequences of results the engine can produce, options are
options and `None` is none of the values):

- `PoolTypeCorrect`, `NoItemTwice`, `Complete`, `Throttled` and `Refinement`
  (`Spec` implements `ParallelMap!Spec`). The inductive invariant `Inv` is the type
  invariant with `ItemInv` (an index below `nextIndex` is answered or held by
  exactly one lane), `LaneInv` (which lanes may be done in each state of the promise;
  lane 0 is done only when no item is left) and `LimitInv` (lanes with items taken
  since the limit fell have numbers below it, which is why counting them suffices).
- `PipelineHolds`: `CliHolds` for scans of any length, any files and any number of lanes of
  a batch. The counts of the six formats agree because each is the cardinality of a
  set of results that is the same set; `FileInv` says that `check` has written to no file
  but its output when it reads the one to compare with, `CompareInv` that a gate looks at a
  comparison only with a report that could be read, `QueueInv` that every URL of a batch is
  on the list, in the hands of a lane or reported, and `EndInv` is what the exit code
  promises, kept by every step after the one that sets it.

`ProbingProofs`:

- `TypeCorrect`, `LanesRespected`, `IdentitiesTried`, `StopsAtHit` (an action
  property), `BudgetKept` (assumption: `AttackAssumption`, lengths are numbers, there is a
  lane, the target is a host). The inductive invariant `Inv` adds to the type invariant
  `Probing` (the identities of the current kind before `next` are exactly those that were
  tried, only they can be in flight, and the pool is empty only when its kind is covered)
  and `Order` (header probes come after the User-Agents are covered, so no header
  hit can stop a User-Agent and the other way round). `PoolStarts` counts what the
  pool takes at once. For the budget, `Tried` says that no identity is sent twice and
  `Budget` bounds the requests made by those the identities tried may have cost, less what
  those in flight have left of their redirects.
- `Grounded` (assumption: `AuditAssumption`, the list of paddings is not empty and grows):
  every finding of an audit was measured. `RulesInv` has every rule claimed with its status
  or in the hands of a lane, `PhaseInv` the ramp-up after all else, `BodyInv` the bounds of
  the search as sizes that were asked for and answered, `ScoreInv` which signals passed
  before the one that was blocked.
- `Detected` (assumptions: `DetectionAssumption`, answers are answers, a signature is finite
  and looks for no cookie or body that the Workers runtime adds; and `AttackAssumption`, by
  which the target is a host). `DetInv` holds the evidence behind every result, with the
  host that gave it and, for each probe in flight, the chain of hosts it has followed so
  far; that the reduction over the probes returns the result that stands is by induction
  over the probes.

`ServiceProofs` (assumptions: `CronAssumption`; `ServiceAssumption`, the limit and the window
are positive, the requests finitely many, a plan is a finite sequence of items):

- `WithinDeadline`: `NeverCutOff` for any number of subscriptions and any cap, deadline and
  scan time. `CronInv` bounds the time a run has used by the deadline; `TakeFits`
  keeps it, because the clock is read before a scan and asks for a whole worst case.
- `LeftoversFirstServed`: the action property `LeftoversLead`. `OrderInv` says that in the
  staleness order what a run left behind stands before all that was scanned since; it
  survives the removal and the appending of a record, a skipped candidate keeping its
  place, and a new subscription, which comes last. The due list is the first `Cap` of the
  filtered order, so by `KeepIs` it takes the fresh only when nothing was left.
- `RefusalsAndAlerts`: `ServiceHolds`. `CountInv` says of the count in the hands of a
  request what the property says of the stored one: it is no larger than the number of
  requests written in that window; a window only ever gains requests (`SinceGrows`), and a
  write gains one (`SinceGains`). `DailyInv` says that the stored baseline is the
  fingerprint of the target as it was scanned, and that a comparison is of the fingerprints
  of two scans; `Compared` turns a larger number of passing items into an item that passes
  and did not.

`PagingProofs` (assumptions: `PagingAssumption`, there is a method, a page size, a budget and
a place in the cache; a payload has at least one variation; `DialogAssumption`, a batch is a
sequence of lines and the bounds are numbers):

- `Slices`, `InOrder`, `AuditCovers`: for any list of payloads, page size, budget, cache and
  options, whatever the cache has kept, lost or was filled with by other scans. The offsets
  computed with the short cut are those of the flat plan, by induction over the payloads;
  `CacheInv` says that an entry holds what would be counted now for its key, which is what
  makes the short cut right; `AnswerInv` and `GatherInv` say that a client holds the first
  pages of one plan, and the whole plan when it stops. `ClientsFollow` and
  `FollowersAreSound` carry them to the specification of the run.
- `DialogsAreSound`: `DialogsHold`, four invariants and an action property, for any number of
  batches, any lines and any number of loops alive at once. What the dialog promises of
  the job is not inductive, because the loops know nothing of it; `BatchInv` relates them.
  `JobOK` says that a loop alive is the job's own or one it inherited, and `InStep` that,
  while the job runs, its own loop has the job's URLs and is at the one after those with a
  result, which is what makes the next result the right one, whatever the other
  loops have added in between. `Holds` is then kept by one more result (`HoldsLonger`, from
  `OwnLonger`: appending moves `Own` by one or not at all). `ShownOK` keeps the figures
  with the batch they were computed from, also when a new one begins: its number is that of
  a loop that has not run yet. `LoopOK` has the detection asked for at most once, because a
  later page asks only if the type is known; `FormOK` counts an enabled button as one more
  request that may go out. `UrlIsDone` is the step after an answer, with its three
  outcomes (pause, the end that completes the batch, the end of a loop whose batch is over).

`EngineProofs`:

- `BaselineAgrees`, `ClearedCorrectly`, `AddedCorrectly`, `FileBlocksKept` (assumption:
  `VerdictAssumption`, `Alike` is reflexive, the replies are replies, `None` is neither an
  answer nor a profile), for every relation `Alike` and every set of replies. The
  invariant is `TypeOK` with `Provenance`: the profile is what `Capture` makes of the
  benign answer under what was detected then, and a verdict what `Evaluate` makes of its
  answer under what is detected now. The rest is about the two operators: `SelfAgreement`
  (an answer compared with a profile of itself is cleared exactly if it carries no
  signal), `Cleared` and `Added` (the only branches that depart from the verdict without
  a baseline), `OriginBlockedIsClean`.
- `ScansApart` (assumption: `EngineAssumption`, the settings are switches, the URL in the
  input is a target, the bounds are numbers): `BrowserProofs` in the engine's model.
- `PageAgrees` (assumption: `ViewsAssumption`, a session is a non-empty sequence of results
  and the values that stand for nothing are none of them): `PageIsConsistent` for sessions
  of any length over any categories and any number of patch requests in flight. `TableInv`
  says that the box over all statuses is checked only when each is. That the risk is not
  worse than the worst category is `Averages`, once per threshold; that the table
  ranks each category once is `Ranking`; the first two of the table come within the five
  recommendations because at most three come before them. `DialogInv` numbers the
  requests: while no answer was late, those since the report that is kept are under way,
  so when none is the report is the answer to the last.

- `PatchesAreSound` (assumption: `PatchAssumption`, a scan is a sequence of results, options
  are options, and a payload of category Sensitive Files names a file): `PatchesHold` for
  scans of any length, over any categories, and every choice of options. A report is
  computed in one step, so its invariant, `ReportIsOfScan`, only says that the report is
  `Report(scan, options)`, and the work is about that operator (`ReportsHold`). Each of the
  eleven generators has a lemma that its strict rule for a group looks for what is covered of
  the group (`CloudflareAnswers` to `K8sAnswers`, by `InHolds` for a list of tokens, by
  `PathMatches` and `FileFolds` for the kinds of a path and their case), and the four that number their rules one
  about the numbers they take (`AwsIs`, `ModSecurityIs`, `GcpIs`, `AzureIs`, joined in
  `GenerateIs`). `Written` is the claim about the patches of the first `k` groups: their ids
  are apart and below where the counter stands, none is empty where that is refused, and each
  bypass of these groups that is covered (`IsReached`) is looked for. `OneMoreWritten` and `AllWritten`
  prove it by induction over the groups. `GroupsAre` says, by `KeepIs`, that every bypass is
  in a group and each group is headed by the first of its category. `ParameterIsReached` and
  `FileIsReached` then follow a bypass from the request that carried it to the condition of
  the rule that matches it. Nothing is proved of bypasses that are not covered.

`BrowserProofs` (hypothesis: `Inputs`, which `EngineAssumption` states of the engine's
constants):

- `OneScanPerSession`, `TypesStayApart`, `CancelActs`: the three parts of `ScansAreApart`,
  for any number of scans, targets and pages. `Own` is what each call of `fetchResults`
  keeps to itself (its type, its detection, what it asks the server to detect),
  `SessionInv` says that the session is that of a scan which is over, so nothing changes
  it under the exports' hands, and `CancelReachesARequest` is inductive with them: each
  step that puts a controller in place binds a request to it, and the end of any activity
  takes the controller away, whosever it is. `RequestInv`, `OverInv` and `AsideInv`
  are the three kinds of step.

Attempts that failed have corrected the model. Two `CASE` expressions had
guards that overlap (the JUnit verdicts of `Reports`, the place of a rule in
`VirtualPatch`), where TLA+ leaves the choice open and the code takes the first; they are
`IF` chains now. `WorstIsNamed` spoke of a category with the highest score, but rounded
scores of different severity may be equal (a Medium at 60 of 121 and a High both
score 70); the property is now about the order of the table, as the sort is stable.
`ParameterCovered` had left out that a `../` payload in a parameter is encoded, and so
promised a rule for it that most products do not have; `Emit` left out an empty strict rule
for gcp, haproxy and caddy too, where the code writes it; a category is a header's if its
name contains "Header", which is true of two. None of these showed on the results the
run was given.

Only model-checked: liveness (`PoolSettles`, `AttackSettles`, `NoStarvation`, and
`ClientsFinish`, that is `PagingEnds` and `BatchEnds`), as liveness under fairness and
`ENABLED` are beyond the provers at hand.

## 5. Not modelled, and why

- **Payloads, encodings, HTTP manipulation** (`payloads-data`, `encoding.ts`,
  `http-manipulation.ts`, `advanced-payloads.ts`): tables and pure text. What the rest of
  the system tells apart of them, the number of variations and the kind of a payload, is a
  parameter of `Paging`.
- **Record encryption**: a record is opaque to everybody but the worker; modelled as a
  value.
- **Eventual consistency of KV** across locations: the models give KV more than it
  promises. What goes wrong with an atomic store goes wrong with a weaker one.
- **Routing and validation of requests** (`api.ts`): one check per request without
  state. Target validation appears as the constant `Allowed` of `Attack`; parsing of
  addresses is text.
- **Signature patterns** of `waf-signatures.ts`: which regular expression matches which
  header is data; a signature is the features it looks for.
- **Texts**: mails, pages, report layouts, the wording of rules, help and completion of
  the command line.
- **Of the page**: theme, sorting of columns, stored settings, charts, file exports.

## 6. Plan

What would add most next:

1. The page of a scan as one composition: `Paging`, `Pool` and `Attack` with the
   subrequest budget of a whole page.
2. Patches over time: a report of an older scan applied to a product that already holds the
   rules of another, whose ids may then meet.
3. The fetch of the challenge file in `ownership.ts` with its redirects and its cap.
4. An abstract specification of a cancellable activity of the page, which `Browser` would
   implement for one activity and visibly not for two.
