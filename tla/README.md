# Verification of opencode-model-eval

TLA+ models of the evaluation harness, checked with TLC, and proofs about them,
checked with TLAPS. Paths are relative to `src/`; `PROJECT.json` maps each
definition to the lines it models.

The harness drives a running `opencode serve` through its HTTP interface: it
creates sessions, posts messages, watches status and log, aborts, scores what
came back and writes a report. Nearly everything that can go wrong lies between
a client thread that has decided something and a server that does not know it
yet. That is what the modules are about.

## 1. The system

| Part | State it keeps | Operations | Hard part |
|---|---|---|---|
| **Send of one message**, `quota_aware_send_message` (`scripts/run_eval_client.py` 556-789) | a result and an exception holder, an event, snapshots of status and progress | worker: POST; main thread: poll status, log, messages; abort; give up; re-raise | two threads and a server that retries without end; stale snapshots; an abort that overtakes the POST |
| **Category run**, `run_category` (1406-1661) | the tier's session, retries left, records, dots, ceiling, the published session id | create, publish, two sends, close, retry, give up, score | failure of any step; a signal between any two; a session nobody closes |
| **Interrupt handler**, `_handle_interrupt` (1923-1989) | re-entrancy flag | abort session, unload model, copy log, exit | runs inside whatever was interrupted |
| **Whole run**, `main` (2170-2361) | the model's results directory, report, log identifiers | select, rotate, warm up, run categories, write report, filter log, unload | a run that ends half-way, an exception that loses the report, rotation under another run |
| **Residency**, `warm_up_local_model`, `unload_local_model`, `OllamaModel` of `scripts/harness_notebook.py`, `scripts/ollama-model-switch.sh` | models loaded in Ollama; the warm-up's worker and poller threads | load, unload, poll `/api/ps` | a failed poll reads as "unloaded"; a POST that comes after the abort; the order in which a poller thread is told and joined; a script whose requests have no time limit |
| **Evidence**, `session_messages`, `session_tool_calls`, `chain_to_transcript` | none | read a session and its subagents', render it | any of the requests fails, or answers with something that is no list |
| **Verdict**, `scan_transcript`, `check_pass`, `scripts/tools/cvv_scan.py` | none | scan, judge | a scan that did not run must not pass; what the transcript lost |
| **Second judge**, `scripts/tools/axiom_cvv_verify.py` | none | grade | other turns and another vocabulary than the scanner's |
| **Selection**, `select_categories`, `select_tiers` | none | narrow the ladder | order, ranges, empty results |
| **Session reaper**, `scripts/session_reaper.py` | none between passes | list, compare idle time with a TTL, delete | a list that is stale by the time of the delete; failures that end the daemon |
| **Session probe**, `scripts/e2e_session_probe.py`, and **notebook sessions**, `OpencodeSession` | one session | wait for the server, one session, clean up | a server that binds late or answers slowly; a signal in the clean-up |
| **Entrypoint**, `entrypoint.sh` | processes | discover, start reaper, warm catalogue, serve; or wait and run the client | start-up order |
| **Deployment**, `harness-control.sh`, `scripts/lib/server-lifecycle.sh`, `scripts/select-and-run-eval.sh` | which backend holds the port | deploy, reuse, redeploy, remove | two backends, partial failure |
| **Pipeline**, `tools/pipeline.sh` | whether this run started the stack | stages | stopping what was started, and only that |
| **Capture proxy, discovery, pickers, tracing, mocks, build** | little or none | I/O and formatting | - |

**Interaction.** `main` warms the model up, then calls `run_category` for each
category; `run_category` and the warm-up call `quota_aware_send_message`; every
one of them calls `abort_session`, whose failure each caller ignores. The
handler reads the session id that `run_category` publishes in
`_CURRENT_RUN_STATE`, and the results directory that `main` does. One run hands the
results directory to the next, whatever state it left it in. The reaper shares nothing with the clients but the server.
The server has its own retry loop, without bound, and goes on working when a
client goes away: this is why a missed abort matters. Ollama, behind it, is
shared by every run, every notebook, the switch script and whoever else is on the
machine; nobody locks anything, each looks at `/api/ps` and acts on what it saw.
The pipeline's container stage starts a server unless it finds one, runs the
probe against it as a child process, and, if it found none, takes the stack down. The probe and
the notebook import `run_eval_client`, and its signal handler with it. A tier's
transcript has two readers, the scanner and the second judge, which know nothing
of each other.

**What makes each part correct.** A send returns one verdict, in bounded time,
gives up only for a reason it can show, and leaves no turn running that an abort
could have stopped. A category reports what happened, in the ladder's order, and
closes every session it opened. An interrupt stops the work in progress. A run
loses nothing an earlier one has written, and mixes nothing of it with its own. The
reaper deletes sessions that are abandoned, all of them in the end, and none
that is in use. A model whose unload is confirmed has left the memory to whatever
comes next, a handler is brief, and a turn that an abort of the run could have
stopped does not outlive it. A stage's success means an answer and nothing left up; a
stack that was up before it should be left alone, and is not always (run
`stack_left_alone`). A transcript is whole or says that it is not, a pass is earned by
what was written, and the two judges do not contradict each other.

## 2. Modules

| Module | Models | |
|---|---|---|
| `SendContract` | what a send promises its caller | abstract |
| `SendMessage` | the send's two threads and the server | implements `SendContract` |
| `EscalationRule` | the ladder's rule: a tier is tried after the one before it has passed | abstract |
| `RunCategory` | a category's run, the server's sessions, the signal handler | implements `EscalationRule` |
| `SendMessageProofs` | theorems about `SendMessage` | proofs |
| `RunCategoryProofs` | theorems about `RunCategory` | proofs |
| `SessionReaper` | the daemon, its clients and the server | |
| `SessionReaperProofs` | theorems about `SessionReaper` | proofs |
| `EvalRun` | the runs of one model and its results directory, the handler's log copy | |
| `EvalRunProofs` | theorems about `EvalRun` | proofs |
| `OllamaServer` | Ollama: which models it has, and for whom | external |
| `Residency` | warm-up, poller, work, unload and signals of a run or of a notebook | uses `OllamaServer` |
| `ModelSwitch` | `ollama-model-switch.sh` | uses `OllamaServer` |
| `LocalModels` | the two against one Ollama | composes them |
| `LocalModelsProofs` | theorems about `LocalModels` | proofs |
| `ServerWait` | `wait_for_server` | |
| `Stack` | container stage, probe and notebook session on a server that must be found | extends `ServerWait` |
| `StackProofs` | theorems about `Stack` | proofs |
| `CvvScan` | the scanner's six rules | operators |
| `CvvVerify` | the second judge's grade | operators |
| `Lists` | the loops that build one list from another | operators |
| `ListsProofs` | what such loops give, by induction | proofs |
| `Evidence` | reading a session, and the transcript made of it | operators |
| `Selection` | `--categories` and `--tiers` | operators |
| `Scoring` | from the selection to each tier's verdict | composes the judges, `Evidence` and `Selection` |
| `ScoringProofs` | theorems about `Scoring` | proofs |
| `MC*` | the instances TLC checks | |

### SendMessage

The main thread is a program counter with one step for each thing the code
does between two blocking operations: `wait` (`done_event.wait`), `status`,
`log`, `loopcheck`, `heartbeat`, `quota`, then `abort` and `unwind` for a
give-up, or `abortRaise` and `raise` for an exception of the worker. The status
read at the top of a poll is kept in `status` and judged in `CheckQuota`, after
the reads between, as in the code. The worker fills `holder` and sets `done` in
two steps. `GET /session/status` may fail, which skips the rest of the poll; the
log may be unreadable; `session_progress` may return `{}`.

The server is external. Its turn is `idle`, `busy` or `retry`; it announces
retries (`next`), writes ERROR lines of the two classes `_classify_log_error`
tells apart, begins and ends messages, answers, fails, and never owes anything.
A POST in flight may arrive after everybody has given up on it.

Time is counted in polls. Each blocking step has a deadline `due`, and `Tick`
cannot pass a deadline: that is what a socket timeout means, and it is the only
thing assumed of the network.

The status a give-up for quota rests on is up to three requests old.
`QuotaNeverStale` compares it with the server: while the client aborts for quota, the
server is still in the retry that was seen, and still far from its next attempt. It
is said of that give-up only. An ERROR line ends the wait whatever retry is under
way, also one that the setup turn has left in the log (1266-1270).

Abstracted: the counters of `session_progress` to three (messages, unknown
finishes, and one for text, reasoning and tools together), the log to the
classes of its ERROR lines, events and printing left out.

### RunCategory

One action for each step of `run_category`, with the two sends by their
contract: a reply from a session left alone, or an exception after an abort was
attempted, the give-ups already turned into `_QuotaExhausted` and
`_ServerLogError`. `extract_reply` may refuse a reply. `abort_session` succeeds
or fails (`TryAbort`), and an abort that comes before its message does not stop
it (`unstopped`). A `create_session` whose answer is lost leaves a session
behind (`leaked`). `Signal` may come at any point; while the handler runs,
`run_category` does not, and it never resumes. A second signal exits at once.

`tried` and `unstopped` are history: the sessions an abort was attempted for,
and those where it failed or came too early. The files written for each tier
and the reads that fill them are left out: they change nothing the run depends
on. The verdict of the scan is arbitrary.

The ladder is any sequence of tiers, in the order a selection has given it. The
ceiling is the last tier passed and not the highest: with `--tiers 2,1` and both
passed the report says 1, where `INSTALL.md:333` speaks of the highest tier. `ReportConsistent`
states what the code does.

### SessionReaper

A pass lists at most `ListLimit` sessions, the last updated first, keeps their
ages as they were (`listed`), and goes through them in that order while clients
and clock move on. Ages and countdowns are relative, so the state space is finite without a
bound on time. A read that outlasts its timeout (`ReadTimesOut`) ends the
daemon, because neither `except` clause names `TimeoutError`.

`DefaultTtl` is the constant `TTL_S`. In this commit nothing assigns it:
`DefaultTtl = Unbound`, the value of the run `reaper_start`, is the code as it
stands. The run `reaper` gives it a number, as the comment above the missing
line and `docker-compose.yml` do, to check the rest of the daemon.

### EvalRun

One action for each step of `main` that touches the file system, in the order of
the code: `Start` (a selection that is not refused), `CheckPrevious`
(`results_dir.exists() and any(results_dir.iterdir())`, and the time stamp),
`Rotate` (`shutil.move`), `MakeDir`, `OpenLog`, then for each category
`BeginCategory` (its `mkdir`), `ScoreTier` any number of times and `EndCategory`;
`WriteReport`, `CaptureLog`, `Finish`. `Signal` may come at any of them;
`HandlerCopies` writes `server.log.interrupted`, which makes the directory again
when it is gone. `Die` is a kill or an exception that nothing catches. A step that finds its
directory gone ends the run as `lost`, a rotation whose destination is taken as
`full`.

A run is a process: `pc` and `local` are what it has in memory, `dirs` and
`files` the tree, which all the runs of a model share. A file is a record of its place, its name and
the run that wrote it, so that `write_text` (replace) and `open("a")` (append)
can be told apart. `Current` is the model's results directory, `Rotated(t)` the
one a rotation at second `t` makes. `shutil.move` onto a directory that exists
moves into it, so a second rotation in the same second ends in `Nested(t)`, and
a third in that second fails.

`wrote` and `overlapped` are history: what each run has written, and the runs
that were alive while another was. The properties promise something to a run that had
the model to itself: two at once do take each other's directory
away, nothing in the code prevents it, and no document promises otherwise.

Abstracted: the transcript, the raw evidence and the record of a scored tier are
one file, named for the category; what a tier does with the server is
`RunCategory`'s; the warm-up and the unload are `Residency`'s; what the log filter
keeps of `server.log` is left out.

### Residency, ModelSwitch, LocalModels

`OllamaServer` has of each model one of `out`, `loading`, `in`, `stopping`. A
request that waits for a model has it loaded; idle models expire; an unload
(`keep_alive: 0`) lets an idle model go at once, and a busy one when it is idle.
`Listed` is what `/api/ps` says, which still lists a model that is `stopping`: the
poller's own output shows that the code knows this. Others take models into use at
any time (`demand`).

`Residency` has the main thread as one program counter: `create`, `publish`,
`dispatch`, `sending` (the `try` clause of the warm-up), `settle`, `join`, `reset`,
`close` (its `finally`), the tiers, then `unload`, `polling`, `listed`, `napping`.
The poller thread has steps of its own (`PollerWakes`, `PollerPrints`, which reads
`dispatched_at` after the listing). `Interrupt` keeps in `resume` what the handler
interrupted, because it runs on the same thread and exits through the `finally`
clauses above it (`Unwound`); `Raise` is a further signal, or the first in a
notebook, whose handler knows of no run.

The warm-up's POST is a `message`, `coming` from `Dispatch` on. It arrives at any
step (`PostArrives`), or is lost; nobody waits for it. The send may give up, the finally
clause close, the handler unload the model and the run go on to its tiers while it is
under way. An abort stops a message that is running and does nothing about one that
is coming. `late` is history: the message arrived when no abort of it was still to
come (`AbortAhead`).

`ollama_ps` returns `[]` for a failure. What it returned is kept in `listing` (`Poll`)
and looked at in a step of its own (`Judge`), with Ollama at work in between.

`ModelSwitch` lists once, orders each unload and the load in the background and
polls until the order shows. A background request may arrive at any later time,
or never (`Arrives`, `Lost`). Its listings are made with `curl -sS`: one that is answered
by an HTTP error gives an empty list and no failure, and since there is no
`--max-time`, one may be kept for ever (`Stall`, `Resume`).

`LocalModels` puts one of the programs beside an Ollama that others use: two
of these programs at once are, for each, one program and others in `demand`.
`misled`, `reloaded`, `pollFailed` and `used` are history: what a listing that failed
has passed off as unloaded, what was loaded again since the script's listing, whether
the last poll of the run failed, and whether the model has been in use, or loading,
since its unload was asked for. `ConfirmedIsFree` says of the log line "unload confirmed" that the
model is then out of memory: the listing may be old when it is looked at, the
model may be on its way out and still listed, and a turn that outlived its abort may use it.

### ServerWait, Stack

A server is `none` (nothing listens, a probe is refused at once), `starting`
(not bound yet, refused too), `slow` (it accepts and does not answer) or `up`.
`SweepProbe` and `LongProbe` are the two modes of `wait_for_server`: one short probe
for each address in turn, and, once one is slow, probes as long as the time that is
left. Time is what the waiting itself takes (`elapsed`), so it needs no bound.

`Stack` is three programs that share what they do with a server once found:
`stage` looks (`BeginCheck`, `EndCheck`), may build and start (`Build`, `Up`), runs
the probe and stops what it started (`Down`, `LeaveUp`); `hand` is the probe alone;
`notebook` is a `with` clause. `Raised` is where an exception leads in each. A session
is `lost` when its `create` answered nothing: the server may have made it, and nobody
knows its id. `Interrupt` is the handler of `run_eval_client`: it raises `SystemExit`,
which `except Exception` does not see and `finally` does.

`mistaken` is history: why the stage found no server answering (nothing listened, a
server was `slow`, or a signal cut its look). `failed` records which
of the clean-up requests failed or were cut.

### Scoring

A transcript is a sequence of *marks*: what the patterns of the two judges look
for, each on a line of its own, in the order of the text. Headings and tool calls are
marks too. `CvvScan` states each of the six rules as the set of positions it
reports, `CvvVerify` the grade with its ratios in hundredths, as `round(x, 2)` gives
them. The language model of the second judge is a boolean: there, or not.

`Evidence` has a session as messages of parts, with its subagents' sessions, and what a
client gets of it when any request is answered, fails, or gets an answer that is
no list (`odd`). `ChainToTranscript` and `EventsToTranscript` are the two ways to a
transcript, the second used when the chain is empty. Tool output is cut to `Cap` marks, and
what is cut is said to be (`cut`). A tool's input is rendered with `json.dumps`, in which
every line is indented or quoted: it holds no heading (`SessionsAssumption`), while what a tool
or the model says may hold one.

`Scoring` runs the selection and then, for each tier, `Replied` or `NoReply`,
`ReadCalls`, `Capture`, `ScanTranscript` (the scanner is a process and may not run),
`Judge`, `Verify`, `Advance`. `Honours` states without recursion what `Selection`
computes with it. `Written` and `Whole` are the reference transcripts the properties
compare with: a message alone without any cut, a session without any gap.

What modelling showed of it, and no property contradicts: a transcript made of a
chain never holds the mark `_Thinking:_`, so that `POSSIBLE_HEDGE_DROP` is never reported
of one unless the model writes that line itself; each assistant message is a turn
of its own to the scanner, so that an intent in one and its call in the next is
reported.

## 3. Runs

| Run | Shows |
|---|---|
| `send` | the type invariant; no turn left behind (`NoOrphanedTurn`); a give-up for quota meets the very retry it was decided on (`QuotaNeverStale`); a time bound (`BoundedReturn`); the contract (`ImplementsContract`); the call returns (`SendReturns`) |
| `category` | report, sessions, budget, interrupt (`ReportConsistent`, `NoRunawaySession`, `SessionBudget`, `InterruptStopsWork`), `NeverReposts`, `FollowsEscalationRule`, `CategoryEnds` |
| `reaper` | `ReapsOnlyAbandoned`, and `OrphansStop` while the daemon is up |
| `eval_run` | nothing a run wrote is lost (`NothingOverwritten`), no report lies beside another run's files (`OneRunPerReport`), no run loses its directory (`NeverLost`), each unless runs overlapped |
| `local_models` | no turn of a run outlives it (`NoTurnOutlivesRun`), a confirmed unload has freed the memory (`ConfirmedIsFree`), the handler is brief (`HandlerIsBrief`), the poller does not deny a message under way (`NeverDeniesTheMessage`), the switch clears what it found (`SwitchClears`), programs end, unless a listing of the script is kept (`ProgramsEnd`) |
| `stack` | a wait keeps to its time (`WaitKeepsItsWord`), the stage exits with 0 only for an answer and with nothing left up (`StageTellsTheTruth`), sessions are closed (`SessionClosed`), a PASS is a reply or a signal (`PassMeansReply`), programs end (`ProgramEnds`) |
| `scoring` | a gap is stated (`GapStated`), a pass is earned (`PassIsEarned`), the judges agree about overrides (`JudgesAgree`), a selection is honoured (`SelectionHonoured`) |
| `send_short_retry` | **violation**: a retry far under the quota threshold is aborted by the POST's socket timeout, against `scripts/test_quota_aware_retry.py:127` |
| `send_masked_line` | **violation**: a first ERROR line that is retryable hides later ones that are not, against the docstring of `_ServerLogError` |
| `send_answering` | **violation**: a turn that answers is taken for an unproductive loop, against the docstring of `_unproductive_loop` |
| `stack_left_alone` | **violation**: a server that others started, and that was slow to answer the stage's one look, is stopped by the stage's `compose down`, without any signal, against the comment of `stage_containers` (`tools/pipeline.sh:672`) |
| `reaper_start` | **violation**: the daemon ends at its first line of log, against the docstring of `reap_once` |

Each property of a passing run has a mutant in `PROJECT.json`: a change to one
modelled definition, of the kind a slip in the code would be, under which TLC
finds the property violated. The mutated forms stand beside the definitions they
replace.

### Bounds

- `send`: a POST timeout of 4 polls, a quota threshold of 5, retries of 2 and of
  7 polls, so that a retry can end in time, outlast the POST, or exceed the
  threshold by more than the reads of a poll take; a loop check every other poll, so that polls with and without one
  alternate; 2 messages and 1 ERROR line, with sessions that are fresh or already
  hold a turn, with or without an ERROR line. Time needs no bound: the POST's
  timeout ends every wait. The real proportions (300 s, 3000 s, polls of 5 s)
  matter only by their order, and the order is kept: the threshold is longer than
  the POST's timeout, so a wait is given up for quota over a retry announced to be longer than both.
- `category`: three tiers and one retry, the fewest that have a first, a middle
  and a last tier and a second try; up to six sessions and one more leaked each
  time a create's answer is lost. No bound is needed: retries are limited.
- `reaper`: two sessions, of two TTLs (2 and 3), polls and requests of one unit,
  clients that wait up to 2. The TTL of a live client's session exceeds its
  longest wait, as 600 s exceeds 300 s; the warm-up, whose POST may wait for
  exactly 600 s, is on the boundary, where `idle_s <= ttl_s` still spares it.

- `eval_run`: two runs, after one of four histories: nothing, an empty directory, an
  interrupted run, and a finished run after two that were rotated in the second
  the first of the new runs begins in. Two seconds, so that two rotations fall in
  the same one or in different ones. Two selections of one category each, so that
  the second run's evidence may or may not have the name of the first one's. Two runs
  and a past are enough for each property to be broken by its mutant; the theorems are for any number.

- `local_models`: two models, one of them the run's and the switch's target; one
  tier between warm-up and unload and two signals, the fewest that give a second
  signal inside the handler; a poll interval of 2 against a limit of 4 for the run and
  1 for the handler, so that the run looks more than once and the handler's first
  nap crosses its limit, as 15 s does 5 s (`Tiers`, `MaxSignals` bound nothing else). The
  message may arrive at any step, or never.
- `stack`: the stack's own address and another that the sweep tries after it; a sweep
  timeout of 2, a nap of 1, a look of 3 and a wait of 4, so that a look has time for one
  slow probe and one long one, and a wait for several sweeps; one message
  (`MaxAsks`). A probe of an address where nothing listens takes no time, as a
  refused connection on the loopback does; a name or a host that takes its time to fail
  (`http://server:4096` is among the addresses) adds to the bound of `WaitKeepsItsWord`
  and is left out. One program at a time: what another would do to its server is what
  others do here.
- `scoring`: categories of two tiers and of one; seven selections for each option (none, plain,
  reversed, overlapping, beyond the end, empty ranges, zero); every transcript of up to
  three signs after a setup with or without a subagent, and one near miss for each
  rule; a window of 3 marks, calls within 2 lines, cuts after 2 marks or 1. Every pattern of
  answers to the requests.

`CHECK_DEADLOCK FALSE`: a send returns, a category or a run ends, a daemon crashes.

### Fairness

- `send`: weak fairness of the main thread, of the worker's socket timeout and of
  its `finally` clause (the operating system runs both threads), and of the clock.
  None of the server: it may stay silent for ever.
- `category`: weak fairness of the client's own steps and of the handler's abort.
  That each send returns is what `send` shows (`SendReturns`).
- `reaper`: weak fairness of the daemon's steps and of a client whose time is up
  (it sends, gets its answer or leaves; it may go on so for ever), strong fairness
  of the clock (no endless conversation takes no time). Strong fairness of a successful list, and of the
  delete of a session listed again and again: a server that is asked for ever
  does not fail for ever. Without it nothing could be promised.
- `local_models`: weak fairness of the main thread and of the poller, each of whose requests
  has a socket timeout, and of the script while none of its requests is kept. None
  of Ollama, of the message's arrival, or of `Resume`: the script's header promises to
  fail "loudly on a timeout instead of sitting forever" (`scripts/ollama-model-switch.sh:30`),
  and its `wait_until` does, but `curl` has no time limit, so that `ProgramsEnd`
  promises the end of the script only if it is not `stalled`.
- `stack`: weak fairness of the program, each of whose requests has a timeout. The
  `docker compose` commands of the stage have none; that they end is assumed. None of
  the servers, and none of signals.
- `scoring`: none, and no liveness: nothing waits.
- `eval_run`: none, and no liveness: `category` shows that each part of a run ends.

## 4. Proofs

`SendMessageProofs` proves five theorems of `SendMessage!Spec`, for every timeout,
interval and limit, from `SendAssumption` alone (they are natural numbers, and what the
session did before is a log and counts):

| Theorem | Property |
|---|---|
| `TypeCorrect` | `TypeOK` |
| `NoTurnIsOrphaned` | `NoOrphanedTurn` |
| `SendKeepsContract` | `ImplementsContract` |
| `ReturnsInTime` | `BoundedReturn` |
| `QuotaMeetsItsRetry` | `QuotaNeverStale`, where an abort takes no longer than the threshold |

The strengthening relates the two threads and the server:

- `Stage` says what the main thread knows at each step: no cause while it polls, no
  abort before it sends one, one abort behind it once it raises.
- `Message` follows the message: without an arrival there is no turn, a turn has no
  answer yet, the holder is the answer that was given, and a delivered abort leaves
  neither a turn nor a POST on the way. The two give `NoOrphanedTurn` and the
  refinement of `SendContract`: a worker's end is `PostReturns`, the request of an
  abort `TryAbort`, the last step of the main thread `Return`, `Raise` or `GiveUp`.
- `Timed` bounds, for each step, the deadline of the request it waits for: each
  read of a poll adds its timeout to the POST's. This gives `BoundedReturn`.
- `Fresh` compares the client's picture with the server: from the status read to the
  end of the poll, a retry it shows is still the server's, with the same next
  attempt, or that attempt is due; and a give-up for quota is decided in such a retry,
  with more than the threshold left. With `Timed`, which bounds the abort, it
  gives `QuotaNeverStale`. The hypothesis `AbortTimeout <= QuotaThreshold` is 300 s
  against 3000 s in the code; with a longer abort the retry could be over before it
  is delivered.

`SessionReaperProofs` proves two theorems of `SessionReaper!Spec`, for any
sessions, listing limit and delays, from `ReaperAssumption`:

| Theorem | Property |
|---|---|
| `TypeCorrect` | `TypeOK` |
| `ReapsTheAbandoned` | `ReapsOnlyAbandoned`, where the time limits cover a client's silence |

`ReapsTheAbandoned` has the hypothesis `Covered`: both time limits are numbers and at
least `PostTimeout + SendDelay`. It is what the code's 600 s are chosen for, with
a POST of 300 s, and it holds in run `reaper`; in run `reaper_start` a limit is
missing. `Young` relates the age of a live client's session to what is left of its
patience, so that what is older than a limit is abandoned, and `Abandoned` carries that
from the listing to the delete: a client that has died or left does not come back.

`RunCategoryProofs` proves seven theorems of `RunCategory!Spec`, for every ladder
and every retry limit, from `CategoryAssumption` alone (the ladder is a sequence
of positive numbers, the limit a natural number):

| Theorem | Property |
|---|---|
| `TypeCorrect` | `TypeOK` |
| `NoSessionRunsAway` | `NoRunawaySession` |
| `InterruptIsEnough` | `InterruptStopsWork` |
| `NoRepost` | `NeverReposts` |
| `ReportIsConsistent` | `ReportConsistent` |
| `CategoryFollowsRule` | `FollowsEscalationRule` |
| `WithinBudget` | `SessionBudget` |

None of the properties is inductive alone; each is proved from a strengthening
that says where in its life a tier is:

- `Types` adds to `TypeOK` which labels allow which session and position.
- `Clean` adds to `NoRunawaySession` that a tier whose verdict is due has left
  nothing behind, its own session included, so that the next one may take its
  place.
- `Watched` says which session is published at each step, and that a session at
  work is that one, unless its abort failed or came early: this gives
  `InterruptStopsWork`.
- `Fresh` says that a session about to be posted to has no abort behind it and
  nothing running: this gives `NeverReposts`.
- `Story` ties marks, records, position and ceiling together: this gives
  `ReportConsistent`, and the refinement of `EscalationRule`, where a scored pass
  is `Pass`, any end is `Stop`, and every other step a stutter.
- `Spent` counts sessions against tries: this gives `SessionBudget`.

`EvalRunProofs` proves four theorems of `EvalRun!Spec`, for any number of runs, any
selections and every orderly history, from `EvalAssumption` alone (the runs are
numbered from 1, a selection is not empty, no category is called as one of the
program's own files, and what earlier runs left is a tree):

| Theorem | Property |
|---|---|
| `TypeCorrect` | `TypeOK` |
| `HistoryIsKept` | `NothingOverwritten` |
| `ReportsStandAlone` | `OneRunPerReport` |
| `DirectoryStands` | `NeverLost` |

The strengthening has five parts. `Types` adds which step has which memory;
`Tidy` says that files lie in directories, and what is nested in something;
`Alone`, that two runs alive at a time are both in `overlapped`; `Owned`, that a run
which has its directory, or is about to make it, finds there its own files and those of runs that
overlapped: it moved away what was there before, and whoever came since came
beside it. From `Owned` follow the first two properties, since only a file of
the same run can be replaced, and a report is written into a directory that is owned.
`Standing` says that the directory of a run that is alone is there, and gives the
third.

`LocalModelsProofs` proves six theorems of `LocalModels!Spec`, for any models, limits and
numbers of tiers and of signals, from `ResidencyAssumption` and `SwitchAssumption`:

| Theorem | Property |
|---|---|
| `TypeCorrect` | `TypeOK` |
| `NothingOutlives` | `NoTurnOutlivesRun` |
| `TheHandlerIsBrief` | `HandlerIsBrief` |
| `ConfirmedMeansFree` | `ConfirmedIsFree` |
| `TheMessageIsNotDenied` | `NeverDeniesTheMessage` |
| `TheSwitchClears` | `SwitchClears` |

`Quiet` says, up to the signal that cuts a clean-up (a run's second, a notebook's
first): no message before the send, the session published from then until the finally clause is
through with it, wherever the thread is or the handler will unwind it to, and hence for every turn
that runs an abort ahead, unless it came late. `Brief` bounds the time at the steps
of the poll. `Freed` says that from the request on a use of the model has been noted, and that a
model the poll has not listed is out of memory or was used; `LoadedForUse` has the
reason, that Ollama loads a model only for those who use it. `Undenied` says that the reset lies
behind the join, also when a signal comes between. `Accounted` says that each model,
listed or not, is still to come, waited for, or cleared once the script has its listing; it
needs that a model which is loading was noted as such, because the listing shows none that is.

`StackProofs` proves five theorems of `Stack!Spec`, for any addresses, any waiting times and
any number of messages, from `WaitAssumption` and `StackAssumption` (the sweep and
the nap take time, the stack's address is one of the addresses):

| Theorem | Property |
|---|---|
| `TypeCorrect` | `TypeOK` |
| `TheStageTells` | `StageTellsTheTruth` |
| `SessionsAreClosed` | `SessionClosed` |
| `APassIsAReply` | `PassMeansReply` |
| `TheWaitKeepsItsWord` | `WaitKeepsItsWord` |

The strengthening: `Timed`, how long a wait may have taken at each of its steps;
`Looked`, that the stage's look goes by the probes of one wait, so that a slow
server has had the whole time; `Owner`, that what the stage has started it also
stops; `Sess`, where a session may be open, and with which failed
clean-up after that; `Earned`, what an exit code of 0 or of 2 has behind it. A stage that
reports success needs all of the last three, since its `compose down` comes after the
probe's clean-up.

`ScoringProofs` proves seven theorems, for every ladder, every selection, every set of
sessions, every width of the windows and every length an output is cut to, from the named
assumptions of the modules (windows and lengths are natural numbers; selections are of
numbers; a session has a first message, a reply before its probe, and marks as content):

| Theorem | Property |
|---|---|
| `TypeCorrect` | `TypeOK` |
| `GapsAreStated` | `GapStated` |
| `PassesAreEarned` | `PassIsEarned` |
| `SelectionIsHonoured` | `SelectionHonoured` |
| `TheJudgesAgree` | `JudgesAgree` |
| `OverrideFails` | (of the operators: every transcript with an override by a sign both judges know is graded `FAIL`, with or without the language model) |
| `FoundThere` | (of the operators: what the scanner finds in one message by itself, it finds in every transcript the message stands in) |

They are about lists of any length that the code builds in loops, and need induction. The
library's induction theorems take an operator as a parameter, which the provers cannot
instantiate; `ListsProofs` derives an induction over sets instead (`LeastNumber`,
`Induction`, from `WFMin` and the well-foundedness of `<`), and with it:

- `JoinedExists` and `BuiltExists`: the recursive functions inside `FlattenSeq` and
  `Chosen` exist, without which nothing is known of their values;
- `FlattenInduction` and `ChosenInduction`: what holds of nothing and is kept by each
  step holds of the result;
- `FlattenPlaces` (each part stands in the whole in one piece, followed by nothing or by the
  start of another), `FlattenElements` (the whole has nothing that is not in a part),
  `FilterAscends` (a loop with a test keeps an ascending order, and all that passed).

`Lists` has the loops of the code as `FlattenSeq`, and a test as a part that is empty,
because the prover knows nothing of `SelectSeq`.

The invariant has four parts. `TodoOK` says of the tiers still to run that they are there,
each once, and that a tier at work is the first of them; `SelectedIs` establishes it, `TailOnce`
keeps it. `TierOK` gives the evidence its types: every way to a transcript ends in a
sequence of marks. `Stated` is `GapStated` for as long as the transcript is at hand, which the
verdict needs. `JudgedOK` ties what was found, the verdict and the grade to that transcript.

- `SelectionIsHonoured`: `TokenKeepsOrder` shows that after each token the list holds what the
  tokens up to it name, in the order of the first that names it; the clamp of
  `select_tiers` and the refusal of `select_categories` both leave a token with what it names
  of 1 to n, so `ChosenHonours` serves both.
- `PassesAreEarned`: where no cut is stated a message is rendered as it was written
  (`MessageUncut`), opens with its heading and has no other (`MessageHeading`), and stands in the
  transcript of the whole session, its own or a subagent's, up to the next heading
  (`WroteWithin`). Its turn there is the turn it is by itself, moved, and each of the
  six rules reports there what it reports here (`IntentThere` and its five like, `FoundThere`).
  A pass finds nothing forbidden in the transcript, hence nothing in the message.
- `GapsAreStated` rests on `ChainIsWhole`: a record without an error, of answers that were
  lists, is the session.
- `OverrideFails` rests on `TurnIsWhole` (a scanner's turn has no holes, so that what
  excuses the second judge lies in the scanner's turn too) and `OverrideIsHit`.
  `TheJudgesAgree` follows, every transcript being a sequence of marks.

Each invariant was checked by TLC before it was proved. The proofs have one case
for each action, or for a group of actions that do the same to the part at hand.

Only model-checked: all liveness (`SendReturns`, `OrphansStop`, `CategoryEnds`,
`ProgramsEnd`, `ProgramEnds`), which needs fairness and `ENABLED` and is out of the
prover's reach. Every invariant and every other property that a passing run checks is proved.

## 5. Plan

Order of work, most important first.

1. *Done:* `SendMessage`, `RunCategory`, `SessionReaper`, `EvalRun`, with the
   abstract specifications `SendContract` and `EscalationRule`; proofs of
   `RunCategory` and `EvalRun`.
2. *Done:* `OllamaServer`, `Residency`, `ModelSwitch` and `LocalModels`.
3. *Done:* `ServerWait` and `Stack`, with the container stage; proofs of both.
4. *Done:* `Selection`, `Evidence`, `CvvScan`, `CvvVerify` and `Scoring`.
5. *Done:* proofs of `SendMessage`, and that every step implements a step of
   `SendContract`.
6. *Done:* proofs of `SessionReaper`.
7. *Done:* proofs of `LocalModels`.
8. *Done:* proofs about lists by induction, and with them of all of `Scoring`.
9. `Deployment`: `deploy`, `remove` and reuse against two backends and one port.

## 6. Not modelled

- *Deployment control* (`harness-control.sh`, `scripts/lib/server-lifecycle.sh`,
  `scripts/select-and-run-eval.sh`): a straight line of shell around two container
  backends, of which the container stage, which does start and stop a server under
  others' hands, is modelled in `Stack`. Its hazard, a teardown that fails before a
  deployment, is listed without a property.
- *Capture proxy, discovery, pickers, tracing*: I/O with no state that a step of
  another could change. *Mocks and tests*: read as documentation. *Build files and
  infrastructure*: declarative.
- Of the evidence: `run_environment` and `instance_definitions`, which record what was
  run and decide nothing; the summary notes; what the log filter keeps of
  `server.log`.
- Of the judges: the regular expressions, which are abstracted to the marks they look
  for (one line may match several, here it is several marks); the tool gate that
  `axiom_cvv_verify.py` sets on a failure, which is a script outside this
  repository, and its log, which it never reads.
- Of the entrypoint: everything but what a client waiting for it sees.
- Inside modelled parts: printing and event lists; exceptions other than
  `RuntimeError` that leave `http_post` in a send (see the hazards); the arithmetic of
  suspended time in the heartbeat, which is printed and decides nothing; suspension of the
  host, which lets a wall clock run while both client and server are frozen.
