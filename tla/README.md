# anfra in TLA+

A model of anfra: its processes, what they share, and what it makes of what it is
given. TLC checks the models on small instances, TLAPS proves the main theorems
for every instance.

`tlc -config MCServe.cfg MCServe` runs a configuration, `tlapm ServeProofs.tla`
checks a module of proofs. `PROJECT.json` maps every definition to the source
lines it stands for, lists what is hard to test in this code and the properties
about it, and quotes each line the code does not keep to.

## The system

anfra is one Go program. `anfra serve` is a server over one repo: it compiles
and runs AML with a Node sidecar, runs queries with the canal-query sidecar,
serves the repo's Data Apps with live reload, and exports results to files.
Every other command is a one-shot process, which sends its work to the repo's
server when it finds one and does it itself when it does not. All anfra
processes of a user share a folder of state: logins, export files, extracted
sidecar binaries, the cached update check, the notices' record.

| part | state | operations | who it talks to |
|---|---|---|---|
| `shared/routine` | a group's routines, two flags, two channels, two contexts, a WaitGroup; a backoff's attempt | Every, Loop, Worker, Start, Task, Stop; Next, Wait, Reset | the server owns a group; routines call what the server owns, which it closes once Stop returns |
| `internal/cliauth` | `credentials.json`, its lock, a recovery marker per organization | Load (renewing), Login, Logout | the authorization server; every other anfra process, through the files |
| `cmd/anfra` auth | the repo's org, the saved logins, a browser's callback | auth login, logout, status; publish's choice of an org | the person and the browser, cliauth |
| `internal/exports` | a folder of CSV files; per process, links with an expiry and a once-only first sweep | Create, Done, Abort, Sweep, Close, Open | query.export writes, the HTTP route reads, a routine sweeps, other processes sweep the same folder |
| `cmd/anfra` serve, runtime, commands | `serve.json`; inFlight, last; the listener | runServe, findServer, invoke, callServe, stopWhenIdle | starts the sidecars and the group; the CLI finds it through `serve.json` |
| `cmd/anfra` console | a mode, flags, a history file, the server it started | enter, switch, ensure, wait, stop, load, add | `anfra serve` as a child, another console |
| `internal/sidecar` | extracted binaries in a cache folder; a child process and its socket | extractRuntime, prune, start, WaitReady, Close | started and closed by serve and by each one-shot run |
| `internal/appserve` | event streams, a watcher, a debouncer, a limiter of reports | open a stream, change a file, report, Close | the file system, the browser |
| `web` | a Data App's queries and controls, the bridge to its host | execute, fetchMore, abort, setSort, edit | the host page, which calls the API |
| `internal/command/query`, `internal/query` | a run's bounds, deadline, stream | page, stream, export | canal-query, exports, the client |
| `internal/publish`, `internal/cloudapi` | the org's revision and blobs, `published.json`, the config's org | status, upload, publish, record | the org's server, other publishers |
| `internal/motherduck` | a MotherDuck account's databases and token, the org's data sources | look, sign in, upload, copy, revoke | MotherDuck's CLI and service, the person |
| `internal/update` | a cached check, the executable | check, refresh, replace, announce | the release server, other processes |
| `internal/agents` | the agents' plugins, copies of the skills, a record, a streak of failures, a block of AGENTS.md | setup, check, notice, hint | the agents' own CLIs, people who edit |
| `shared/apikit` and its kit | the ops registered; one call's stage | register, discover, dispatch, answer, stream | HTTP, MCP and the CLI |
| `internal/command` | none that lasts | read flags and text, decode, default, check | every core command |
| `internal/pretty` | none that lasts | lay out tables, blocks, grids, trees, timings | a terminal |

### What is hard here

- Stop of a group races with timers that fire, tasks handed in, other Stops and
  their deadlines. What the server closes after Stop must not be in use.
- A refresh token works once and renewing it takes five durable steps in two
  files, with several processes at it and a death possible between any two.
- The export folder is swept by processes that do not know each other's links,
  by a clock that is not the one the links live by.
- `serve.json` is read, written and removed by processes with no lock at all; a
  server found may be gone, or not yet answering, when it is asked.
- srv.Serve returns as srv.Shutdown begins, so what runServe closes is closed
  beside requests.
- Extracted binaries, the update's cache, the notices' record, the failures' streak
  and the console's history are files that processes rewrite whole with no lock.
- A publish takes many requests, any of whose answers may be lost, to a server that
  others publish to, of files that people edit.
- A copy to MotherDuck makes a token and databases in a person's account, in steps
  that fail one by one, while the person may switch accounts.
- A stream has two writers, a deadline, a client that leaves, and an observer told
  of its end; its rows have three limits that meet.
- Events of file changes pass a watcher that starts and stops with its readers, a
  debouncer, and channels that are full, closed, or opened as the server closes.
- In a Data App a reader runs, pages, aborts and edits while answers are on their way.

### What makes each part correct

- **routine**: Stop returns only to an empty group; work is cut short only at a
  deadline; Stop always returns.
- **cliauth**: no refresh token is sent twice; what other processes would use is
  durable; what an operation reports done is durable; no process drops another
  organization's login; no path leaves the lock held.
- **auth**: what is told of a login is so; what is signed out of was named; a
  publish goes where the person agreed.
- **exports**: a file in use is not swept; a file nobody can reach is, in the end.
- **serve**: a server that serves is found; one that stopped is not; a second one
  refuses beside it; an idle stop interrupts no request; a server told to stop
  ends, and closes nothing under a request it promised to drain.
- **console**: an entry runs as it was typed; a session stops the server it started
  and loses nothing of another console's history.
- **sidecar**: an executed file is whole; a run that ends leaves no process.
- **appserve**: no change is lost to a page that reads; Close ends the streams of those
  who read; a flood of reports is cut to its limit, and what was cut is told.
- **web**: what is shown is of one run; what is executing can still end.
- **query**: an answer holds all it claims to; a stream begins and ends once; a run
  ends whatever canal-query and the client do.
- **publish**: nothing is replaced unseen; what is told of the end is so; what is
  left undone or left behind is said.
- **update, agents**: nothing is announced twice; what the repo wrote in a file stays;
  what is said of the skills follows from what is there.
- **the API's kit**: a client is told what its server serves and no cause; every
  door answers alike; discovery lists what the doors do.

## Modules

| module | models | proofs |
|---|---|---|
| `GroupContract` | what a group promises its owner, abstractly | `SharedProofs` |
| `RoutineGroup` | `shared/routine/routine.go`; implements `GroupContract` | `SharedProofs` |
| `Backoff` | `shared/routine/backoff.go`, in W-bit integers | `SharedProofs` |
| `Credentials` | `internal/cliauth`: oauth_manager, credential_store, credential_lock, refresh_recovery | `CredentialsProofs` |
| `SignIn` | `cmd/anfra/auth.go`, the pickers and activities of `internal/cliui`, cliauth's login | `CliProofs` |
| `Exports` | `internal/exports/exports.go` and its callers in `internal/command/query/export.go` | `DiskProofs` |
| `Serve` | `cmd/anfra/serve.go`, `runtime.go`, and `invoke` of `commands.go` | `ServeProofs` |
| `Console` | `cmd/anfra/console*.go` | `CliProofs` |
| `Sidecars` | `internal/sidecar`, and the start of the sidecars of a command | `QueryRunProofs` |
| `LiveReload` | `internal/appserve`: events, watch | `AppServeProofs` |
| `Reports` | `internal/appserve/log.go` | `AppServeProofs` |
| `AppQuery` | `web/sdk/src/app`, and both ends of the bridge | `AppServeProofs` |
| `QueryRun` | `internal/command/query`, `internal/query`, canal-query's client, apikit's stream | `QueryRunProofs` |
| `Publish` | `internal/publish`: publish, state, org; `cmd/anfra/publish.go` | `PublishProofs` |
| `DataSources` | `internal/publish`: datasources, motherduck; `internal/motherduck` | `PublishProofs` |
| `Updates` | `internal/update`, `cmd/anfra/update.go` | `DiskProofs` |
| `AgentNotices` | `internal/agents`: notice, agentsmd | `DiskProofs` |
| `AgentSetup` | `internal/agents`: agents, setup, hint and what they run | `CliProofs` |
| `Failures` | `shared/apperr`, and the codes of `shared/httpkit` | `SharedProofs` |
| `Calls` | a call by each door: `shared/apikit`, `appstep`, `httpkit`, `cmd/anfra`'s errors; over `Failures` | `SharedProofs` |
| `Discovery` | apikit's registry, discovery, and sessions' tools | `SharedProofs` |
| `Inlining` | a schema made to stand alone, of `shared/apikit/discovery.go` | |
| `Inputs` | `cmd/anfra/commands.go`, apikit's decode, `internal/command/args.go` | `SharedProofs` |
| `Pretty` | `internal/pretty/pretty.go` | |

An `MC` module gives a specification its values and symmetry, and a `.cfg` beside
it is one run. Four modules compose components that share no state, by a variable
`focus`: a behaviour is one component's, and the others rest. `MCCli` has `Console`,
`SignIn` and `AgentSetup`; `MCAppServe` has `LiveReload`, `Reports` and `AppQuery`;
`Upkeep`, whose composition is proved about too, has `Updates` and `AgentNotices`;
`MCAlgorithms` has `Backoff`, `Pretty`, `Calls`, `Inputs`, `Discovery` and `Inlining`.
The `...Spec` formula in each of the rest is its own specification, for use alone. Components that do share state are in one module:
`Serve` has the server, its routines' stop, its sidecars' close and the CLI;
`QueryRun` the run, the stream and the pinger; `AppQuery` the page and its host.

### RoutineGroup

One action is one section under `Group.mu`, or one step of a goroutine between
two points where it can be descheduled. `pc` holds where each goroutine is:
`ready` before sleep's first select, `waiting` in its second, `running` in the
caller's function, `backoff` in `Backoff.Wait`. `Active` is what `Group.wg`
counts. `drain` is `"nil"` until Start makes the drain context, because Stop
before Start leaves `cancelDrain` nil. `waiter` is the goroutine of the first
Stop. A select with two ready cases is two enabled actions. A panic ends the
process (`crash`) unless the routine is in `Recovered`. A task's always does:
`Task` runs with `recoverPanic` false, although the log events' texts
(`routine.go:41`, `:44`) speak of a task's panic as recovered. The group is
observed by its owner as `GroupContract`: `phase`, the goroutines that are active, and the
Stops that have returned.

### Backoff

`min << attempt` is computed in two's complement of `W` bits (`Wrapped`), with
the guards of `Next` on the attempt and on the sign of the result, from any pair
that `checkBackoff` takes. A shift that lost bits may leave a small positive number
that is taken for the delay: `DelayAsDocumented` names the pairs it can happen to, those
that are not `Narrow` (the odd part of `min` times `max` does not fit in `W - 2` bits),
and bounds what it leaves. The default, 1 s to 30 s, is `Narrow` by far: `5^9 * 3 * 10^10`
is under `2^62`.

### Credentials

A token stands for an access token and the grant issued with it; refresh tokens
are numbered in the order the server issues them. `file` is `credentials.json`
as processes read it, `fileMaybe` every content a power loss may leave (a
rename that is not yet synced may be undone), `marker` and `markerMaybe` the same
for the recovery markers. `pc` follows the code: `mark`, `marksync`, `pend`,
`pendsync`, `post`, `store`, `storesync`, `clear`, `clearsync`, and `remark`,
the marker put back when its removal did not sync. Every write may fail, every
process may be killed at any point (the kernel drops its flock), and the power
may go. The server takes a refresh token once; its reply may be lost.

### SignIn

One command of a person at a terminal, or of a script without one. `at` is where
the command is, `ask` the picker that is open and what it offers, `work` the
browser's callback and the activity's result, `ctx` the context a key, a signal or
the ten minutes end. The activity answers "canceled" whatever its work came to, so
`issued`, the server's grant, may outlive it. `status` reads each folder upward to a
repo's end. What a save is on disk is `Credentials`'; here it works or fails.

### Exports

Two clocks: `wall`, by which files age, and `mono`, by which links expire and
commands time out. `wall` may jump. A sweep keeps the time it began with
(`now`), forgets expired links, then lists the folder and judges one entry after
another: the listing, each look at the links and each removal are separate
steps. The first export of a process sweeps before it creates its file, and
others wait for it (`sync.Once`). `written` is whether the CSV writer was given
any record: with none, the flush writes nothing and the file keeps the
modification time of its creation.

### Serve

`serve.json` and `serve.json.tmp` (`rt`, `tmp`) are names of inodes, and an inode
is named after the server that created it; `content` is what it holds, `Torn` when
that is not one whole record. A server that opened the temporary keeps writing to
its inode after another renamed it. `seen` is what each reader of `serve.json`
last read. A server listens before it serves, so whoever asks it meanwhile waits
(`Opening`) and gives up only by the 500 ms of `answers` (`Late`). A request is
`in flight`, then `returned`, then `stored` (`last` is set) before `inFlight` is
counted down: the order of `stopWhenIdle`'s deferred function. A listener that fails
while it serves, `srv.Serve`'s other error, is left out. `old` says whether
`last` is an idle timeout ago; `CheckLoads` and `IdleStop` are the idle check's two
loads. `calm`, `beside` and `cut` are history the properties speak of.

### Console

A session from its first prompt to its end. `mode` and `flags` are what the
prompt shows; an entry becomes the args of a command as `withFlags` and the mode
make them (`entry`). A line of flags sets the session's before it turns to the mode's,
which may refuse its own: the mode's language is then not worked out again
(`SetRefused`, and `refused` until it is). `url`, `started` and `starting` are
`consoleServer`'s fields; `procs` are the servers there are, of which `mine` were
spawned here. A look for a server may miss one that serves, as it answers `/health`
after 500 ms or its record is torn, and a start given up on after 30 s leaves a process
that may still come up: `unfound` has those that were up, or coming up, when the session
started another. The history is a file
that `load` may rewrite whole while the other console appends.

### Sidecars

`dir` holds, by the names in the shared folder, whether a file is missing, empty,
written in part or whole. A run takes the steps of `extractRuntime` one by one:
look, open, write, rename, list, remove. An open file goes with a rename and
survives an unlink (`fd`). Then come the socket's directory, the process,
`WaitReady`, the next sidecar, and the close of what started, last first.
`alone` is history: the runs no other extracted beside.

### LiveReload, Reports and AppQuery

A change has a number; an event stands for its type up to a number, as the debouncer
folds several. `Listen`, the watch's start, reading an event, the timer, `flush` and each
send are separate steps. A channel holds `Buffer` events, and one more is dropped.
`Close` closes every channel there is; a stream that subscribes after it is `late`, and
one whose client stalls is blocked in a write and does not see its channel closed. One
stream, any, is observed: `due` is what it is to be sent.

A window of reports is known by its number, as by its pointer in the code, since
`allow` may forget one whose timer is still to run.

A frame's code runs to its end; between two such runs a message arrives, or the
reader acts. `toHost` and `toFrame` are `postMessage`'s queues. Each page of `result`
keeps the input it was asked with. `signature` is what the query was last run with,
which reads the control's pending condition where a request takes the applied one.

### QueryRun

`ask` is a call: its form (page, stream, export), its size, its `limit:` directive and
the host's maximum. `Keep`, `Truncate` and `RowCap` are the code's bounds, by which
canal-query is asked for rows (`ToSend`) and the run stops (`kept`, `more`). canal-query
may answer its head, a row, its end or an error at any time, or nothing. `conn` is the
client's connection, which may stop reading; `ctx` ends when the client leaves or the
op's time is up. A stream writes batches by rows and by bytes, beside a pinger.

### Publish and DataSources

`head`, `blobs` and `files` are each org's server; a revision is named after the run
that made it. `pc` follows `publish.go`: destination, reading, status, confirm,
listing, uploading, publishing, record, writing. Every request may fail or be done
and not answered; a server may collect blobs no revision names, which is what
`blobs_missing` and the one retry are for. `own` and `cut` are history: what a folder
was told is its own, and the runs whose publish was never answered.

`DataSources` is what the publish then offers. `md` holds the fields of `mdCopy`: the
account it looked at, the names it took, its token. `cli` is the account the
MotherDuck CLI is signed in to now, which the person may change, and `dbs` what each
account has. `said` and `warned` are what the person was told; where `data_sources.yml`
does not load that is all that is said (`TheFile`), and the publish goes on.

### Updates, AgentNotices and AgentSetup

A time is what it is against its own limit: never, recent, old, or in the future, as
a clock moved back leaves it. A process reads the cache, changes it, truncates it and
writes it: four steps beside those of others. `back` is history: an older release was
announced after a newer.

The notices' record is read and rewritten the same way. A line of AGENTS.md is a
marker, anfra's text or the repo's own, and `Setup` replaces what lies between the
markers it finds (`WithBlock`).

`AgentSetup` has each agent's CLI as setup asks it: a marketplace, a plugin at the
user's scope and one at a project's. A setup selects agents, runs each step, any of which
may fail, then copies, records and reports; `report` is what it tells, `since` what a
person did to what it saw, and which lists it did not have. A release may come at any
step, and is no excuse: what was the latest as a setup began is what it answers for.
The hint's file is `fails`.

### Failures, Calls, Discovery, Inlining, Inputs and Pretty

These compute. `Failures` is operators alone: an error is the sequence of what wraps
what, a message the set of what it says. `Calls` follows one call through its stages
by HTTP, by MCP, by the CLI with a server and by the CLI alone: decode, validation,
auth, the handler with its step and its panic, the answer or a stream of events,
the log's line, the delivery of an answer by the CLI, the exit code. A delivery ends in
one of four ways: shown; refused by a server whose link has expired, with that server's
code; a file or stdout that cannot be opened, made or written, with no code; a transfer
that breaks, as unreachable. `Discovery` wires a host op by op, each refused at
registration for the reasons the code has, then compares what discovery says with
what each door does; the order of the ops, which every listing keeps, is left out. In
`Inlining` a registry's schemas are a graph whose references are replaced by what they
name. `Inputs` reads what was typed by flags, aliases, an object's fields, positions
and a pipe, then decodes, defaults and checks; the violations of an input are a set, as
their order is that of the args. `Pretty` lays out a value; a text is its width and
its path in the value, so that what is drawn can be read back. A cell wider than its
column is cut there, and shows what begins before the cut (`ShownIn`); a header is drawn
whole (`HeadWidths`).

## Runs

| run | instance | shows |
|---|---|---|
| `routine_group` | an Every with Recover, a Loop, a Worker, a task, two Stops | Stop returns only to an empty group, cuts short only at a deadline, panics only in a group that was stopped before it started, and returns; at most one late run; implements the contract |
| `credentials` | 2 processes, 2 organizations, 2 tokens, 1 failure | no token is sent twice, nothing durable is lost, no other's login is touched, operations end |
| `exports` | a server, a CLI run, an export of either, one clock jump | a file in use is lost only in the ways named; stale files go |
| `serve` | 2 servers, a call, a crash, a late answer | a server alone is found; requests are cut only at a server told to stop; an idle stop is justified; stop ends |
| `publish` | 2 publishes of one folder, a publisher elsewhere, 2 paths, 3 blobs, an edit | what is replaced, what is told, what is sent at once; a publish ends |
| `data_sources` | 3 warehouse sources, 2 DuckDB files, 2 accounts | what is lacking or left behind is said; nothing is revoked, changed or uploaded but as agreed |
| `query` | up to 4 rows of 2 sizes, every form, page, limit and maximum | what is answered and what is left; a stream's frame; what the observer is told; a run ends |
| `sidecars` | 2 runs at once of 2 versions, 3 in all, one killed | a run alone executes a whole file; an end leaves nothing; a start ends |
| `cli` | a session of 2 entries beside another console; every sign-in; setups of up to 2 agents of 3; 3 failures of 2 commands | an entry runs as typed; servers and history are the session's own; what is told of a login and of the skills is so, each but for what its comment names |
| `appserve` | 2 streams, 2 changes; 2 apps' reports in 2 minutes; a query of 3 pages, 3 calls | a change is sent or the stream ends; reports are limited and drops told; what is shown is of one run |
| `upkeep` | a process and a server, 3 releases; 2 commands over a record; 5 lines edited 4 times | nothing is said too often; a block is replaced alone; the cache says the latest again and again |
| `algorithms` | 6-bit delays; values of 2 fields; a call by every door; up to 3 flags; up to 4 ops | no delay of a narrow pair is shortened, and no other is lost; nothing is hidden or misplaced but what a terminal cuts; causes are hidden; input is read as said; discovery agrees; an inlined schema stands alone |

Most properties of the runs are conjunctions of named parts, each with its own
comment. `RoutineGroup`, `Credentials`, `Exports`, `Serve`, `Publish`, `DataSources`,
`QueryRun`, `Sidecars` and `Console` state a type invariant (`TypeOK`,
`ConsoleTypeOK`). TLC checked each on its run's instance, and where there is a proof
the types are the first part of the inductive invariant. They are not among the runs'
properties, which are kept for what the types do not say.

### Bounds

- **Kinds, not numbers.** One routine of each kind is every kind of goroutine
  with another of every other kind beside it; two Stops are the first and a
  later one, in either order with Start. The proofs cover any number.
- **Two processes on the login** are enough for one to overtake the other at
  any step. Two tokens are a login and its successor, or two logins. With two
  organizations one failure keeps the run short; the proofs cover any number.
  `VIEW Relevant` leaves out what nothing reads again: what an idle
  process last did, and the inventory read under a lock that was released.
- **Exports**: a link lives 2 units and an export at most 1, as 1 h and minutes
  relate; 4 units let a link expire and its file age past it. `MaxTime` stops the
  clock, which is why this run does not check deadlock.
- **Servers**: each launches, runs and stops once, so two are a server and one
  before, beside or after it; what is proved holds for any number.
- **Publish**: two runs of one folder and a publisher elsewhere are every one whose
  revision could be replaced. Blobs of 5, 3 and 2 bytes against limits of 5 a file
  and 4 bytes an upload are one as large as a file may be, which no upload beside
  others takes, and two that fit an upload each and not together. The limit of 2
  blobs an upload is not met: with two paths no upload has a third.
  The theorem is of both limits, for any paths and sizes.
- **Data sources**: of two files one is read by two data sources; two accounts and
  two names let one be taken; one act of the person can come at any step.
- **Queries**: rows of 1 and 3 bytes against 3, pages of 2, maxima of 1 and 3, limits
  of 0, 1 and 3 and results of up to 4 rows are below, at and past every bound.
- **Sidecars**: two at once race for every file; a third start finds what a dead
  one left; one sidecar is embedded and one at a URL.
- **Console**: histories of 5 lines are past twice the 2 kept, where `load`
  rewrites; two entries are one and one after a switch, or a lost server's successor.
- **Agents**: of the setups there are (`AgentSetupInit`) the run begins from `SetupBegun`:
  in an anfra repo, every state of its notes with Claude Code alone and no plugin or copy;
  elsewhere up to two of three agents, with every plugin and copy of theirs, but Codex
  where there are copies. The steps that write the ones do not read the others, and a report joins them;
  all of them together pass the run's time. A marketplace is there where a plugin is,
  and nowhere else. The theorem is of every setup.
- **Live reload**: a buffer of 1 is full at the second event; two changes are one
  and one after, of one type or of two. **Reports**: 2 a minute of 2 ticks, 3 a
  tick, so a window overflows within a tick and across two. **AppQuery**: three calls
  are a run, a page and what comes after; 4 calls were explored for 15 million
  states, with nothing found.
- **Updates**: two events (a withdrawal and a release, a kill and a moved clock) and
  three releases are what it takes to announce one again. **AGENTS.md**: a marker that
  lost its end, a block and a line of the repo's between them are five lines.
- **A call with up to 3 things wrong** (`MostWrong`) is where the order of three matters:
  a CLI alone whose input no schema fits, refused by the command's own check, starts no
  sidecar for it. The theorem is for any number.
- **Backoff at 6 bits** reaches every way the shift can go wrong (bits lost, the
  sign set, all gone) within ten attempts; the guard at `W - 2` is passed. **Pretty**'s
  terminals of 16 and 24 columns are narrower and wider than a table of its values; one
  of its labels is wider than the 8 a column may be cut to.
  **Inlining**'s graphs have two schemas that refer to each other or themselves.
- Deadlock is checked where a system cannot stop. Groups and servers that have
  stopped, runs, calls and commands that have ended, and clocks and counters at their bounds can.

### Fairness

- **RoutineGroup**: the Go scheduler runs every goroutine that can run, timers
  fire, a routine's function returns once its context has ended (the contract
  `Every`, `Loop` and `Worker` state), and a Stop's context has a deadline, as
  `runServe` gives it. A function need not return before its context ends.
- **Credentials**: `WF(Works(p))`, since every request has a timeout and a
  process goes on; `SF(Acquire(p))`, since the lock is polled every 25 ms and is
  free again and again. Nothing makes a caller give up.
- **Exports**: a server's sweeps are started again and again by `routine.Every`,
  and a sweep waits for nothing but the disk. Exports, processes and clocks are
  not fair.
- **Serve**: a launch goes on, a stop goes on. Signals, requests, idle checks and
  the end of the drain are not fair: nothing makes a handler return.
- **Publish**, **Sidecars**: a run goes on: every request and every child's start has
  a timeout. A health check with none is an exception `StartEnds` names. Kills,
  edits, other publishers and the collector are not fair.
- **QueryRun**: the run's own steps, the op's timeout, and what fails when the
  context has ended. canal-query need not answer, nor the client read.
- **LiveReload**: the watcher's and the streams' goroutines run, and the debouncer's
  timer fires. Clients need not read, and need not leave.
- **Updates**: a process goes on; anfra is in use, so that checks are started; a lookup
  tried for ever is answered at times; time passes its limits while no process is
  between a read and a write. Strong fairness, because a kill or another check may
  disable each of the three in between.

## Proofs

TLAPS proves each theorem for any sets of routines, processes, servers, runs and
codes, from the `ASSUME` of the module alone: that the sets do not overlap, the
sentinels are in none of them, and numbers are numbers. TLC evaluates those on every
run.

**SharedProofs.** Of a routine group: `StopReturnsQuiescent` is not inductive: that nothing is
active when a Stop returns depends on `done`, which depends on the waiter, which
depends on nothing becoming active after it saw none. The strengthening is
`TypeOK /\ WaiterInv /\ StopInv /\ DrainInv`:

- `WaiterInv`: what `stopped`, `stopping`, `loopCancelled` and `waiter` say of one
  another, and that once the waiter has passed, or the group was stopped before
  it started, nothing is active and nothing can become so;
- `StopInv`: a call of Stop is past its wait only if the group was closed when it
  came, or `done` is;
- `DrainInv`: the drain context has ended only because the waiter passed or a
  Stop's context had ended.

From it follow `StopIsQuiescent`, `CutShortIsJustified` and, with `LateInv` (a
routine that ran late has still to look at `stopping`, or at its ended context),
`LateRunIsTheLast`. `StopCrashesOnlyTheUnstarted` is that the nil `cancelDrain` is
met only in a group that was stopped before it started, and in which nothing ever ran
(`NothingRanUndrained`). `GroupImplementsContract`
maps every step to a step of `GroupContract` or a stutter; `ContractIsQuiescent`
shows what any implementation inherits.

Of failures: lemmas on chains of errors (what `From`, `On` and `Text` do to one), then
a server answers only codes it serves, and where causes are hidden says no more of an
internal error than that it is one; there too an answer is the same whatever an error
encapsulates; what nobody classified is told in the same words; `Translate` keeps a
message and its steps.

Of a call, `CallInv`: while nothing has failed, what is wrong with the call and comes
before its stage is not there (`Unmet`), so that what the stage meets is the first thing
wrong (`FirstAt`); a failure, however encapsulated, re-coded and given steps since, is of
the code of that (`FailureIs`, by `EncapsulatedIs`, `StepIs` and `RenderIs`, which say what
each does to a failure's code and message); what was sent, and the one line, are of the
failure (`SentIs`), and what the CLI prints of what was sent or failed (`CliIs`).
`CallsAssumption` asks of the codes what `apperr.go` and `serve.go` define: which are
public, which a server serves, and that none of them is `interrupted`.

Of a backoff the work is arithmetic, and `Next` remembers no more than its attempt
(`PairIs`). No induction gives that a power of two doubles, so `Two(n)` is counted: it is
the number of subsets of `1 .. n`, of which as many have `n + 1` as have not. A shift leaves
a multiple of `2^(k+attempt)`, `k` the number of times two divides `min`
(`WrappedIsMultiple`); what is neither shifted away nor whole is then past `max`, if the
pair is `Narrow`, and is cut to it (`WrappedAway`, `BaseIsDocumented`). Of any other pair
it is at least `2^attempt` (`BaseIsNear`).

Of discovery, `DiscoveryInv`: no two ops of a host have one name (`HeldOnce`), each was
registered as its events must be, in a declared group (`OpsAreWired`), and a session's
tools are what its caller could call (`SessionIs`). The registry mounted from was wired the
same way (`MountableAssumption`), and every server serves the codes of every op
(`ServedAssumption`).

Of an input, one step reads it (`ReadOnce`), so the argument follows the steps of
`RunsOn`, not of time: what an arg holds against what was told of it, `Holds`, is kept from
the flags to the text, the pipe and the default (`FlagValuesAre`, `TextHolds`,
`ValuesHold`, `DefaultsHold`); then what passes the checks fits, and what fails them is
wrong and named (`FitRuns`, `UnfitIsWrong`, `CheckIsWrong`, `NamesRight`). What a query
command declares is an assumption: with a `lang`, both targets, and with a page its size.

**CredentialsProofs.** No token is sent twice because whoever holds the lock has
marked, durably, that it is about to send one; so the invariant is of what is on
disk at each step of the holder, in every content a power loss may leave. Its parts:
`Shape` (types); `Locked` (only the holder is past `Acquire`); `EntryOf` (a token in
the file is not sent unless its entry says pending, and is no other organization's);
`WorkOf` and `Mine` (what a process is to save, which is its own until it has); `HoldsOf`
(what the file, its contents after a power loss and the marker hold of the
organization, by how far the lock's holder is); `DisownedIsMarked` (a failed login's
token stays in the file only under a marker, while at most one thing failed).
`NoTokenIsDead` and `OthersStayUntouched` follow. `LoginsSurvivePowerLoss` adds
`RemovedInv` for logouts: while nothing has failed, only a save not yet synced leaves the
file uncertain (`Settled`), so that what a logout finds removed is removed for good.

**DiskProofs.** That an export's file in use is safe depends on two clocks that need
not agree. `ExportsInv` relates, for each export, its stage, link and file (`StageOf`,
`LinkOf`), its time since it began (`InTimeOf`), how old its file can look (`AgeOf`),
and, for a sweep under way, what it may still remove (`SweepOf`, `MayGo`).
`FilesAreLostOnlySo` is the run's property, `CalmClocksKeepTheUnfinished` what is
left of the doc's promise when no clock jumps.

What anfra keeps of itself has `UpkeepInv`, a part for each component. `LastIsNewest`:
until a server has announced an older release after a newer, the last it announced is
the newest it has. `MarkedOnce`: while nothing lost the mark that the notice printed,
the file, if whole, has it, and no command is about to print again. Of AGENTS.md the
argument is on lines: `CurrentIs` says which block is found (`Found`, or `NotFound`),
`WithBlockIs` what replacing or appending one makes of each line (`Replaced`), and
`RestSame` that the blocks after it are those there were, moved (`IsBlock`, a begin and
the end next after it). `SetupKeepsTheRest` and `SetupLeavesIt` (the new block is the
one found again) are of any lines.

**ServeProofs.** `Inv` is `Typed` with four parts: `NamesThePast` (names, inodes
and open files belong to servers that have come that far), `Alone` (a server that
nobody was started beside has the temporary, then the record, to itself), `Gone`
(a server past its removal is named by no inode that is or may become
`serve.json`), `Succeeds` (a server that started did so after the one it had read of
was over, unless an answer came late). Each kind of step keeps it, one lemma each.
`IdleInv` is separate: when the check's second load sees an old `last`, its first
first saw a calm server. `OnlyTheStoppedCut` is an action property over `Gone`.
`ServerStopsOnlySo` joins it with what an idle stop may interrupt: the two ways in
which a server that serves may end a request.

**PublishProofs.** Of a publish, `PublishInv`: `RecordedIsOwn` (what `published.json`
says, and what a run read of it, is what its folder was told) and `RunOf` (by step: a
run has made a revision only when it is recording one, or was not answered; what it is
to replace was agreed to, or is its folder's own). `UploadInv` is apart: what a run is
to upload fits, and its next call fits it together. A call's bytes are counted as
places (`Bytes` is the cardinality of pairs of a file and a byte of it), so that a file
added is a disjoint union and no sum of a set is needed. `PublishingIsSound` joins
`NotPublishedIsTrue` and the limits.

Of the data sources, `OfferInv`: by step, what is left to do and with what (`Placed`);
a data source the org lacks is named, skipped, or has its turn to come, unless their
file did not load (`Mentioned`);
what works is the token that was made (`TokenKnown`); the session's account is the one
named, unless it was switched beside it (`AccountNamed`). `EndIsAlwaysTold` and
`OfferDoesAsAgreed` follow. A database's name is the least number free, which exists
by well-foundedness (`LeastOf`).

**QueryRunProofs.** Of a query, `QueryInv`, by what it relates: the step and what was
read (`Phased`, `Bounded`); what was read and what was kept or sent of it, in order and
without a gap (`RowsKept`, `RowsSent`); the events of a stream, their order, their
number and the step that wrote each (`Framed`, `Once`, `Reached`); what the observer
was told (`Observed`). The summary's row count, and so that a stream holds all of an
answer, is from `RowsSent` with an empty batch. The ping between any two steps, the
timeout and the client that leaves change none of it but `out` and `ctx`.

Of the sidecars, `SidecarsInv`: what a run started has its socket's directory and is at
or before the one it is at (`Behind`), a file is open only to a run that writes
(`Opened`), and a run no other extracts beside finds in each file what it wrote
(`Apart`). `RunsWholeAlone` is the action property: what such a run executes is whole,
whatever a killed one left under the names that it uses.

**AppServeProofs.** `LiveInv`: `CountedRight` (`counted` is the number of streams
between `listening` and `unlistening`, and a watcher runs only while there is one)
and `ClosedRight` (a closed channel is no subscriber's). Hence no send on a closed
channel, for any streams, buffer and changes. (`Close` is registered once, at the
server's shutdown, and has no second call to model.)

`ReportsInv` says of a path's windows that they begin a minute apart
(`WindowsApart`), that each logs at most `PerMinute`, its first at its beginning
(`LoggedInWindows`), and that only the path's own has drops untold, with a timer
(`OthersAreOver`, `DropsAreTimed`, `DropsAreCounted`). A minute meets two windows at
most, and where it meets two it holds the second's reports and not the first's first:
`RateKept`, by counting the pairs of a window and a place in it.

The query's `QueryInv` is of the bridge: a call's message is in one of the two queues
or its work at the host, once (`OnceOf`); one awaited is somewhere and uncancelled, and
one given up that has still to end has its cancel behind it (`AwaitedOf`). The rest
is of the page: while more pages are asked for only of what is shown, the one call
awaited is the query's own, and for the next page of what it shows (`Apt`).

**CliProofs.** `ConsoleInv`: the language in effect is what the mode and the session's
flags give, but after a refused line (`InEffect`); the server that a session started
last is the one it stops, and each it started before has stopped or is `unfound`
(`Owns`); every line in the history, or read and still to be written back, keeps its
distance from the next (`KeepsIn`: the numbers of entries increase by one at least),
so that the last `n` of them hold the last `n` entries, and whichever console cuts the
file back leaves the last entries in it (`HistoryIs`).

`SignInInv`: each picker's choices, by the command that opened it (`PickersOffer`); which
command can be where (`GoesOn`); where a grant that lives can be (`GrantIsKnown`: not
before the exchange, and not where the login could start again). `UpFrom`, the search
for the nearest config, is a recursive function: `UpFromHolds` exhibits the function
that maps a folder to the config of its nearest stop and shows that it satisfies the
definition, and `UpFromIsUp` that the definition has no other solution, by the least
folder where two would differ. `SignInConstants` asks that an org is not one of the
words of a picker or of a config, as an address is not.

`SetupInv` is of a setup's or a check's run by where it is: what the steps left of an
agent's have done (`StepsKnown`), what was done for the agents no longer left
(`DoneFor`), what AGENTS.md and the record say by then (`NotesAre`, `RecordIs`), and
what the report says of all of it (`SetupReported`, `CheckReported`), each unless
someone changed a plugin by hand, or a list was not had; a later release takes nothing
from it, as what was installed is compared with the latest as the run began. `StreakIs`
is of the failures' file: while no two commands failed at once, it holds the streak
there was.

**Only model-checked.** Liveness, which the prover does not handle: that a Stop, a
publish, a start or a query ends, that a change is sent, that the latest release is
known. `Pretty` and `Inlining`, whose operators are recursive, as the code's functions
are: what a value's nesting comes to, or a schema's, is by induction over data.

## Where the code and its documents disagree

Where a comment, a doc or a test says what the code does not do, the property
states what the code does, with the exception as part of it, so that what is beyond
the exception is still checked. `PROJECT.json` quotes each line and says how to
reach it. By part:

- **routine**: Stop, then Start, then a Stop whose context has ended calls a nil
  `cancelDrain`. One late run per routine is possible, when its timer fires as Stop begins.
- **cliauth, auth**: a login that failed and was revoked may stay usable after two
  failed syncs. A logout that finds no login reports it removed, though a loss of power
  may bring back what an earlier one failed to sync. A login canceled while it saves or
  revokes says only that it was canceled.
  Logout asks which login, whatever the repo's org is.
- **exports**: an export with no CSV record (`header: none`, no rows) may be swept by
  another process before its link expires; so may one being written, after a jump of the
  wall clock, or a suspend the monotonic clock does not count.
- **serve**: Shutdown's "full 5s" are not waited for: sidecars close under
  requests. A second server may start and serve. `removeRuntime` may remove a newer
  server's record. Two servers that write one `serve.json.tmp` can also leave half a
  record in `serve.json`, which `findServer` takes for no server.
- **console**: a server whose start was given up on, or that was not found when a later
  entry looked for one, outlives the session; after a line that sets the session's language
  and is refused by the mode, entries are read in one language and run in another; an entry
  appended while another console cuts the history is lost; a format given beside the
  session's other one is refused.
- **sidecars**: two runs that extract at once share one temporary name, and one may
  execute what the other still writes; a socket's directory outlives a failed
  start; a check that is held keeps `WaitReady` past its deadline.
- **publish**: what was published after the status was read is replaced unseen; an
  interrupted run says "not published" of what was. The token is revoked under a
  data source whose making was not answered; the upload goes to the account the CLI
  is in by then; DuckDB sources go unnamed when another is forbidden; none is named when
  `data_sources.yml` does not load; a partly made database goes unsaid when its check
  fails too.
- **query**: a stream's observer is told of success before its last batch is sent.
- **appserve, web**: a directory's changes before it is watched are not seen; a stream
  that subscribes after Close holds the shutdown, as does one whose client stalls; the
  minute across two windows may have nearly twice the reports. `fetchMore` makes an
  edited query count as run, and after a failed run appends a page twice; `abort` leaves
  a query executing.
- **update, agents**: a release may be announced twice when the latest goes back; the
  notice may print twice a day; a marker that lost its end costs the repo's own text.
  A CLI that fails to list is recorded as no plugins; a check asks for a setup that
  changes nothing; the hint's file has no lock.
- **the API's kit, inputs, pretty**: an interrupted core command exits as
  interrupted and prints another failure; the CLI alone starts sidecars before it
  validates; a panic in a stream leaves its pings' goroutine; an MCP call's failure is
  not on its line; a host's own codes are listed though not served; a string of spaces
  passes for a required arg; some violations name no flag; a list of objects with
  differing fields, or a null in a list, is misplaced or panics; a header wider than the
  column it heads is cut to passes the terminal's width; an export whose copy to a file
  breaks is told as anfra serve's failure, the CLI alone's too.

## Not modelled

- `internal/repo`, `home`, `repoconfig`, `datasource`, `anfra init`: paths, and YAML read
  or written once by one process.
- `internal/telemetry`, `logging`, `openapi`: output, but for what a request's one line
  says. The AML engine, canal-query and anfra-node themselves, which the repository
  does not hold: the models take any answer of theirs.
- Sessions of MCP, which are its SDK's, but for the tools one lists.
- In `pretty`, labels, styles and colours. Of an input, a Query Input's own refusals, its
  time zone and `limit:`, and export's of `--link`. In `web`, an answer that a handler of
  the host's refuses with an `AbortError` of its own (`endpoint.ts:103`): none does but at
  its signal's. In `web` also, the host's pipeline of plugins and
  its unmount, selections (an input as a control's is), exports, and the pages
  `appserve` draws.
- Of `serve`, routes, headers and addresses. What a command computes.
- The lengths of waits, but for the backoff's: any timer may fire at any time, except
  where a bound between two of them is what the code relies on (an export's timeout
  and a link's life; the idle timeout and two statements; a minute's reports; ten
  minutes and a cache's rewrite).
- Windows: the lock and the renames are those of Unix. `scripts`: build tools.

## What would come next

- Proofs for what `Pretty` decides before it recurses: the choice of a layout by width, a
  grid's columns, the steps of a timing.
- Abstract specifications: a login as one atomic register per organization, which
  `Credentials` implements while nothing fails; a link store, which `Exports`
  implements for one process; a lease, which `serve.json` falls short of as shown.
- `QueryRun` composed with `Serve` for the drain, and with `Exports` for its file.
