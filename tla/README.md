# A TLA+ verification of Elsewindow

Elsewindow shows a remote application's windows on the local desktop. One
invocation opens an owned SSH connection, starts an Xpra server with the
application on the other side, attaches a local Xpra client to it and takes
everything down again. With `--persistent` the remote side is a systemd user
service that outlives the connection and can be attached to again.

This directory holds TLA+ models of the parts of Elsewindow where concurrency,
failure and ordering decide whether it is correct, TLC runs on small instances,
and proofs, checked by TLAPS, that hold for every size of the instance. Source
paths below are relative to the repository (`PROJECT.json` prefixes them with
`src/`); its `map` names for every definition the lines it models.

Contents: [inventory](#inventory), [models](#the-models),
[runs](#what-the-runs-check), [findings](#findings), [proofs](#what-is-proved),
[limits](#what-is-only-model-checked-and-what-is-not-modelled),
[plan](#plan), [how to run](#how-to-run).

## Inventory

| part | state it keeps | operations | meets | what is hard | what makes it correct |
|---|---|---|---|---|---|
| persistent agent, `elsewindow/_persistent_agent.py` | per session key: a flock, a record file, a transient systemd unit; in the worker: a copy of the record, Xpra | helper processes over SSH: `probe`, `enable-linger`, `identify`, `ensure`, `status`, `ordinary-fallback`; the unit's main process: `serve` | the user manager (start, inspect, stop), Xpra, the client that calls the helpers | any helper or worker may be killed anywhere; start requests that succeed after their caller gave up; a flock shared by the caller and the worker it starts | one Xpra per key; the record describes the launch that runs; nobody is told a session ended that lives, or handed another's session |
| persistent client, `elsewindow/persistent.py` | identity and record of the service it observes | prepare (linger consent), identify, start, refresh, wait | helpers through the SSH mux, the terminal, the session | stale probes; abandoned helpers that still write; answers about a successor launch | it watches the launch it asked for, says "over" only when it is, and allows an ordinary session only where no persistent one is |
| session lifecycle, `elsewindow/session.py`, `cli.py` | SSH master, log channels, remote process or service, local client and its drains, deferred journal | `run()` with its finally block, `_wait_lifecycle`, `_run_with_signals` | everything below | a failure, timeout, cancellation or exit at every `await`, in the clean-up too | what was acquired is released in order, once; the exit code tells the truth; it always ends |
| application launch, `elsewindow/desktop.py` | `application.lock` and its byte, portal services, the application | `application_lock`, `application_main`, `DesktopServices` start, check, close | Xpra (which may run the command twice), the private bus, the application | concurrent duplicates, kills between two writes, signals during a spawn, hanging helpers | one application per scope; nothing left behind; optional services stay optional |
| owned session bus, `elsewindow/session_bus.py` | a private directory and `dbus-daemon` | start, start_optional, close | remote relay, the application's scope | every step of start and close may fail, and so may the clean-up of a failed start | its directory outlives the command, and both are gone at the end |
| live log transport, `elsewindow/log_transport.py` | per observer: a socket, a bounded queue, counts of what was dropped; per session: a directory | `Publisher.emit`, `relay_main`, `RemoteLogChannel` start, read, close | every remote process that logs, the SSH channel, other observers | nobody may wait for anybody; three queues that overflow; a shared directory without a lock | bounded memory; losses are reported; an observer's end is not held up, and does not disturb others |
| journal, `elsewindow/journal.py` | deferred records, journald socket | `Journal.emit`, `flush`, close | journald | failures reported through what failed | bounded; every deferred record is emitted or counted |
| ordinary remote relay, `elsewindow/journal.py` | two line buffers, two output queues, three deadlines | `remote_main`, `XpraLogStream`, `ForwardedOutput` | Xpra's pipes, SSH output, the session bus, the journal, the owner's signals | slow or absent readers, inherited pipes, commands that ignore signals: drained against deadlines | the owner's stop is never held up; what is lost is counted; the journal gets everything |
| local Xpra runtime, `elsewindow/xpra_runtime.py` | a Python environment directory, its ownership record, a lock | `prepare`, `prepared_launcher` | other preparations and running clients | a crash or a failure inside the swap of two directories | an environment in place is complete and owned |
| Xpra release installer, `tools/install_xpra_release.py` | package database, staging directories | `install_latest_release` | apt, GitHub, the user | inventory that changes after consent; failure after the purge | only what was agreed to is purged; a failed transaction keeps its payload |
| image preparation, `tools/prepare_xpra_images.py`, `write_archive` of `tools/container_payload.py` | Podman's tags and containers, a descriptor file and its temporary name | `prepare`, `prepare_one`, `verify_image`, `stream_context`, `publish` | Podman, the release service, editors, other preparations | inputs that change between digest, freeze and read; no lock between processes | the descriptor names what was run and found sound; a context is what was frozen |
| configuration, profiles, machine identity, command lines | none that changes | validation, text in and text out | | parsers | unit-tested |
| distributions, site, CI | none that outlives a run | sequential tools | | | not modelled |

How they interact: `session.py` runs everything local on one event loop. It
starts the SSH master, asks `persistent.py` to call the helpers of
`_persistent_agent.py` through it (or starts `journal.remote_main` under
ssh_wrapper's `OwnedRemoteProcess`), and subscribes to the remote logs through a
`RemoteLogChannel`, whose other end is a `relay_main` process. The worker
(`serve`) or `remote_main` starts Xpra, which runs `application_main` as its
child. `Publisher` objects in those remote processes feed `relay_main`. The installer
and the image tool are programs of their own; they share the machine with other
programs and with themselves.

The hazards, each at its line with the properties that cover it, are listed
under `hazards` in `PROJECT.json`.

## The models

| module | models | abstract specification | proofs |
|---|---|---|---|
| `PersistentAgent` | the helpers, the workers, the flock, the record, the unit | `PersistentService` | `PersistentProofs` |
| `SessionLifecycle` | one invocation: `run()`, its clean-up, `_run_with_signals` | | `SessionLifecycleProofs` |
| `ApplicationLaunch` | the launch commands of one scope | `ApplicationOnce` | `ApplicationLaunchProofs` |
| `LogStream` | the records of one observer from publisher to terminal | | `LogTransportProofs` |
| `LogSubscription` | the observers of one session and their directory | | `LogTransportProofs` |
| `XpraRuntime` | preparations of the local Xpra environment | | `XpraRuntimeProofs` |
| `RemoteRelay` | `remote_main` with its session bus, pipes, queues and deadlines | | `RemoteRelayProofs` |
| `PersistentClient` | the clients of `--persistent`, composed with `PersistentAgent` | implements `PersistentAgent`, hence `PersistentService` | `PersistentProofs` |
| `ReleaseInstall` | the installer's transaction beside other package managers | | `ReleaseInstallProofs` |
| `ImagePreparation` | processes that prepare the test images beside each other | | `ImagePreparationProofs` |

`MCPersistentAgent` adds the symmetry set for TLC; the other modules need no
MC module, their configurations give the constants directly.

### PersistentAgent

*Correspondence.* One value of `Agents` is a helper process: `pc` says where it
is in `locked`, `ensure`, `status` or `ordinary_fallback`; `rec` and `seen` are
what it read from the record file and from `systemctl show`. A `Tokens` value is
one launch: `job` is its start request on the way to the manager, `worker` the
place of `serve`, `mem` the worker's in-memory record, `xpra` and `leftover` its
processes. `record` is the file, `lock` the flock, `unit` what the manager has
under the session's name. One action is what a process does between two points
where another can interfere; the lock's holder still takes one action per read,
command or write, because the manager, Xpra and kills respect no lock.

*Environment.* The manager accepts a request late or never, refuses it, fails to
execute, stops the unit at any time, reaps the main process and kills what is left
after `TimeoutStopSec`; with `--collect` and `KillMode=control-group` the name is
free when the cgroup is empty. Helpers are killed at any point (a lost SSH
connection), workers die at any point, Xpra exits or closes its pipes, and its
children may outlive it.

*Abstraction.* A request's application, environment and settings are one value
`Requests`: the code compares them all before it resumes. The record's fields are
the token, the request, and whether the worker's identity and the display are in
it. `verify_unit` is `Verified`: token and start time of a main process that has
not been reaped.

*Refinement.* `PersistentService` says what the user relies on: Xpra servers of
one key never overlap, and a superseded launch never starts one.

### SessionLifecycle

*Correspondence.* `pc` is the `await` at which `run()` is suspended. Everything
between two suspensions is one action, since nothing else runs on the loop
meanwhile. `RunNext` are the continuations: success, failure, timeout; `CancelTo`
is where a cancellation delivered at that suspension may resume: a command that runs
is stopped (`_terminate_local`), a wait gathers what it waited for, a stop that had
begun is given up before its SIGKILL, and the finally block is left for good. `Drains`
are the awaits of a command's outputs, which have no deadline. `stopStatus` is the
gather of `_wait_lifecycle` while the observer's status command is being stopped; a
cancellation is passed on to that stop. `main` is `_run_with_signals`, which waits for
the task and for the first signal and then cancels, once. `cut` and `clash` are history:
the cancellation met a clean-up, or the stop of a command, that had begun, or the close of
a channel that had not answered.

*Environment.* The SSH master is lost, the remote and the client end with or
without success, the service ends, and signals arrive, at any time. A process of a local
command may leave its group with an output that `run()` reads (`held`, `Escapes`), and
close it some time or never (`HolderEnds`).

### ApplicationLaunch

*Correspondence.* A launcher is a run of `application_main`. `LockOpens` to
`LockMarked` are the system calls of `application_lock` (open, flock, fstat, write);
`PortalStarts`, `PortalReady`, `PortalsFail` the start of the three services, one
at a time, with the clean-up of those that were started; `ApplicationSpawned` and
`ApplicationAssigned` are apart because a signal in between finds no `process` to
pass itself on to. `Signal` is the handler; before it is installed a signal kills
(`LauncherKilled`, which also is SIGKILL at any time).

*Abstraction.* The byte in `application.lock` is `spent`; the private bus is
`scope`, the directory that holds the lock file.

*Refinement.* `ApplicationOnce`: the application of a scope starts at most once.

### LogStream and LogSubscription

*Correspondence.* `LogStream` has a place for a frame wherever the code has one:
`socket` (the kernel's datagram queue), `pending` (the relay's), `pipe` (the SSH
channel). `EmitBegins`, `EmitGap`, `EmitRecord` are one `Publisher.emit`, whose
sends never block; `missing` is its count for this observer, `dropped` the
relay's. The `Relay...` actions are the parts of one turn of the relay's loop.
`LogSubscription` has one action per system call of a relay that arrives or
leaves, since no lock orders them.

*Abstraction.* Every frame takes one unit, `MAX_FRAME` bytes; a record is `0`, a
gap its number. Time is `stopping`: not, just now, past the 0.2 s grace, past 2 s.

### XpraRuntime

*Correspondence.* A preparation is a run of `prepare`. `directory` is the
environment's place, `stage` and `backup` its own directories next to it, `holder`
the flock. One action is one rename, one removal, or what lies between two of them;
`moved` is the point after `directory.rename(backup)` at which the inner `try` has
not been entered. `Unwinds` is an exception, or the return, on its way through the
finally block (`dropStage`, `dropBackup`), with `outcome` already decided. Every
step may fail, be interrupted or be killed.

*Abstraction.* An environment is the inputs it was made from (`Versions`); the
validation compares them with those of the release, so `directory = want[p]` is
`prepared_launcher`'s verdict. `Stale` is owned and valid for nobody, `Foreign` has
no ownership record, `Partial` is unfinished.

*Environment.* Upgrades of the system invalidate what is in place, the user makes a
directory there, at any time; neither takes the lock.

### RemoteRelay

*Correspondence.* `pc` is where `remote_main` is: the start of the bus (`mkdir`,
`daemon`, `ready` and their undoing), one turn of the loop (`loop`, `select`, `check`,
`wait`), the finally block in its order (`reap`, `stopDaemon`, `removeDirectory`,
`finish`, `drain`, `await`, `report`). `read`, `held` and `emitted` are what
`XpraLogStream` has of a stream; a member of `forwarding` is one destination of
`ForwardedOutput`: its queue, its count of dropped bytes, and the SSH channel behind
it. `Flushed` has the three results of a flush: some bytes written, the reader gone,
the reader gone within a call that had written. `stopping` and `noticed` are
`stopping_at` and `exited_at`; `over` holds the deadlines that have passed.

*Environment.* The command writes, exits, ignores its signal, and leaves processes
behind that hold its pipes for ever. The client reads late or goes. The owner signals
at any moment; further signals change nothing.

*Abstraction.* A unit of output is a number and stands for any number of bytes that
are treated alike. `Journal` takes every unit that reaches it. The group's final
SIGKILL by the owner, which may leave the bus directory, is not a step here: it
belongs to whom the relay has disappointed.

### PersistentClient

*Correspondence.* A client's helper is an agent of `PersistentAgent`; `phase` is where
the client is between and during those calls, `watched` is `PersistentSession.record`,
`machine` is what its last probe saw. `ClientStep` runs helpers, reads their answers
and gives up on them; a helper it gave up on goes on as a helper does, and the client
runs again only when it has ended (one SSH mux serves one helper at a time). `Probed`
occurs twice: after `enable-linger` the machine is probed again.

*Environment.* All of `PersistentAgent`'s, other people's helpers, and a machine whose
manager or linger setting changes between a probe and what follows from it.

*Composition.* Every step of the composition is a step of `PersistentAgent` or leaves
its variables alone (`ClientImplementsAgent`), so its invariants, and
`PersistentService`, hold here too.

*Abstraction.* One key per module: a client whose identity changes between `identify`
and `ensure` (another `PATH`, another machine-id) is not modelled. The attachment is
`SessionLifecycle`'s.

### ReleaseInstall

*Correspondence.* One action per command of `install_latest_release`, in its order:
detection, inventory and consent, sudo, resolution, the stage, download, validation,
extraction, metadata, the root-owned copy, refresh and simulation, the recheck, then
purge, proof of absence, installation, verification. A failure goes to `abandon` before
the transaction has started and to `diagnose` after (`Handler`), as the two `except`
blocks do; `record`, `report`, `cleanup` and `clear` are what follows. The fields of
`run[i]` are the function's locals; `changed`, `verified` and `disturbed` are history.

*Environment.* `Foreign` changes the package database, `Publishes` a release, at any
time; APT may fail halfway and leave packages half configured (`Broken`) or removed
(`Residue`); the process may stop anywhere. A `KeyboardInterrupt` is no `Exception`:
it is a stop.

*Abstraction.* A release is a number, a package's state the release it came from, an
archive the one thing that may be wrong with it (`Flaws`). That each check finds the
flaw it looks for is the model's assumption about the parsers.

### ImagePreparation

*Correspondence.* `pc` is the place of a process in `prepare`: per image it reads the
digest of the inputs, looks for a tag, freezes, checks, reads and rechecks the inputs
file by file (`write_archive`), builds, inspects, verifies in a container and removes
it; then `publish` opens, writes, renames and unlinks one temporary name.
`failing` is an exception on its way through a finally block. The result of `podman rm` is
ignored, so a container may stay behind a verification that passed, and looking for or
removing the temporary file may raise.

*Environment.* Editors change inputs at any time, the release behind the pinned name
changes, a process is killed; Podman and the file system fail at any step.

*Abstraction.* An edit is a counter per file, seen by `fstat` however soon it follows
another. Each process prepares once. What Podman builds is sound or not. The content
of the descriptor matters only once it is in place.

## What the runs check

| run | instance | states | question and result |
|---|---|---|---|
| `agent` | 2 helpers, 2 requests, 2 launches | 386 777 | safety of the persistent service and its refinement of `PersistentService`: holds |
| `client` | a client, a rival's helper, 2 requests, 1 launch | 674 847 | the client watches its own launch, falls back only where none is, starts what a probe allowed: holds |
| `client_fair` | a client, 2 launches | 207 034 | success is the truth; calls answer, dead services go away, the client notices: holds |
| `session` | everything of one invocation | 5 124 | releases, order, exit code, and an end unless an output is held for ever: holds |
| `session_clash` | the same | | a signal before the clean-up is followed by a whole one: violated |
| `launch` | 2 launch commands | 12 020 | one application, nothing left, a signal ends it: holds |
| `remote_relay` | 2 streams of 2 and 1 units, every queue and pipe of 1 or 2 | 960 286 | in order, losses counted, the journal complete, nothing left, it ends: holds |
| `log_stream` | 2 publishers, queues of 2, 1 and 1 frames, 4 records | 328 703 | complete when drained, losses counted, it ends: holds |
| `log_subscription` | 3 observers, limit 2 | 27 592 | reachable while subscribed, nothing remains, decided: holds |
| `runtime` | 2 preparations of 2 releases | 191 296 | complete, previous environment kept, what is reported is in place: holds |
| `release_install` | 1 invocation, 2 packages, 2 releases, 2 changes by others | 913 157 | only what was confirmed is purged, a verified copy until the end, success is exact: holds |
| `images` | 2 processes, 2 files, 1 edit, 2 releases, 1 killed | 3 070 298 | the descriptor is proven, a context is what was frozen, who succeeds or is published leaves nothing that refuses the next: holds |

The runs check the properties that a change of the code could break; the type
invariants and the invariants that only serve the proofs (`IInv`) are theorems and were
model-checked before they were proved.

### Bounds, and why they are enough

- *Launches* (`MaxToken = 2`): the properties relate a launch to its predecessor;
  two are enough for a late worker of one to meet the record, the unit and the
  worker of the next. Two helpers hold and want the lock; two requests differ. The
  proofs remove all three bounds. Liveness is checked with one client and two
  launches: the lock is then contended by its helper and two workers.
- *Clients*: `client` has a client and a rival's helper that wants something else, over
  one launch; `client_fair` has no rival but two launches, so the client meets its
  first launch's remains. Both at once (a client, a rival, 2 requests, 2 launches) has
  5.1 million states with symmetry and holds; it is too long for a routine run. The
  proofs cover any number of each.
- *Remote relay*: queues and pipes of one or two units are empty, partly full and full;
  an unfinished line grows to its limit; the relay's own message finds a full queue. The
  second stream has one unit, enough to hold up the loop beside the first. The proofs
  hold for every size.
- *Installer*: one invocation, since others act on it only through the database, which
  `Foreign` changes in every way an invocation could. One required and one other
  package tell the set to purge from the set to install; two releases tell the newest
  from a named one. The proofs hold for any number of each, concurrent ones included.
- *Images*: two processes race for tags, containers and the temporary name; two
  inputs let one change before and one after it was read; one edit, one new release and
  one killed process are each enough for every window between two of the steps.
- *Session*: there is no bound. The model has one invocation, two channels and
  finitely many suspensions, so the run is exhaustive. Only the first signal resolves
  the future that `_run_with_signals` waits for; later ones find it resolved and do
  nothing (`cli.py`), so the model has one.
- *Launchers*: one has the lock, another is late or concurrent. The proofs hold
  for any number.
- *Log stream*: `MaxQueue = 2` makes a queue empty, half full and full (8 in the
  code), `MaxGap = 2` lets a count saturate (2^32 in the code); 4 records overflow
  every place at once. The proofs hold for every size.
- *Preparations*: one waits for the other and then meets what it left; two releases
  want the same environment or different ones. The proofs hold for any number.
- *Subscriptions*: one relay comes, one goes, a third is there; with a limit of 2
  the limit is met. A relay may subscribe again, without bound.

`CHECK_DEADLOCK FALSE` is used where the system stops: every launcher is gone, every
record published and the observer gone, the relay done, or every preparation,
installation or image ended.

### Fairness

Fairness is assumed of running code whose waits have deadlines, never of users,
applications or networks.

- `PersistentAgent`: a helper and a worker go on (every command has a timeout, the
  flock is polled against a deadline); the manager handles requests, reaps, kills
  after `TimeoutStopSec` and collects. Nobody has to stop the unit or to exit.
- `SessionLifecycle`: the event loop runs a task that can go on; commands, starts
  and stops have timeouts. The reading of outputs has none (`session.py:600`, `948`): it
  goes on when nobody holds them, and nothing is assumed of who does, so the liveness
  properties except the wait for a holder that never ends. Not assumed at `prepare`,
  where a user may never answer the linger prompt, and in the lifecycle wait, which
  lasts as long as the session.
- `ApplicationLaunch`: a launcher goes on, and time passes. Nothing is assumed of
  the application or of the portal services, which may ignore SIGTERM.
- `LogStream`: the relay's loop turns (its select waits 20 ms) and time passes. The
  reader may never read and the publishers may never stop.
- `LogSubscription`: a relay goes on between system calls.
- `RemoteRelay`: the relay's own steps (its selects and waits have timeouts, SIGKILL
  ends what ignores SIGTERM) and the clock. The command need not write, close or exit,
  the client need not read, the owner need not signal.
- `PersistentClient`: as `PersistentAgent`, and the client takes the steps that are its
  own: it probes, asks, and reads a fallback's answer. The user need not consent,
  attach or leave, and other helpers do as they like.
- `XpraRuntime`, `ReleaseInstall` and `ImagePreparation` assume none: all their
  properties are about safety, and any process may stop for good.

### Properties worth reading

- `OwnerIsRecorded`: whatever is killed, late or lost, a launch that has, or is about
  to have, an Xpra is the one in the record file. This is what the worker's second
  look at the record under the flock is for.
- `EndedIsFinal`: the answer "ended" makes a client clean up; no later answer may
  contradict it, whichever helper gives it.
- `WatchesItsOwn`, `SeenToTheEnd`, `OrdinaryIsAlone`: the same, seen by the client whose
  calls time out while their helpers go on, and whose rivals replace the record.
- `ReleasesOwned`, `ExitTellsTruth`: after any sequence of failures and signals, except
  what `session_clash` shows and what the findings list under clean-up and stops. `ExitTellsTruth` also
  says that an error that was raised is shown.
- `ImplementsOnce`: includes the window between flock and write, and a launcher killed
  in it.
- `DrainedIsComplete`: the relay's loop ends on an empty queue without looking at
  its count; the property holds because an empty queue always has room for the gap.
- `LossIsCounted` of `LogStream`: two kinds of counters, three queues and the gap frames
  under way never claim more than was lost, and a loss is always counted where it can
  still be reported.
- `LossIsCounted` of `RemoteRelay`: a partial write, a reader that goes within a flush
  and a queue given up at its deadline keep the books balanced.
- `NeverStranded`, `RecoveryIsThere`: relate every failure after the purge, in whatever
  command, to what is on disk and to where the message says it is.
- `AcceptedIsFrozen`: three looks at each input of a build context (frozen, opened,
  checked again when all were streamed) are enough, though a file may be torn while it
  is read.

## Findings

*Closing a log channel twice* (`session_clash`, `elsewindow/log_transport.py:358`).
A cancelled close leaves its reader behind; the second close raises, the SSH master is
not closed and the journal is not flushed, against `doc/security.md:76-78`. The steps
were repeated with asyncio, which raises.

*Interrupting the swap of the Xpra environment* (`elsewindow/xpra_runtime.py:443`). Ctrl-C
between `directory.rename(backup)` and the `try` that would undo it leaves the previous
environment to the finally block, which deletes it, against `doc/security.md:140-141`
("preserves the previous owned environment on failure"). Repeated with the real function.
It has no run of its own: `KeepsEnvironment`, which `runtime` checks and the proofs
have, excepts exactly this interrupt (outcome `cut`) and the rollback's own failures;
`PreservesEnvironment` is the promise with the interrupt, and TLC finds these steps when it
is checked in its place.

Seen while modelling, without a run, since no text of the repository promises
otherwise:

- *Persistent fallback.* The record is unlinked before the manager has killed the rest
  of the cgroup; an ordinary session may start beside a process of the application that
  outlived its Xpra (`FallbackNeverBesideApplication` does not hold;
  `FallbackNeverDuplicates` is proved).
- *`ensure`* reports its own service that is stopping as an identity mismatch, since it
  compares unit and record first.
- *Clean-up.* Nothing shields `run()`'s finally block from the first signal when it runs
  for another reason; the signal ends it (`CleansEveryProcess` does not hold).
- *Stops.* A signal during the stop of a local probe whose time was up (`session.py:593-600`)
  ends that stop before its SIGKILL, and the probe's outputs are then read without a
  deadline. A signal while the observer of a persistent session stops its status command
  is passed on by the gather (`session.py:1025-1029`) and leaves that command behind.
- *Outputs.* The client's outputs are drained without a deadline (`session.py:948`): a
  process outside the client's group that has them open keeps `run()` from ending; the
  first signal would end that wait, but if it began the clean-up, no other does.
- *Log stream.* A gap that meets a full queue counts as one record, so the total that is
  reported may be too small, never too large (`CountIsExact` does not hold with
  `MaxGap = 8` and 9 records of one publisher; repeated with `relay_main`, a gap of 7
  came out as 1).
- *Subscriptions.* `lstat` and `iterdir` meet the same removal of the directory that
  `bind` retries, and end the arriving relay; a killed relay's socket file is never
  removed, and after 16 of them nobody can subscribe; relays that count before any of
  them binds exceed that limit.
- *Remote relay.* Output still in a pipe when a deadline passes (1 s after a signal, 5 s
  after the exit) is neither forwarded nor counted; a signal during the last drain waits
  for that drain; an error from the bus's close skips the end of the log.
- *Xpra runtime.* A directory that the user makes during a build is moved aside and
  deleted.
- *Installer.* A stage whose `chmod` fails stays behind empty
  (`tools/install_xpra_release.py:1784-1790`), and `rmtree(ignore_errors=True)` may leave
  one without a word (1891-1894); only success means that none is left
  (`SuccessLeavesNothing`).
- *Images.* The digest in a tag is read before the inputs are frozen, so an edit in
  between gives a sound image a stale tag; three processes can lose the race for the
  temporary name in a way two cannot; Ctrl-C between `os.open` and the `try` of
  `publish` leaves the temporary file. The result of `podman rm` is not looked at
  (`tools/prepare_xpra_images.py:411-420`), and `exists` or `unlink` of the temporary may
  raise (521-522): the container that stays refuses this publication and every later
  preparation, the file every later publication, until somebody removes it.
- *Documentation.* `doc/xpra.md:152-158` allows for an application that is invoked
  twice, which `application_lock` prevents.

## What is proved

Each proof module has the shape `Init => IInv`, `IInv /\ [Next]_vars => IInv'`, then
the properties. Each `IInv` was checked by TLC on the instance of its run first.

- **`PersistentProofs`**, the agent, for any sets of helpers and requests and any number of
  launches. `IInv` has these parts. `LockInv`: the flock's holder is who is
  inside `with locked`. `RecordInv`: the file describes the newest launch. `JobInv`
  and `CgroupInv`: a launch's worker and processes exist only after its start request
  was executed, and inside the unit of that name. `MemInv`: an owner's copy is
  of its own launch. `OwnerInv`: an owner is the newest launch and recorded.
  `ReplaceInv`: a helper about to replace the record saw no unit under the lock, so
  nobody owns the session, and, since claiming needs the lock, nobody comes to.
  `AgentInv`, `ClientInv`, `VerdictInv`: what a helper read under the lock stays
  decisive while it holds it. `OwnerIsRecorded` alone is not inductive: that the record
  is not replaced under an owner needs `ReplaceInv`, which needs `CgroupInv` and
  `LockInv`. From `IInv` follow `TypeCorrect`, `OwnerRecorded`, `FallbackIsSafe`,
  `HandsOutRecorded`, `EndedStaysEnded`, `OwnRecordOnly` and `Refinement`.
- **`ApplicationLaunchProofs`**, for any set of launchers. The parts are `HolderInv`
  (only the flock's holder is past the lock), `SpentInv` (an application implies the
  byte), `FreshInv` (who is about to write the byte saw none and nobody has launched)
  and `OwnInv` (what a launcher still has where it is). They give `LaunchedOnce`,
  `NothingLeft` and `Refinement`.
- **`LogTransportProofs`**, the stream, for every size of the queues and any finite set
  of publishers. `CountBehindQueue`: while the relay looks at its queue after trying to
  report, a count that is left implies a queue that is not empty. It gives
  `MemoryIsBounded` and `DrainReportsEverything`. `LossCounted` is about sums over
  sequences and over publishers, which a recursive definition would put out of the
  provers' reach; `Total` is therefore the number of units under a function's graph, a
  cardinality. From the library's facts about finite sets follow that one addend can be
  split off, that the order does not matter, and that a frame put between two stretches
  adds what it says (`TotalSplit`, `TotalReindex`, `FrameInserted`). `OnTheWay` puts the
  three queues in a row, so a write of the relay leaves it as it is, and every other step
  inserts or removes one frame. `LossIsCounted` is inductive with two additions: only the
  relay queues a greeting (dropped, it would count as a lost record), and a publisher
  about to send its count has one.
- **`LogTransportProofs`**, the observers, for any set of them and any limit.
  `SocketInv`: a socket implies its directory, and belongs to a relay that is bound or
  died. `RemoverInv`: who is about to remove the directory accounts for its being there.
  They give `Reachable` and `CleanDeparture`.
- **`SessionLifecycleProofs`**. `ReleaseInv` says what the finally block has released at
  each of its suspensions; every step relies on all the earlier ones. `CutInv`: what cut a
  clean-up short was the one cancellation, after which nothing raises an error any more.
  `StartInv`: processes are started one after the other, so none is started twice and
  forgotten. `ExitInv`: what `run()` is about to return and what the exit code is made of.
  They give `EverythingReleased` and `ExitIsTrue`.
- **`ImagePreparationProofs`**, for any set of processes, files, edits and releases.
  `SoundSoFar` and `PairInv`: the images a process has proved, in their order, all sound
  but for the one whose container is being looked at. `FileInv`: who wrote the temporary
  file or the descriptor has proved its pair, and does not change it any more; this, not
  a lock, is what makes the exchange of the file under one shared name harmless.
  `StreamInv`: an input that is not as it was frozen differs from what is in the tree,
  before the second check reaches it. `LeftInv`: who has come to publish has no container
  left, whatever `podman rm` did, since `assert_no_runtime` looked for one. They give
  `PublishedIsProven`, `ContextIsFrozen` and `PublishersLeaveNothing`.
- **`XpraRuntimeProofs`**, for any sets of preparations and releases. `HolderInv`: the
  flock's holder is who is inside, so what is in place changes for a preparation only by
  its own steps and the environment's. `StageInv`: a stage is finished before it may be
  moved. `PreviousInv` and `NewInv` say where the previous and the new environment are at
  each point of the swap and the unwinding; `KeepsEnvironment` is about the last step
  only and needs them all. They give `Complete`, `NothingLeft`, `EnvironmentKept`,
  `ReadyInPlace` and `ForeignLeftAlone`.
- **`RemoteRelayProofs`**, for any streams, capacities and amounts of output. Lemmas say
  what a flush and a feed do to one queue. `OutputInv`: what was read is held or emitted.
  `ForwardInv`: what was fed is dropped, waits, is under way or was taken, and the sum is
  kept by every step; nothing waits at the end, and a loss was reported. `ScopeInv`: the
  command starts after the bus and is reaped before it. `OrderInv`: what was taken, is
  under way and waits is one increasing sequence that ends at the last unit read, or,
  once the loop was left, at the relay's own message. They give `MemoryIsBounded`,
  `OrderIsKept`,
  `LossIsReported`, `JournalIsComplete`, `EverythingIsReleased`, `DirectoryOutlivesCommand`
  and `NothingIsLostForNothing` (a unit is dropped only for a reader that is gone, a full
  queue or the passed deadline).
- **`PersistentProofs`**, the client, for any clients and rivals. `ClientIInv` is the
  agent's `IInv`, the types, `CopyInv` (an owner's copy has the request of the file),
  `PhaseInv` (what a client waits for is what its helper does, with its settings) and
  `WatchesItsOwn` itself. `Composition` reduces every step to a step of the agent, so the
  agent's step lemmas are used as they are. They give `ClientImplementsAgent`,
  `ClientImplementsService`, `ClientWatchesItsOwn`, `ClientsShareOne` (two clients that
  watch a living launch share it and wanted the same), `ClientSeesTheEnd`,
  `OrdinaryStaysAlone` and `PreparedStart`.
- **`ReleaseInstallProofs`**, for any concurrent invocations, packages and releases.
  `StageInv`: a verified copy exists where it may be needed, and a root-owned one is
  known. `FlawInv`: each check that
  was passed excludes its flaws. `PhaseInv`: nothing changes before the transaction has
  started. `ConsentInv`: what will be purged is what was confirmed. `EndInv`: the
  properties of one invocation, for which the others serve. `ExactInv`: what was verified
  holds until somebody else changes it; it is the only part in which another invocation
  matters. They give the eight theorems listed in `PROJECT.json`.

Assumptions: those on the constants, named in the modules (`NoLauncher` is no
launcher, nobody is no preparer, the publishers are finitely many, sizes are naturals, the
relay's queue holds more than one frame).

## What is only model-checked, and what is not modelled

Only model-checked: the liveness properties (`StopEnds`, `SignalEnds`, `EndIsNoticed`,
`RelayEnds`, `SubscriptionEnds`, `EndCompletes`, `CallsAnswer`, `ServiceDrains`,
`NoticesTheEnd`): fairness is about `ENABLED`, which TLAPS does not do here. Every other
property of the passing runs is a theorem.

Not modelled, and why:

- the contents of text (command lines, probes, frames, records, labels, archives): the
  unit tests cover them and no property here depends on them; `command lines and
  negotiation`, `configuration, profiles and machine identity` and `entry points` have
  nothing else;
- `Journal`: one object of one thread whose bounds the unit tests have; `RemoteRelay` has
  only that a unit reaches it, `SessionLifecycle` only that it was flushed;
- `prepared_launcher` as a reader beside a swap; the extraction and merging of payloads;
  the distribution's builders and checkers; the site and CI: they run from start to end on
  files of their own; `containers/xpra/install-release.py`, the program that runs inside an
  image build and whose result is one verdict of `ImagePreparation`;
- ssh_wrapper, Xpra, Podman, APT, systemd and the kernel, except as the environments
  described above;
- the owner's SIGKILL of a relay's group; a publisher that sees more than 16 entries;
  an identity that changes between two calls of one client.

## Plan

In order of what can go wrong for a user:

1. `PersistentAgent`, its abstract service and proofs: done.
2. `SessionLifecycle` and proofs: done.
3. `ApplicationLaunch`, its abstract specification and proofs: done.
4. `LogStream`, `LogSubscription` and proofs: done.
5. `PersistentClient`, composed with `PersistentAgent`, and proofs: done.
6. `RemoteRelay` with the session bus, and proofs: done.
7. `XpraRuntime` and proofs: done.
8. `ReleaseInstall` and proofs: done.
9. `ImagePreparation` and proofs: done.

What is left, in the order of its worth: an abstract specification of the lossy stream
that an observer is promised, with `LogStream` and `RemoteRelay` as its implementations;
`prepared_launcher` as a reader of `XpraRuntime`; `Journal` with its deferred records, if
it gets a second thread.

All runs follow the same rule: two actors per role where they meet directly, a failure of
each kind at every step, no bound where the program has none.

## How to run

In this directory, with TLC and TLAPS installed:

    tlc -workers 2 -config MCPersistentAgent.cfg MCPersistentAgent
    tlc -workers 2 -config PersistentClient.cfg PersistentClient
    tlc -workers 2 -config PersistentClientFair.cfg PersistentClient
    tlc -workers 2 -config MCSessionLifecycle.cfg SessionLifecycle
    tlc -workers 2 -config MCSessionLifecycleSignal.cfg SessionLifecycle
    tlc -workers 2 -config ApplicationLaunch.cfg ApplicationLaunch
    tlc -workers 2 -config RemoteRelay.cfg RemoteRelay
    tlc -workers 2 -config LogStream.cfg LogStream
    tlc -workers 2 -config LogSubscription.cfg LogSubscription
    tlc -workers 2 -config XpraRuntime.cfg XpraRuntime
    tlc -workers 2 -config ReleaseInstall.cfg ReleaseInstall
    tlc -workers 2 -config ImagePreparation.cfg ImagePreparation
    tlapm PersistentProofs.tla

and likewise for the other proof modules; `PROJECT.json` lists all
runs with the result to expect. Definitions whose comment begins with "Mutant of" are
plausible errors of the code: with one of them in place of the definition it names, the
property listed with it under `mutants` is violated.
