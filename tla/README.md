# A verification of computer-use

TLA+ models of `amplifier-bundle-computer-use`, model-checked with TLC on
small instances and, for the properties that matter most, proved with TLAPS for
every instance. Paths are relative to the repository; `T/` stands for
`modules/tool-computer-use/amplifier_module_tool_computer_use/` and `H/` for
`modules/hook-computer-use/amplifier_module_hook_computer_use/`. `PROJECT.json`
maps every definition to the lines it stands for.

The bundle lets a model drive a desktop, local or behind ssh. Its own logic is
not the screenshots and clicks but what surrounds them: who may inject an event
while a human may be at the machine, who lets go of a button that was pressed,
which binding a call may still use, who owns a backend when a mount is
cancelled half-way, which agent process serves which consumer. These are
concurrent protocols between coroutines, worker threads, timers, signal
handlers, overlay callbacks, processes and a human, and they are what is
modelled.

## 1. The system

| Part | State | Operations | What is hard |
|---|---|---|---|
| Coexistence guard (`T/coexistence_guard.py`, `exclusion.py`, `pause.py`) | the latch `_halted`, pause, the operator presence override, the baseline of the monitor | `check_start_permission`, `before_event`, `after_event`, `target_clock_event`, `target_condition`, `accept_target_result` | checked before *every* event, while other sessions, the overlay thread and the deadman act between check and event |
| Durable halt and resume (`halt_state.py`, `resume_cli.py`, `scripts/resume_after_halt.py`) | one file per driven machine | `record_halt`, `load_halt`, `clear_halt`, `make_durable_halt_poll` | shared by processes; stale latches of sessions that live on |
| Presence monitor (`presence.py`, `target_clock.py`) | last credited injection, baseline, last sample | `sample`, `record_inject`, `_classify` | infers a human from one idle counter that the agent itself resets |
| Guarded write of `ComputerTool` (`T/__init__.py`) | the write in flight, notices | `_guard_write`, `_run`, `_sync_remote_announcement_state`, `_record_halt_result` | a halt must stop the text, release what is held and reach the disk, whichever exception carries it |
| Session of `ComputerTool` (`T/__init__.py`) | `_binding`, approvals, the step in flight, the band token | `execute`, batches, `retarget`, cleanup, approval by the hook | a binding swapped or closed under a worker that outlives its cancelled call |
| `DesktopTool` (`T/__init__.py`) | none of its own | focus, clipboard, monitor, retarget | errors of guarded writes; its band and its place beside the session's calls |
| Observed control (`observed_control.py`) | remembered observations, the proof of an act | `observe`, `act` | the screen changes between the selection of an input and the input |
| Activation and mount (`T/__init__.py`) | the tools served, the stub's lock, who holds the backend | `mount`, `_mount_backend`, `ComputerUseUnavailableTool.activate`, the returned cleanup | cancellation at every await; cleanups while an activation builds |
| Disclosure, overlays, channels (`T/__init__.py`; `overlay_*.py`, `announce_macos.py`) | decision per machine, band depth per channel, window processes | `_ensure_announced`, `_build_announcement`, `_band_enter`, `_band_exit`, `WindowsOverlay` | check-then-act caches shared by sessions; a window in a process of its own behind a pipe |
| Held-input ledger (`ledger.py`) | entry per token, one timer, `_stopped` | `hold`, `release`, `release_all`, `stop`, the deadman | expired timer threads that wait for the lock, releases that raise |
| Local held input (`T/__init__.py`) | `_mouse_pending` of each session | `_hold_mouse_button`, `_release_mouse_button` | several sessions on one ledger |
| Remote agent (`remote_agent.py`) | ledger, announcement flags | one handler per wire operation, signals, end of input | a signal handler that runs between any two steps of a handler |
| Shared transport (`shared_transport.py`) | registry, refcount, cached handshake, `broken`, `_closed` | `acquire_shared_transport`, `connect`, `send`, `close`, `_release`, `_mark_broken` | failures, closes and connects of several consumers of one agent |
| SSH transport, wire, remote backend (`ssh_transport.py`, `wire.py`, `remote_backend.py`) | subprocess, lock, request ids | `connect`, `send`, `_read_line_with_timeout`, `close`, `_call` | timeouts, late answers, reader threads that outlive their timeout |
| Backend selection (`registry.py`, `backend.py`, `target_binding.py`) | none | `select_backend` | what is left behind when a candidate fails |
| Scratch leases (`agent_scratch_lease.py`) | directories with locked markers | `acquire_agent_lease`, `sweep_stale_agent_dirs` | sweeps that race with starts, kills and reused names |
| Hook (`H/__init__.py`) | authority of screenshots, wrapped providers | result, request and cleanup handlers, the approval gate | results out of order, ids used twice, adapters that wrap in any order |
| Platform backends (`linux_x11.py`, `macos.py`, `windows.py`, `bridge.ps1`, `input_probe.ps1`) | handles of the platform | one call per input or capture | external APIs; the fallbacks of the macOS capture |
| Imaging and geometry (`imaging.py`, `geometry.py`, `monitors.py`), diagnostics, typing pace | small | pure functions | arithmetic of coordinates |
| Scripts and tools (`scripts/`, `tools/`) | evidence files | run by hand | none in the running system |

How they interact. `mount` selects a backend and gives it to a `ComputerTool`
and a `DesktopTool`, or leaves a stub that may do so later. A call of the tool
is a coroutine that asks the hook for approval, discloses, raises the band and
runs each step in a worker thread under `_announce_lock`. The worker runs a
guarded write: the guard reads the durable record, the monitor and the pause
flag, then the backend injects, locally or as a wire request through the remote
backend, the shared handle and the one ssh subprocess of the target; the agent
there injects and keeps its own ledger. Presses go through a ledger (the
agent's, or the channel's in a local process). The overlay's thread pauses
guards and writes the halt record; the deadman's threads and a latching guard
release through the ledger, which resets the idle counter the monitor reads.
Sessions of one machine share the record, the ledger, the idle counter, the
disclosure decision, the band's depth and, when remote, the transport.

What makes each part correct:

* guard, monitor and record: after a halt at most the event already cleared;
  nothing after a latch; human input between events is not missed; a halt
  reaches the disk and stays until a human lifts it;
* ledger and its callers: a button that is down is in somebody's custody, is
  released once, and is not left down by an exit;
* session: input only ever reaches the binding it was checked against; what a
  cancelled batch reports of its progress is true; one connection per session;
* observed control: input goes to the screen and the binding it was selected
  on, a revoked act sends at most the event its authority was checked for, and
  only an act of which nothing has landed may be selected anew;
* mount: every open backend is somebody's to close, once; a cleanup is final;
* disclosure and band: the band is up while an event may be injected, comes
  down after, and a refusal holds for every session;
* shared transport: no consumer loses its agent to another one's close, no
  agent is replaced silently, one lasting agent per target, nobody waits for ever;
* wire: an answer is taken for the request it belongs to, no operation runs
  twice;
* leases: a running agent keeps its directory, whoever sweeps;
* hook and captures: a request shows only pictures the tool took, the newest
  among them; a provider is left as it was found; no capture goes around a guard
  that refused.

## 2. Modules

| Module | Models |
|---|---|
| `HaltLatch` | abstract: one event per pass, no pass under a halt, none for a latched session |
| `CoexistenceGuard` | driving sessions of one machine: guard, monitor, record, pause, override, overlay, deadman, human. Implements `HaltLatch` |
| `HeldInput` | one mouse button, the ledger and its callers: the agent's main thread, or local sessions of one channel |
| `Session` | the calls of one session with their workers, cancellations, retarget and cleanup |
| `ObservedControl` | observe and act on a screen that changes |
| `Mount` | custody of a session's backend: mount, activation, cancellation, cleanup |
| `Band` | the sessions of one process on one local desktop: disclosure and the depth of the band |
| `OverlayProcess` | the Windows band's window process, its pipe and its events file |
| `SharedTransport` | the consumers of one ssh target in one process |
| `RemoteCall` | abstract: an operation runs at most once, a success means that it ran, a failure says nothing |
| `WireCalls` | remote calls over one ssh connection. Implements `RemoteCall` |
| `ScratchLease` | scratch directories of agents that start, die and sweep |
| `Screenshots` | the way of a screenshot from the tool to a request |
| `Wrapping` | hook mounts and other adapters that wrap one provider |
| `MacCapture` | the capture of the macOS backend with its fallbacks |
| `MCCoexistenceGuard`, `MCHeldInput`, `MCSession` | instances for TLC: symmetry, the script of a batch |
| `MCTransport`, `MCController`, `MCTarget` | several modules in one run: `SharedTransport` and `WireCalls`; `Mount`, `OverlayProcess`, `Screenshots` and `Wrapping`; `ScratchLease`, `Band`, `MacCapture` and `ObservedControl` |
| `...Proofs` | theorems and proofs |

The modules that share a run share no state in the code: each behaviour is one
of a single part (`part`) while the others stay at an initial state, so such a
run is the sum of its parts and explores no more. Where components do share
state, they are in one module: guard, record and monitor; ledger and callers;
session, retarget, band token and cleanup; hook's authority and tool's files.

`CoexistenceGuard` and `HeldInput` meet in the ledger: the former keeps only who
holds a button (`holder`), since a release there matters for the idle counter;
the latter keeps how the entry is retired. `CoexistenceGuard` refines
`HaltLatch` (`KeepsHaltLatch`): the standing record is `stop`, the latched
guards are `latched`, and a session between its poll and its injection holds a
pass (`Owed`). `Session` abstracts the guarded write to an event that succeeds
or raises; `Session` and `Band` meet in the depth of a channel, the former with
the tokens of one session's calls, the latter with several sessions.

### CoexistenceGuard

`pc[s]` is where a session's worker stands in a guarded write:

| `pc` | code |
|---|---|
| `idle` to `poll` (`Begin`, `Admit`) | `_ensure_announced`, `_sync_remote_announcement_state`, `check_start_permission` |
| `poll` (`Poll`) | `_poll_durable_halt` |
| `sample` (`Sample`, `SampleUnreadable`) | `presence.sample` in `before_event` |
| `check` (`CheckPaused`, `CheckRefused`, `CheckUnverified`, `CheckPassed`) | pause, exclusion zone, target's foreground |
| `cond` (`Condition`) | `target_condition` (target clock only) |
| `inject` (`Inject`, `BackendRaises`, `TargetRaises`, `ReceiptLost`, `ReceiptRefused`) | the backend call of one elementary event |
| `account` (`Account`) | `after_event`, and the next character or the end |
| `halting` (`Persist`) | `HaltedError` on its way to `_record_halt_result` |

Time is abstracted to what the classification can tell apart: `own` says that
the monitor has an injection of its own to compare with, `foreign` that the
machine's last input is newer than it by more than the guard band, `recent` that
there was input within `QUIET_FLOOR_SECONDS`. An input within the guard band of
a credited injection cannot be told from it (`Maskable`), as in the code.
`unseen` remembers who owes a halt to an input it could have seen. `late` and
`pauseLate` count events emitted under a standing halt and after a Pause click.

### HeldInput

A press is `<<caller, operation>>`. The ledger's lock makes its operations
atomic; the steps of `_op_mouse_down`, `_op_mouse_up` and their local
counterparts before and after the ledger are actions of their own. A release
callback runs with the lock held (`InLedger`), and an expired deadman thread
waits for it (`fired`), which cancelling does not undo. `Windows` selects
acknowledged releases (`retain_on_failure`), `Local` the sessions of one
process, `Signals` a signal that interrupts the agent's main thread anywhere.

### SharedTransport

A consumer is its handle, acquired, connected, used and closed once; an entry,
and an agent on the target, is named by the handle that made it. The registry
lock and the connect lock make the module's sections atomic; the teardown of a
retired entry runs after the registry lock is free, as in the code, so that it
interleaves with new connects. `Refusals` lets a connect raise something else
than `SshConnectError`, which retires nothing.

### Session

A call is a coroutine (`pc`) and the worker thread it waits for (`job`); the two
part when the coroutine is cancelled, since `_await_owned_step` shields the
thread. `lock` is `_announce_lock`; what the event loop reads, it reads without
it.

| Action | Code |
|---|---|
| `Start`, `Approve`, `TellFast/Start/End`, `BandEnter`, `AfterTold`, `AfterBand` | `execute` up to its steps: approval (`tool:pre` of the hook), `_ensure_announced`, `_acquire_batch_band` |
| `StepStart`, `NextPress`, `Resume`, `Stop` | the loop over steps and repeated presses, `_await_owned_step` |
| `WorkerEnter`, `WorkerRefused`, `WorkerActs`, `WorkerFails`, `WorkerOutcome`, `WorkerLeaves` | `_run_owned_step` with `_check_write` under the lock, the backend call, the flight record and the cleanup left to the worker |
| `Finally`, `FinallyDeferred`, `BandExits`, `Exited` | the `finally` of `execute` |
| `CancelEarly/Band/Step/Queued/Gap/Exit` | `CancelledError` at each await |
| `RetargetStart/GivesUp/Swaps/Releases`, `Cleanup`, `Deadman`, `ReplaceApproval` | `retarget`, `close_current_binding`, the ledger, a second hook mount |

A binding is named by its contents, `gen` (the connection), `target`, `ver`
(a refreshed display) and `said` (disclosed): every replacement changes one of
them. `flight` is the record shared by coroutine and worker, `token` the target
whose depth a call has raised. Calls of the desktop tool have no flight record
and await `_band_enter` directly, as in the code.

### ObservedControl

A proof is `[pixels, gen, old, active, checked]`. `validate` is two steps, since
it looks at the authority, then takes a screenshot, and never looks at the
authority again: `Validate` and `Match` for the first time, in the call's own
thread, `Look` and `Compare` before the first event, in the worker, by way of
`check_observed_proof` or `observed_typing_guard`. Before a later character
`Look` is `validate_authority` alone. A cancellation fits between any two of
these steps, and so does a change of the screen. `Send` is the event; `seen`
remembers whether the screen was as selected at a moment since the guard let the
event pass, and `allowed` how many events a call may have had when it was
cancelled: those that had landed and the one, if any, whose authority had been
checked (`Granted`). The control's own lock admits one call at a time (`lock`);
`worker` is the thread under `_announce_lock`, which goes on when its coroutine
is cancelled.

### Mount

An attempt at a backend is a coroutine (`pc`) and its builder thread
(`thread`): `Begin`, `Select`, `Build`, `Built` are `mount` and `_activate` up
to a tool, `MountComputer` and `MountDesktop` the registrations of
`_mount_backend`, `Undo` their failure, `MountReturns`, `ActivateTakes` and
`ActivateReturns` the two ends. `CleanupEnters`, `Fence` and `CleanupCloses`
are `_MountResult` and the stub's cleanup, under its lifecycle lock
(`lifecycle`). `Cancel` reaches every await; `orphans` remembers the attempts
cancelled while their thread was building.

### Band and OverlayProcess

In `Band` the sessions of one process share what is keyed by the channel. `Ask`
and `Answer` are the two ends of the disclosure question, between which other
sessions run; `Enter`, `ExitDepth`, `ExitLedger` and `ExitLower` are
`_band_enter` and the three steps of `_band_exit`. `channel` is chosen at the
start: an overlay raised here, a dialog, or the target's own overlay.
`OverlayProcess` is the Windows overlay below `show` and `hide`: `Show`,
`Ready`, `GiveUp`, `Hide`, `StopEnds` are the handle's; `Clear`, `Up`,
`EndOfInput`, `Click` the window process's (`overlay_windows.ps1`); `PollReads`,
`PollTakes`, `PollEnds` the thread that tails the events file. `hide()` looks at
nothing but whether its Stop-Process came back: `StopEnds` either marks the band
hidden, though the window may still be up (`-ErrorAction SilentlyContinue`,
`check=False`, a failing `wait` is passed over), or leaves everything as it was,
though the window may have gone (a timeout). `asked` remembers the windows of
the first kind; what still ends such a window is the watcher of its closed input
(`EndOfInput`, under weak fairness).

### WireCalls

`pc[c]` follows a call through `RemoteBackend._call`, the shared entry's look at
its mark (`Check`), `SshTransport.send` (`Enter`, `Write`, `Return`, `TimeOut`),
`_mark_broken` and `close` with its two last requests (`CloseAsk`,
`CloseGoesOn`, `Shut`). A reader thread is named by the line it waits for and
stays at the pipe when it is given up; two readers may take a line apart
(`mixed`). `Dispatch` is the agent's loop. The refinement maps every place
between the start and the return of a call to `open` and `Dispatch` of an
operation to `Run`.

### ScratchLease, Screenshots, Wrapping, MacCapture

`ScratchLease`: `run` is how far an agent's start has come (`Make`, `Mark`,
`Lock`, `Write`), `step` how far its sweep (`Open`, `Grab`, `Check`, `Remove`);
`Kill` comes at any step and frees the locks; a name may be bound to another
directory later. `Screenshots`: `Prepare`, `Write` (the tool), `Post` (the hook
takes the issued record), `Project` (the request); `Tamper`, `Forge`, `Compact`,
`Replace` and `OtherPrunes` are what else may happen in between. `Wrapping`:
`methods` is the stack of wrappers of each provider method, `flag` is
`_WRAPPED_FLAG`; `Adapt` and `Undo` are external adapters. `MacCapture`: `pc`
goes through the probe, the native call and the child process of each display;
`Lock`, `Unlock`, `Rearrange` and `Tick` may come between any two looks.

## 3. Runs

Twelve runs; all but the violations pass. `None` is a model value throughout.

| Run | Instance | Shows |
|---|---|---|
| `guard_local` | two sessions, local overlay, texts of two characters, presses and releases, two writes each, one human action, one resume; symmetry | `LateBound`, `LatchedIsSilent`, `HumanGapDetected`, `HaltPersisted`, `PauseBound`, `KeepsHaltLatch` (1.3 million states) |
| `guard_target_clock` | two sessions of a remote Windows desktop, one with an override, fair workers | `GuardHolds` (the first four) with lost and refused receipts, and `WriteEnds` (220 000) |
| `guard_desktop_halt` | one session, desktop writes | **violates** `HaltPersisted` |
| `held_agent` | the agent on X11 or macOS, five operations, two failing releases | `Custody`, `NothingStranded` |
| `held_windows` | the agent on Windows with a signal, five operations, two failing releases | `SignalWindow` (200 000) |
| `held_local` | two sessions, three operations each, fair timers | `OneUpPerPress`, `EventuallyUp` (210 000) |
| `shared_lifecycle` | three handles; one backend with two calls, the second a write that the agent refuses | `NoEarlyTeardown`, `AgentsAccounted`, `OneLastingAgent`, `Paired`, `AtMostOnce` (580 000) |
| `shared_refusals` | three handles, refusals, fair calls | `WaitersServed`, `HandedOutHealthy`, `NoSilentReconnect` (300 000) |
| `wire_two_backends` | two backends, one call each | **violates** `OwnAnswer` |
| `session_calls` | a batch (a key pressed twice, a press, a final look) beside a desktop refresh; a laptop with a band and a gated Mac; one retarget, two cancellations | `InputPinned`, `Connected`, `BandKept`, `Truthful`, `CallsEnd` (300 000) |
| `controller` | three attempts at a backend, two cleanup callers, one cancellation; one band handle, two launches, one click; two screenshots on two ids, one inlined, queues of one, two messages; two hook mounts and two adapters | `Custody`, `CleanIsFinal`, `CleanupAnswers`; `BandAccounted`, `BandsEnd`; `PicturesTrue`; `ProviderShared` (110 000) |
| `target` | three agents on two names; three sessions, one of which declines disclosure; two captures of two displays, one change; three observed calls on two screens, one observation kept, texts of two characters, one retarget, one cancellation; symmetry | `SweepSafe`; `Disclosed`; `CaptureGuarded`; `ObservedSafe` (1.1 million) |

Bounds. In `CoexistenceGuard` two sessions are one that halts and one that is
driving; a third adds only another of the second. Two characters are a first
event, which was checked when the write started, and a later one. One human
action per behaviour separates the causes; the second write is the first one
after a halt. In `HeldInput` five operations are press, up, press again and two
more around a failure; two failing releases reach one that fails in the callback
and one in the explicit up. In `SharedTransport` the third handle is the one
that comes while one fails and one closes. In `WireCalls` two calls are one
whose answer is late and one that could take it. In `Session` two cancellations
reach a call twice or both calls, and one retarget is enough to find an old
binding under a worker; the steps of the batch are one of each shape (repeated,
holding, not counted). In `Mount` the third attempt comes after a failed and a
successful one; in `ScratchLease` the third agent takes the name that a second
one frees while the first still looks at it. Queues of one and one inlined image
make every second one overflow. The bounds are guards of the actions, so
`CHECK_DEADLOCK FALSE`: a session whose calls are used up stops, as a closed
handle does. The theorems hold for every value of them.

Fairness. `CoexistenceGuard`: a worker that has begun a write goes on
(`asyncio.to_thread`, and the call that awaits it is shielded,
`_await_owned_step`); nothing makes a session begin one. `HeldInput`: threads
run on and time passes, so an armed timer expires (`threading.Timer`); nothing
makes a caller release. `SharedTransport`: connects, sends and teardowns end
because their reads and waits have timeouts. The write of the payload has none
and is assumed to end. `Session`: the event loop serves what is ready, pool
threads run, and a retarget that has started ends; nobody has to cancel,
retarget or clean up. `Mount`: builder threads end, the event loop serves
awaits that are over, and an `asyncio.Lock` wakes its waiters in turn (strong
fairness of the two actions that wait for one). `OverlayProcess`: only the
watcher that blocks on the window's pipe has to run.

### Where code and documentation disagree

Two are listed as findings, each with its run:

1. A halt raised inside a `DesktopTool` action is turned into an ordinary failed
   result and never written to disk (`guard_desktop_halt`).
2. Every `RemoteBackend` counts its request ids from 1, and several share one
   connection. A call of one that was past the mark when a call of the other
   timed out takes the late answer, whose id is its own (`wire_two_backends`).
   With one backend this cannot happen, as `OwnAnswers` proves.

For the following there are configurations beside the runs; each one's
counterexample shows it:

| Configuration | Module | What happens |
|---|---|---|
| `guard_resume` (`ResumeSticks`) | `MCCoexistenceGuard` | a session that was halted before `computer-use-resume` writes the record again at its next write, with nobody at the machine |
| `held_signal` (`NothingStranded`) | `MCHeldInput` | a signal between a press and its registration leaves the button down after the agent has gone |
| `shared_two_agents` (`AtMostOneAgent`) | `SharedTransport` | a new consumer deploys a second agent while the old entry's transport is still being torn down, outside the registry lock |
| `shared_second_deploy` (`OneLastingAgent`) | `SharedTransport` | a connect refused by `validate_handshake` leaves its agent running and its entry unmarked, and a waiting consumer deploys a second agent over it |
| `session_desktop_cancel` (`DesktopDepthReturned`) | `MCSession` | a desktop call cancelled while it raises the band never gives its depth back, so that no later call lowers the band |
| `band_buttons` (`ButtonsExcluded`) | `Band` | a session that adopts another one's overlay does not exclude its buttons (`exclusion.py:7-11`: no synthetic event may target them) |
| `overlay_clicks` (`NoClickSkipped`) | `OverlayProcess` | a new window process deletes the events file but `_events_seen` stays, so its first clicks count as read (`overlay_windows.py`, `_poll_events`) |
| `overlay_hidden_up` (`StillShown`) | `OverlayProcess` | a Stop-Process that fails but comes back marks the band hidden while its window is up, until the watcher of its input ends it; the next `show()` starts a second window (`overlay_windows.py:645-661`, 701-706; 622-633 say "a timeout or any other failure" leaves `_shown` as it is "rather than a false \"it's down\"") |
| `observed_revoked` (`RevokedStartsNothing`) | `ObservedControl` | a call that is cancelled during the screenshot of its last validation still sends its click or first character, since `active` was looked at before the screenshot (`observed_control.py:226-233`; `docs/OBSERVED-CONTROL-SPIKE.md:25-26`: "Retargeting or revocation before input stops dispatch") |

The rest are stated in the modules and hold in the runs only where noted.
Putting the property into a `.cfg` with these constants shows each one:

| Property | Instance | What happens |
|---|---|---|
| `HaltHasCause` | `CoexistenceGuard`, one session, `Ops = {"press", "click"}`, `MaxOps = 2`, `MaxHuman = 0` | the deadman's `mouse_up` is credited to nobody, and the next sample takes it for a human's: a durable halt with nobody there (`coexistence_guard.py:211` reports a human) |
| `HaltReleasesHeld` | two sessions, same `Ops`, `MaxHuman = 1` | `before_event` latches on the record and leaves through `IdleUnreadableError` without releasing (416-426); `docs/designs/coexistence.md:654` has stuck inputs at zero |
| `PauseBound` | one session, `TargetClock`, `RemoteOverlay`, `Overridden = {a}`, `Burst = 3` | a Pause on a remote overlay is read once per write (`__init__.py:2409`); `coexistence.md:454` wants it between elementary events |
| `OneUpPerPress` | `HeldInput`, agent, `Windows`, `MaxOps = 2` | the deadman and an explicit up each send a `mouse_up` (`remote_agent.py:675`; 183-184 say never twice) |
| `NoEarlyRelease`, `OnlyWhenSilent` | agent, `MaxOps = 3` | an expired timer thread releases the next press; requests that neither hold nor release do not push the deadline back (`ledger.py:192`; 15-16 say "nothing is heard") |
| `PendingIsHeld`, `HeldIsPending` | two local sessions, or the agent with `MaxOps = 3` | a session keeps a box for an entry that another one replaced, and its close is refused; a press that raises drops the box of an earlier one |
| `NothingOmitted` | `session_calls` | a step that fails after some of its input has landed, and is cancelled before it is looked at, is passed over (`__init__.py:3192-3195`) |
| `HeldCovered` | `Band`, constants of `band_buttons` | `_band_exit` reads the ledger before another session's press registers, and lowers the band over the button |
| `NothingOpenAfterCleanup` | `Mount`, constants of `controller` | a mount cancelled while its thread builds leaves an open backend that no cleanup leads to (`__init__.py:5985`) |
| `DirectoryStays` | `Screenshots`, constants of `controller` | another session's prune removes the empty directory between its creation and the first file; the write fails (`__init__.py:3370-3377`) |
| `NeverBlind` | `Wrapping`, constants of `controller` | an adapter that kept a wrapper of a mount that has gone leaves the flag on, and the next mount takes the provider for wrapped (`H/__init__.py:63`) |
| `NoLockedImage` | `MacCapture`, constants of `target` | the screen locks while a native call crawls, and its image is used (`macos.py:1531-1535`, against 1462-1465) |

## 4. Theorems

All are proved for every value of the constants that satisfies the named
assumptions: any sets of sessions, callers, calls and (finite) handles, any
bounds, any mode.

* `CoexistenceGuardProofs`: `TypeCorrect`; `LatchedSilence` and `HumanDetection`
  from `GuardInv`. `HumanGapDetected` alone is not inductive: the debt is incurred
  while a session is idle and looked at while it injects. `GuardInv` adds that
  whoever owes a human input a halt has credited an injection and still counts that
  input as foreign, so that its next sample cannot take the input for its own, and
  that only an override gives a session another policy than none. `HaltsPersist`,
  and with it `GuardKept`, assume that no desktop write is requested
  (`"desktop" \notin Ops`), since such a write records nothing
  (`guard_desktop_halt`, finding 1). `PersistInv`: until a resume, a latched session whose halt is not on disk is
  on its way to write it. `PauseBounded` assumes a local overlay (`~RemoteOverlay`;
  a remote Pause is read once per write, see `PauseBound` in section 3). `PauseInv`:
  a clicked session is paused, and once it has emitted one event since, it has none
  cleared. `RefinesHaltLatch`: the initial states are initial states of `HaltLatch`,
  and every action is one of its steps or a stutter. `LateBounded` then follows from
  the refinement and `LateBoundOfLatch`.
* `HaltLatchProofs`: `LateBoundOfLatch`, by `LInv`: a session with a pass has
  emitted nothing late.
* `HeldInputProofs`: `TypeCorrect` with `Shape` (whose boxes belong to which
  place, which presses are fresh, one caller in the lock); `OneUp`, without
  acknowledged releases, from `Once` (the entry has had no `mouse_up`);
  `CustodyKept` from `Guarded`, which extends `Custody` to states in which callers
  at work by naming their excuses; `CleanExit`, without signals, from `Clean`.
  `SignalsLeave`, with them, from `Leaving`: a stopped agent is on its way out, and
  what is still down was released with an error, was hit in the window, or is the
  Windows press whose own handler is about to release it.
* `SharedTransportProofs`: `TypeCorrect`, `NoEarly`, `HealthyHandouts` and
  `NoReconnect` from `Shape`: the count is the number of users (`Counted`), an
  entry that is not closed is the one in the registry (`Retired`), a connect
  that has not finished has its entry to itself and it is not closed (`Locks`).
  `NoEarlyTeardown` needs `Counted`, since the code looks at the count and not
  at the users, and `Counted` needs `Named`. `Accounted` and `OneLasting` hold
  where connects fail only with `SshConnectError` (`~Refusals`), from `Agents`;
  `shared_second_deploy` shows why the condition is there. `WirePaired` and
  `WireAtMostOnce` carry the next module's results to the run `shared_lifecycle`,
  for one backend on the connection; with two, finding 2 refutes them.
* `WireCallsProofs`: `Synchronised`, `OwnAnswers` and `RefinesRemoteCall` from
  `WInv`. A request is written once and, until it is taken from the pipe, has
  not run (`Once`); an answer stands for an operation that ran, and what was
  delivered has no reader any more (`Answered`); while nothing has failed the
  pipes hold at most the request or the answer of the call with the lock
  (`Steady`, with `Held`). `Synchronised` needs no more. The other two assume
  `OneBackend`: only then does the id name the call (`ById`), and a success has
  its own answer (`Own`), which is what maps it to a `Succeed` of `RemoteCall`.
* `SessionProofs`: `Pinning` and `Connection` from `SessionInv`: one holder of
  `_announce_lock` at a time, whose phase says who it is (`Locked`), connections
  are opened under fresh generations (`Opened`), and a pinned binding is never
  newer than the current one (`Pinned`, by the order `Older`). That order is the
  point: the code compares bindings for identity, which is enough only because a
  binding, once replaced, does not come back. `BandDepth` from `BandInv`: a
  worker runs exactly when the flight record says so (`Flying`), so that a token
  left to a worker is given back by it; the depth of a target is the number of
  its tokens (`Counted`).
  `TruthfulReports` from `ReportInv`. Its first part says what has landed by where
  the coroutine stands (`Underway`): exactly what it has counted, but while it waits
  for a worker, which may have landed one press more. That is why a report is true
  at the moment it is made. The second part (`Returned`) says what a worker left
  behind may still do: nothing if it was queued, since the flight record is marked
  cancelled; the press that was called uncertain if it was in the backend. The
  count of presses is a fold over the steps. Its recursion (`PressesStep`) is
  proved from running sums by the least counterexample, because the induction
  theorems cannot be used. `ScriptAssumption` holds of every batch: `key` is the
  only action that is repeated, and `capture_after` adds its capture after all
  actions (`T/__init__.py`, the loop of `execute`).
* `ControllerProofs`, one invariant for each part of the run `controller`.
  `CustodyKept` and `CleanupFinal` from `MountInv`: where a coroutine stands says
  what its thread has done and who owns the backend now (`Placed`, `Built_by`), an
  activation at work has the stub's lock, with nothing active and no fence
  (`Exclusive`), and a cleanup that closes keeps activations out (`Cleaned`).
  `BandHeld` from `OverlayInv`: where a show or hide stands says what its handle
  knows of its window (`Holding`); an open pipe is that of the window its living
  handle holds (`Piped`); a window with a poll thread had been ready, so its living
  handle still holds and shows it, or has closed its input and had a Stop-Process
  come back for it (`Polled`). More is not true: that a window which is up counts as
  shown (`StillShown`) fails, as section 3 says. `PicturesAreTrue` from `ShotsInv`: a
  call has one authority at most (`Single`), so the first that matches is the right
  one, and what can be taken or vouches for a picture has been issued (`Backed`).
  `ProviderIsShared` from `WrapsInv`: what an adapter left on a method is what it
  found there with itself on top (`Found`), a mount that has not cleaned up is still
  on every method (`StillThere`), two mounts are never on one method (`OneMount`),
  and a mount nobody has wrapped over is on top (`Uncovered`).
* `TargetProofs`, one invariant for each part of the run `target`.
  `LiveDirectoriesKept`, `OneRemoverOfItsOwn` and `SweepIsSafe` from `Inv`: who has
  the marker locked, agent or sweep, decides, and a sweep that removes has looked
  the name up again with the lock held. `BandKept` from `BandInv`: what a session
  has been told follows from where it stands and from who asked when the decision
  was stored (`Told`), every overlay that is up is somebody's (`Carried`), and has
  somebody on the way to lower it or a known reason to stay (`Minded`).
  `CapturesGuarded` from `CaptureInv`: the order of displays that a picture was
  taken under is one that has been, and one that is gone stays gone (`Known`), so
  that comparing layouts before and after a child is enough; the accepted pictures
  are those of the displays up to the present one, each unlocked (`Gathered`).
  `ActsAsSelected` from `ObservedInv`: the worker that holds the lock keeps its
  binding (`Secured`), an act whose last look is not over has seen what is on the
  screen now (`Sighted`), and what a call was told bounds what its thread may
  still land, with the event it was granted before (`Settled`). That nothing is
  sent after a cancellation is not true (`RevokedStartsNothing` in section 3).

The parts of `controller` and `target` are instances, and tlapm gives an instance
its own copies of the operators it takes from the standard modules: the lemmas
`WrapSets`, `ShotSets` and `BandSets` say that they are the same, so that the
library's facts about finite sets apply.

Every invariant and every action property of a passing run is stated by one of
these theorems. Model-checked only are the liveness properties `WriteEnds`,
`EventuallyUp`, `WaitersServed`, `CallsEnd`, `CleanupAnswers` and `BandsEnd`:
fairness and ENABLED are out of the prover's reach. Where a theorem has an
assumption on the mode (`~Windows`, `~Signals`, `~Refusals`, `~RemoteOverlay`, one
backend, no desktop writes), the code breaks the property without it, by a
configuration or a row of section 3.

## 5. Not modelled

* Crashes of the controller between a latch and its record, malformed or
  unwritable halt files.
* Milliseconds: guard bands, latencies and their measurement are the
  nondeterminism of what a sample can see.
* What a dialog says and how a band is drawn; exclusion geometry; foreground
  checks (each is the outcome of one check).
* More than one button or token per ledger: entries are independent but for the
  shared timer.
* Message formats, encodings and sizes on the wire and in provider requests;
  what text is found in a picture.
* `imaging.py`, `geometry.py`, `monitors.py`: pure functions; coordinates,
  scaling and encoding change no decision of the parts above.
* Which local backend fits a platform, and the calls of X11, Quartz, Win32 and
  PowerShell: a press, a release or a capture succeeds or raises.
* What a press does that raises on X11 or macOS: it is taken to leave the button
  up. The Windows bridge, whose press may have gone down, is modelled.
* The moments within one look of a macOS capture: the lock state and the layout
  that one check reads through several calls are read in one step. Between checks
  everything may change.
* Diagnostics and the pace of typing; scripts and tools, which are run by hand.

## 6. What is left

1. `PresenceClock`: the monitor with explicit times and guard band, refining the
   abstraction used in `CoexistenceGuard`.
2. A controller that dies between a latch and its record, with the next process
   that reads what there is.
3. The coordinate mapping of `geometry.py` as functions checked against a
   reference over bounded inputs.
4. Proofs: the safety of these new modules as they come. Liveness stays with TLC.
