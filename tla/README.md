# A TLA+ model of the LACT daemon

This directory holds a formal model of the LACT daemon, `src/daemon/src/lib.rs`. It has:

- TLC configurations that check the model on small instances;
- TLAPS proofs of its main invariants, and of a refinement, for every instance.

The GUI side (`src/lact-gui/src/app/msg.rs`) is only an enum of GUI events. It is a client of the daemon's protocol, and it is not modelled.

## 1. The system

The daemon is one single-threaded process. It has five parts.

**Start-up** (`Daemon::new`, lines 56-112), in order:

1. removes a stale socket and binds `/tmp/amdgpu-configurator.sock`;
2. reads `/etc/lact.json`, unless it was started unprivileged, in which case it takes `Config::new()`;
3. reconciles the cards found under `/sys/class/drm` against the configuration's `gpu_configs`;
4. saves the result, unless it was started unprivileged.

**Reconciliation** (`load_gpu_controllers`, lines 114-180):

- Only directory entries whose name has five characters and starts with `card` are taken (lines 132-133).
- For each such card, it searches `gpu_configs` for an entry with the same identifier.
- The first match in HashMap order wins. The card then takes that entry's handle and gets its settings loaded.
- Without a match, the card gets a fresh `random::<u32>()` handle and a default entry.

**Transport** (`listen`, lines 187-203):

- Clients connect to the socket and wait in the listener's backlog.
- The one thread accepts them in order and handles each connection to the end before it accepts the next.
- An accept error breaks the loop, and the process ends.

**Dispatch** (`handle_connection`, lines 205-450):

- `read_to_end` blocks until the client shuts its write side.
- The request is decoded and dispatched over `Action`, and the response is written.
- Every mutating per-card handler follows the same pattern:
  1. calls the controller;
  2. inserts `(identifier, config)` into `gpu_configs`;
  3. calls `save().unwrap()`, even when the daemon is unprivileged;
  4. responds.
- `SetConfig` replaces the whole configuration and rebuilds the controller map.
- `write_all(..).expect` panics when the client has gone.

**Shutdown** (lines 404-426):

- For each controller, it resets and commits the clock state, sets the Auto profile, and stops the fan if `gpu_configs` says fan control is on.
- It then removes the socket. This happens *inside* the loop.
- Finally it exits.

The code of `GpuController`, `Config` and `hw_mon` is not in this snapshot, and neither is the client. What those parts do is taken from `spec.md`, and it is marked `spec_modelled` in `PROJECT.json`.

### Inventory

| Part | Code | Module | Status |
|---|---|---|---|
| Request dispatch, every `Action` arm | lib.rs 205-450 | Daemon | modelled |
| Transport: backlog, accept, `read_to_end`, `write_all` | lib.rs 187-216, 437-448 | Connection | modelled (clients from the spec) |
| Start-up and reconciliation | lib.rs 56-180 | Daemon; HandleRegistry (abstract) | modelled |
| Unprivileged mode | lib.rs 56, 82-83, 103, every `save()` | Daemon (`privileged`) | modelled |
| Shutdown | lib.rs 404-426 | Daemon | modelled |
| GpuController operations | called from lib.rs | Daemon (effects from spec) | partly |
| Fan-control loop | started by `start_fan_control` | Daemon (`orphans`) | partly |
| Config read/save | lib.rs 85-104, each `save()` | Daemon (`config`, `disk`) | partly |
| PCI db online update | lib.rs 115-124, 182-185 | none | not modelled: display names only, network I/O |
| Socket chmod/chown | lib.rs 63-79 | none | not modelled: access rights only |
| GUI `AppMsg` | msg.rs | none | not modelled: no state |

### What is hard here

A test would hardly reach these behaviours. They are listed with their lines under "hazards" in `PROJECT.json`.

- Long sequences of requests, restarts and reboots. Handle stability is a property of histories.
- A crash between the hardware write and the save, and a crash after the save but before the response.
- A config read that fails for a reason other than "not found".
- Client-supplied configurations with duplicate identifiers.
- `SetConfig` dropping controllers whose fan loops still run.
- Shutdown with more than two cards, and a machine with a `card10`.
- Partial commits of staged clock edits.
- An unprivileged daemon that receives a mutating request.
- Several clients, one of which never shuts its write side.
- The process ending by any path other than Shutdown while a fan is under manual control.

## 2. The module `Daemon`

### State

| Variable | Code |
|---|---|
| `running` | the process is alive and serving |
| `present` | the cards under `/sys/class/drm` |
| `hw[d]` | the attributes of card `d`: fan mode, power cap, profile, GPU and VRAM clock state |
| `ctrl` | `gpu_controllers`, as `handle -> [ident, cfg]` (`get_identifier()`, `get_config()`); while down, the map the dead process last had |
| `config` | `self.config.gpu_configs` in memory |
| `disk` | the `gpu_configs` of `/etc/lact.json` |
| `orphans` | cards driven by a fan loop that no live controller owns |
| `socket` | the socket file exists |
| `privileged` | the serving process was started with `unprivileged = false` |

Abstractions:

- A card and its `GpuIdentifier` are one model value. `CardIndex[d]` is the `N` of its `cardN` entry. `NameLength` computes the length of `cardN` from the decimal width of `N` (a recursive function), and `Listed` is the set of present cards the five-character filter admits.
- A handle is a member of the small set `Handles`.
- A fan curve, profile or clock is a model value. The model only distinguishes valid from invalid ones, because the properties need no more.

### Actions

There is one action per `Action` arm. Each action covers its whole arm:

- the `None => InvalidID` arm (`Unknown`);
- the validation and I/O `Err` arms (`Rejected`, `Fails`);
- the Ok arm (`Applied`), which sets the card's attributes and inserts into `gpu_configs`. It then saves, which sets `disk`, or panics when the save fails, which sets `running' = FALSE`. A save may fail under `Faults`, and always may in an unprivileged process (`SaveMayFail`).

`Respond` is the response write: it either succeeds or panics.

The remaining actions:

- `Restart`: `Daemon::new`. The start is privileged, or unprivileged where `Unprivileged` allows it (`StartModes`). It reads the file or takes the empty store (`Readable`). The reconciliation outcome is the set `Assignments(cfg)`: every first-match-wins result the HashMap order can produce over the listed cards. A privileged start then saves or panics; an unprivileged one does not save.
- `Shutdown`: the loop, which reaches at most two controllers before `remove_file` panics.
- `SetConfig`: replaces the configuration, clears the map, rebuilds it and saves.
- `DecodeFailure` and `ConnectionError`: a bad request, and an accept or read error.
- `Reboot`: the machine, not the code. While the daemon is down, cards may come and go and their attributes return to defaults.

### Constants

| Constant | Meaning |
|---|---|
| `Devices`, `Handles` | cards and handle values |
| `Curves`, `EmptyCurve` | valid fan curves and the curve with no points |
| `CapMin..CapMax`, `CapInputs` | the reported power-cap range and the caps a client may ask for |
| `SupportedProfiles`, `Profiles` | the profiles the card accepts and the ones a client may ask for |
| `Clocks`, `ClockInputs` | valid clock values and the ones a client may stage |
| `ClientConfigs` | the configurations `SetConfig` may carry |
| `Faults` | whether hardware writes, config reads and saves may fail |
| `CardIndex` | the `N` of each card's `cardN` |
| `Unprivileged` | whether a start may be unprivileged |

`DaemonAssumptions` states what the proofs need: the defaults are valid, the clock markers are distinct, a client configuration is a handle map, and the two new constants are well typed.

## 3. The module `HandleRegistry`: what the daemon promises about handles

`HandleRegistry` is an abstract specification. It keeps only the handles, with four variables:

- `reg`: the handles the file holds, each with its card;
- `live`: the handles the controllers carry;
- `cards`: the cards the machine has;
- `up`: whether the daemon serves.

Its actions:

| Action | What it says |
|---|---|
| `Start` | Every present card the registry names keeps its handle. The others get handles the registry does not use. The result is added to the registry. |
| `Replace` | A client installs a registry with one handle per card, reconciled the same way. |
| `Stop` | The daemon stops. |
| `Replug` | Cards change while the daemon is down. |

`Daemon` defines the refinement mapping:

```
Registry == INSTANCE HandleRegistry WITH Cards <- Devices, up <- running, cards <- present,
                                         reg <- Idents(disk), live <- Idents(ctrl)
```

`ImplementsRegistry == Registry!RegSpec` is the property that `Daemon` implements it. Under the mapping:

- a privileged start is a `Start`;
- a crash during the start's save is a stutter;
- `SetConfig` is a `Replace`;
- every exit is a `Stop`;
- `Reboot` is a `Replug`;
- every other request is a stutter, because it keeps the identifiers of the file and of the controller map.

## 4. The module `Connection`: the transport

`Connection` models the code around `handle_connection`.

State:

- `backlog`: a FIFO of connected clients.
- `cur`: the stream being handled.
- `stage`: `accept`, `read` or `respond`.
- `cl[c]`: each client's state.
- `up`.

The daemon's steps:

| Action | Code |
|---|---|
| `Accept` | `incoming()` yields the oldest connection |
| `AcceptError` | the `Err` arm, which breaks the loop and ends the process |
| `Handle` | `read_to_end`, enabled only once the client has shut its write side or gone, then decode and dispatch |
| `DecodeFailure` | the stream is dropped without an answer |
| `HandlerExit` | Shutdown's `exit`, or a handler's panic |
| `Respond` | `write_all`, which panics if the client has gone |
| `Start` | a new `Daemon::new` binding the socket |

The clients' steps come from the specification, because the client is not in the repository: `Connect`, `ShutWrite`, `GiveUp` and `Again`. When the process ends (`Exit`), the kernel closes every stream it held, and each waiting client sees that.

### Fairness

Weak fairness is assumed only for `Accept`, `Handle` and `Respond`. The code justifies this: one thread runs one loop and blocks only in `accept` and `read_to_end`, which is exactly when these steps are disabled.

The clients, the accept errors and the restarts are not fair. Nothing in the code makes them happen.

`ClosingClientsSpec` adds `WF(ShutWrite(c))` for every client. It stands for clients that shut their write side after writing the request, which is what the one-request-per-connection protocol requires of them.

## 5. Properties and runs

The module `MC_Daemon` defines the client configurations, the card indices and the symmetry. The symmetry permutes `Devices` and `Handles`. This is sound for two reasons:

- no definition distinguishes two cards or two handles;
- in the symmetric runs every card index has one digit, so `Listed` does not tell cards apart either.

The symmetry is dropped in the `tenth_card` run.

| Property | Module | Kind | What it says |
|---|---|---|---|
| `TypeOK` | Daemon | invariant | types |
| `StorePersistsLive` | Daemon | invariant | while serving, every controller's `gpu_configs` entry is its own, and a privileged daemon's file equals the in-memory store; Shutdown's `gpu_configs.get(id).unwrap()` relies on this |
| `OneControllerPerDevice` | Daemon | invariant | while serving, the controllers' cards are exactly the present cards, one handle each; checked only where the name filter can bite (`tenth_card`), since with one-digit names it restates `Assignments` |
| `HandleStable` | Daemon | action | when the daemon comes back up, each card still present keeps the handle it had |
| `ShutdownRestores` | Daemon | action | Shutdown resets every controlled card: clocks default, Auto profile, fan back to auto where fan control was on |
| `ImplementsRegistry` | Daemon | refinement | every behaviour is one of `HandleRegistry` |
| `FanLoopsOwned` | Daemon | invariant | while serving, no fan loop is left without its controller |
| `ReadOnlyKeepsFile` | Daemon | action | an unprivileged daemon never changes `/etc/lact.json` |
| `FanHandedBack` | Daemon | invariant | a fan is in manual mode only while the daemon runs |
| `RegConsistent` | HandleRegistry | proved only (theorem `RegistryConsistent`; no run checks it) | the registry has one handle per card, and served handles are registered for the same card |
| `RequestsServed` | Connection | liveness | a client that has shut its write side is eventually answered, sees its stream close, or gives up |

| Run | cfg | Expect | Shows |
|---|---|---|---|
| `daemon` | Daemon.cfg | pass | without I/O faults, `TypeOK`, `StorePersistsLive`, `HandleStable`, `ShutdownRestores` and the refinement hold for 2 cards and 2 handles (about 66k distinct states) |
| `daemon_faults` | DaemonFaults.cfg | pass | with failing writes, reads and saves and partial commits, `TypeOK` and `StorePersistsLive` still hold (about 686k distinct states) |
| `daemon_unprivileged` | DaemonUnprivileged.cfg | pass | with privileged and unprivileged starts mixed, and saves that may fail in an unprivileged process, `StorePersistsLive` holds: the file equals the store exactly while a privileged process serves (about 127k distinct states) |
| `connection` | Connection.cfg | pass | with three clients that shut their write side, `RequestsServed` holds under the daemon's fairness (1,520 distinct states) |
| `shutdown_three_gpus` | ShutdownThreeGpus.cfg | violation | with three cards the third one keeps its overclock (finding: line 423) |
| `orphan_fan_loop` | OrphanFanLoop.cfg | violation | `SetConfig` orphans a running fan loop (line 429) |
| `duplicate_identifiers` | DuplicateIdentifiers.cfg | violation | a client config with two entries for one card makes a handle change across a restart (lines 147, 428) |
| `tenth_card` | TenthCard.cfg | violation | `card10` fails the five-character filter and gets no controller (line 132) |
| `unprivileged_writes` | UnprivilegedWrites.cfg | violation | an unprivileged daemon's handler saves `/etc/lact.json` (line 245) |
| `stalled_client` | StalledClient.cfg | violation | a client that never shuts its write side blocks `read_to_end`, and a finished request queued behind it waits forever (line 208) |
| `fan_unattended` | FanUnattended.cfg | violation | the daemon ends without Shutdown, through an accept error (line 199) or a panicking write or save, and leaves a fan in manual mode |

### Bounds

Two cards and two handles are enough for the following cases:

- reconciliation with a matched and a fresh card;
- a card added or removed by a reboot;
- two controllers in a Shutdown.

Three cards are needed only to reach the third loop iteration of Shutdown, and that run stops at the violation.

Every value set contains one valid and one invalid value, so each handler's refusal arm is reached. There are two client settings (fan off and fan on), because the fan flag is what Shutdown and `SetConfig` read.

The unprivileged run limits `SetConfig` to configurations of at most one entry, and the card to one supported profile. This keeps the doubled start modes within five minutes.

Three clients are enough for the transport's cases:

- one client being handled;
- one queued behind it;
- one that reconnects, which is what a newest-first accept order would let starve another.

### Mutants

Each property of a passing run is shown to fail under a plausible bug in the mapped code. The mutant operators stand just before the definition they replace.

| Property | Mutant | The bug |
|---|---|---|
| `TypeOK` | `SetPowerCapUnchecked` | a dropped range check |
| `TypeOK` | `SetVRAMMaxClockUnchecked` | an unvalidated clock staged |
| `StorePersistsLive` | `AppliedSavedEarly` | the save before the insert |
| `StorePersistsLive` | `CommitClearsOnFailure` | staged edits cleared on a failed commit |
| `StorePersistsLive` | `RestartSaveInverted` | the `!unprivileged` test of line 103 inverted |
| `HandleStable` | `RestartFresh` | the file never read |
| `ShutdownRestores` | `StartFanControlUnrecorded` | no `gpu_configs` insert |
| `ImplementsRegistry` | `NewStoreDropsOld` | `gpu_configs` rebuilt from the present cards only, so the entries of absent cards are lost |
| `RequestsServed` | `AcceptNewest` | a newest-first backlog, which lets a queued client starve |

## 6. Proofs

There are four proof modules. Every safety invariant and action property of a passing run is stated by a theorem. Only the liveness property `RequestsServed` is left to TLC.

| Theorem | Module | States | Hypotheses |
|---|---|---|---|
| `TypeCorrect` | DaemonProofs | `[]TypeOK` | `DaemonAssumptions` |
| `StorePersistence` | DaemonProofs | `[]StorePersistsLive` | `DaemonAssumptions` (faults and unprivileged starts included) |
| `ShutdownRestoresCards` | DaemonActionProofs | `ShutdownRestores` | `ShutdownHyp` |
| `HandlesStable` | DaemonActionProofs | `HandleStable` | `HandleHyp` |
| `RegistryConsistent` | HandleRegistryProofs | `[]RegConsistent` | none |
| `DaemonImplementsRegistry` | DaemonRefinementProofs | `ImplementsRegistry` | `RefinementHyp` |

**`DaemonProofs`** proves the following for every value of the constants that satisfies `DaemonAssumptions`:

- `TypeCorrect == Spec => []TypeOK`
- `StorePersistence == Spec => []StorePersistsLive`

`TypeOK` is not inductive on its own. Shutdown uses `config[h].cfg.fan` as a Boolean, and only `StorePersistsLive` says that `config[h]` is the controller's entry. The inductive invariant is therefore `Inv == TypeOK /\ StorePersistsLive`.

The lemmas state, once each:

- what `Insert` returns;
- that a reconciliation outcome is an injective function onto the listed cards;
- that `NewControllers` is the part of `NewStore` under those handles;
- that `LoadHw` and `ShutdownHw` keep the attributes well typed.

Each handler then preserves `Inv` through one of two lemmas: `AppliedInv` for the Ok arm, or `RefusedInv`/`ReplyInv` for an arm that changes nothing. `RestartInv` covers the three endings of a start: unprivileged, saved, or panicking in the save.

**`HandleRegistryProofs`** proves `RegistryConsistent == RegSpec => []RegConsistent` for any cards and handles. The inductive invariant is `RegTypeOK /\ RegConsistent`. The key lemma is `ExtendKeepsOneHandle`: extending a registry that has one handle per card by a reconciliation keeps one handle per card. A card the registry names must take the registry's handle, so a fresh handle can never name a card a second time.

**`DaemonRefinementProofs`** proves `DaemonImplementsRegistry`: `ASSUME RefinementHyp PROVE Spec => ImplementsRegistry`. `RefinementHyp` has four parts:

- no faults;
- no unprivileged starts;
- `AllListed`;
- client configurations with one entry per card.

Each part is needed. A read fault makes a start take the empty store, which the specification allows (sections 4.4 and 6): it promises stable handles only while the store survives (section 3). The other three parts are each broken by a violation run when dropped: `unprivileged_writes`, `tenth_card` and `duplicate_identifiers` respectively.

The invariant is `RInv == Inv /\ privileged /\ IsInjective(Idents(disk))`. The argument:

- `AssignmentReconciles`: an outcome of the `'entries` loop over a file with one entry per card is a `Registrations` member that `Reconciles` with the file. If a present card's entry were not reused, the loop's `Matches` would have been non-empty.
- `IdentsReconcile`: the identifiers of the reconciled store are `Extend` of the old ones.
- `SavedIdents`: a handler's save inserts an entry with the controller's own identifier into a store equal to the file, so the identifiers stay.
- `RefinementStep`: each step maps to a registry step or a stutter, and keeps `RInv`.

With `RegistryConsistent`, this gives `RegConsistent` of the mapped daemon for every instance.

**`DaemonActionProofs`** proves the two action properties.

- `ShutdownRestoresCards`: `ASSUME ShutdownHyp PROVE Spec => ShutdownRestores`. `ShutdownHyp` is: no faults, finitely many cards, and at most two of them. Both limits are needed. `shutdown_three_gpus` breaks the property with three cards, and with faults a reset write may fail. The invariant is `SInv == Inv /\ CtrlOneToOne`, where `CtrlOneToOne == IsInjective(Idents(ctrl))` says that no two controllers drive one card (lemmas `SInvInit` and `SInvNext`). It gives three facts:
  - By `FS_Injection`, the controller map has at most as many handles as there are cards, so at most two.
  - By `FS_Subset`, the set of controllers the loop reaches is then the whole map.
  - By injectivity, the `CHOOSE` in Shutdown picks each controller's own entry, whose fan flag is the controller's by `StorePersistsLive`.
- `HandlesStable`: `ASSUME HandleHyp PROVE Spec => HandleStable`. `HandleHyp` is: no faults, no unprivileged starts, and client configurations with one entry per card. It does not need `AllListed`: the proof covers machines with `card10` too. The invariant is `HInv == RInv /\ CtrlSaved /\ CtrlListed`:
  - `CtrlSaved`: while the daemon is down too, `/etc/lact.json` holds every entry of the controller map the last process served. A handler whose response fails still saved first (`PersistsEntry`).
  - `CtrlListed`: every controller's card passes the name filter.

  `OnlyRestartStarts` shows that only `Restart` takes a dead daemon to a serving one. `AssignmentKeeps` shows that the `'entries` loop over a file with one entry per card registers each listed card under its entry's handle.

### Model-checked only

- `StorePersistsLive` of the unprivileged run is proved too, since `StorePersistence` does not exclude unprivileged starts.
- `HandleStable` is proved only under `HandleHyp`. Outside it, the violation runs show that it fails.
- `RequestsServed` is liveness. TLAPS does not handle liveness under fairness here, so it stays with TLC.
- The decimal width of a card index is a recursive function. What it computes for every input is not proved; TLC evaluates it on the instances.

## 7. Not modelled, and why

- **Collisions of `random::<u32>()` handles** (line 169). Fresh handles are drawn apart from the ones in use. A collision would make `gpu_configs.insert` overwrite another card's entry. The specification (section 3) accepts this risk as negligible, and its Design Notes list the missing uniqueness check as a known weakness. No run draws a colliding handle.
- **Two daemon instances at once** (lines 57-58). A second start removes the live socket of the first. The model has one daemon process.
- **The fan loop's timing, and its race with `set_fan_curve`.** Not in the snapshot.
- **PCI names, socket permissions, logging and the wire format.** No property depends on them. A decode failure is a step that changes nothing.
- **`Connection` and `Daemon` are separate modules.** The transport's properties do not depend on what a request does to the cards, and Daemon's properties do not depend on which client sent the request. Composing the two would multiply the state spaces for no new question.

## 8. Plan for later work

1. `GpuController` as its own module: staged edits per power state, commit and reset, partial writes.
2. `FanControl`: the fan loop as a separate process next to the dispatch loop, with liveness that a stopped loop stops writing.
3. `ReconcileSeq`: reconciliation as a sequential fold over a fixed HashMap order, with handle collisions, checked against `Assignments`.
4. A refinement of `Connection` to an abstract request queue, and its proof.
