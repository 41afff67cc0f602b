# Formal models of SPIRE's caller-liveness tracker, caches, disk upstream CA and CLI

This directory holds TLA+ models of the repository's code, the TLC
configurations that check them and the TLAPS proofs about them. The code is
Go. Its most delicate concurrent part, and the subject of `spec.md`, is the BSD
`peertracker`. It lives in `src/cmd/spire-server/cli/template/show.go`, lines
244-466, concatenated after the template CLI and a node-cache test.

## 1. The system

### Inventory

| Part | Source | State | Operations | Concurrency |
|---|---|---|---|---|
| bsdTracker | show.go 267-404 | kqueue fd `kqfd`, `ctx`/`closer`, `mtx`, `watchedPIDs map[int]chan struct{}` | `newTracker`, `NewWatcher`, `addKeventForWatcher`, `Close`, goroutine `receiveKevents` | callers' goroutines and one dispatch goroutine share `watchedPIDs` under `mtx`; `ctx` is read without it |
| bsdWatcher | show.go 406-466 | `closed`, `done`, own `mtx`, `pid` | `Close`, `IsAlive` (check, `time.Sleep(safetyDelay)`, `select`) | one per caller; `done` is shared by every watcher of a PID |
| kernel kqueue | (environment) | armed one-shot `NOTE_EXIT` knotes, queued events, PIDs and their reuse | process exit and spawn, `EV_ADD`, `Kevent` receive | asynchronous to everything above |
| generational expiry cache | wit/mint.go 157-258 | `current`/`previous` maps, `RWMutex`, GC time | `Get` (RLock, then Lock with a double check), `Set`, `Delete`, GC | readers and writers |
| witsvid node cache | witsvid/common.go 16-108 | map of attested nodes and fetch times, `RWMutex` | `BuildFromDatastore`, `FetchAttestedNode`, `RefreshAttestedNode`, `PeriodicRebuild` | refresh reads the datastore outside the lock |
| disk UpstreamAuthority | unnamed/part_001 | config, cached CA and certificates, mutex | `Configure`, `MintX509CAAndSubscribe`, `reloadCA` | plugin RPCs |
| CA journal | ca/manager/journal.go | journal file | `LoadJournal`, `save` | none (file I/O) |
| `wit mint` command | wit/mint.go 29-149 | flags | `Run`, `validateToken`, `ttlToSeconds` | none |
| template CLI | template/show.go 1-175, create.go, util.go | flags, server template store | `show` (validate, pagination), `create` (validate, parseConfig, createTemplates) | other clients write between pages |
| agent `run` command | spire-agent/cli/run/run.go | flags, config file, the merged `agent.Config` | `Run`, `parseFlags`, `parseFile`, `mergeConfigs`/`mergeConfig`, `validateConfig`, `signalListener` | one signal goroutine |
| OIDC provider, configs, protos, CI | rest of `src/` | flags and configuration | parsing, RPC calls, printing | none of interest |

### How the tracker's parts interact

1. A caller resolves a request's PID.
2. It calls `NewWatcher(info)`:
   - a PID of 0 and a cancelled `ctx` are rejected before `b.mtx` is taken;
   - under `b.mtx`, an existing `watchedPIDs[pid]` is reused;
   - otherwise a one-shot `EVFILT_PROC/NOTE_EXIT` knote is armed with `EV_ADD`, and a fresh `done` channel is stored.
3. When the process exits, the kernel queues the event.
4. The dispatch goroutine `receiveKevents` blocks in `Kevent` for up to 5 events. Under `b.mtx` it closes `done` and deletes the entry for each received PID that has one.
5. The caller calls `IsAlive`:
   - a closed watcher fails at once;
   - otherwise it sleeps `safetyDelay` (250 ms) and answers from a non-blocking `select` on `done`.
6. `Tracker.Close` takes `b.mtx`, cancels `ctx` and then closes the fd.
   - The loop's pending `Kevent` returns `EBADF`, and the loop returns because `ctx` is cancelled.
   - Any other error not caused by shutdown, except `EINTR`, panics.

### The hard behaviours

- Interleavings of callers, the dispatch goroutine and `Close`.
- Delivery of exits that is asynchronous and batched.
- PID reuse: an exited PID can get a new process before its old exit is received.
- Ordering inside `Close`.
- Failure of `EV_ADD`.
- `EINTR` retries.
- The fixed delay that `IsAlive` uses in place of a synchronisation.

## 2. Modules

### `PeerTracker.tla`: the tracker, its watchers and the kernel

**Constants.**
- `Pids`: the PIDs, positive naturals.
- `Watchers`: caller goroutines, each running connections one after another.
- `MaxChans`: how many `done` channels may be made.
- `MaxInc`: how often a PID may be reused.
- `ReceiveCap`: the receive buffer.

**Kernel state.**
- `alive[p]` and `inc[p]`: the current occupant of PID `p`, and which incarnation it is.
- `knotes`: PIDs with an armed knote.
- `pending`: PIDs with a queued exit event.
- `kqOpen`: whether the kqueue fd is open.

**Tracker state.**
- `ctxDone`: `b.ctx` is cancelled.
- `trackerPc`: the two steps of `Close`.
- `watched`: `watchedPIDs`. Channels are numbers `1..MaxChans`, and `NoChan` stands for an absent entry.
- `chanClosed`: which channels are closed.
- `nextChan`: the next channel `make` returns.
- `chanPid` and `chanInc` (ghosts): the PID and incarnation a channel's knote was armed on.

**Dispatch goroutine.** `dpc` is its program counter, and `batch` holds the events it has received.

**Each watcher's state.**
- `wpc`: where its goroutine is.
- `wpid`, `wchan`, `wclosed`: the watcher's fields.
- `walive`: inside `IsAlive`, after the check.
- `wres`: the last answer.
- Ghosts: `winc` (the incarnation seen at the PID check) and `wlive` (the caller was running when `NewWatcher` returned).

| Action | Code |
|---|---|
| `ProcessExit`, `ProcessSpawn` | the kernel: an armed one-shot knote fires into the queue; a free PID is reused |
| `NewWatcherCheck` | `NewWatcher` up to `b.mtx.Lock()`: PID 0 and `ctx.Err()` checks |
| `NewWatcherLocked` = `NewWatcherReuse` ∨ `NewWatcherFail` ∨ `NewWatcherRegister` | `NewWatcher` under `b.mtx`: dedup, `addKeventForWatcher` failing, or arming the knote and storing a new channel |
| `AddKeventForWatcher` | `EV_ADD` succeeding; on an exited but unreaped process the exit is reported at once |
| `CloseBegin`, `CloseEnd` | `Close`: lock and `closer()`, then `unix.Close(kqfd)` and unlock |
| `DispatchReceive`, `DispatchError`, `DispatchDeliver` | `receiveKevents`: `Kevent` returns `min(ReceiveCap, queued)` events; or an error, with return on a cancelled `ctx`, `continue` on `EINTR` and panic otherwise; then delivery under `b.mtx` |
| `IsAliveBegin`, `IsAliveEnd` | `IsAlive`: the closed check; then the `select` after the sleep |
| `WatcherClose` | `bsdWatcher.Close` |
| `ConnectionDone` | the caller (spec §2) drops a watcher and takes a new connection |

**How the code's locks are modelled.**
- Each `b.mtx` critical section is one atomic step, or the two steps of `Close`.
- Between the two steps of `Close`, delivery and `NewWatcherLocked` are disabled (`trackerPc # "closing"`), because `Close` still holds the lock.
- The unlocked reads of `ctx` are separate steps.
- `time.Sleep` is the gap between `IsAliveBegin` and `IsAliveEnd`. Any number of other steps may happen in it, so the model does not assume the delay is long enough.

**Mutant operators.** Each mutant operator is defined right before the definition it replaces.

### `MCPeerTracker.tla`: the TLC instance

- PIDs are `{1, 2}`.
- Watchers are the model values `w1` and `w2`. They are symmetric.
- `MaxChans = 2`.
- `MaxInc = 1`: each PID can be reused once.
- `ReceiveCap = 1`. This is smaller than the code's 5, so that a batch leaves events queued with only two PIDs.

### `LivenessOracle.tla`: what the tracker promises

This is an abstract spec with no kqueue, registry or watcher. Its state is
`alive` and `inc` (processes and PID reuse), `sigOf` (the exit signals armed
so far, each for a PID and an incarnation) and `fired`. Its actions:
- `Exit` and `Spawn`;
- `Arm(p, s)`: a new signal for the current incarnation of `p`, only when
  `p` has no pending signal;
- `Fire(S)`: pending signals fire together, each after its incarnation has
  ended.

`PeerTracker.tla` maps itself onto it with `Oracle == INSTANCE
LivenessOracle WITH ...`, and `OracleSpec` is `Oracle!Spec`.

### `PeerTrackerProofs.tla` and `PeerTrackerRefinement.tla`: TLAPS proofs (section 4)

## 3. Runs

| Run | Checks | Result |
|---|---|---|
| `peertracker_safety` (`MCPeerTracker_safety.cfg`) | `TypeOK`, `RegistryInv`, `SignalSound`, `WatcherBound`, `NoPanic`, `OracleSpec` | pass, 2,761,326 distinct states, about 90 s |
| `peertracker_live` (`MCPeerTracker_live.cfg`, one watcher) | `ExitEventuallySignalled`, `ShutdownCompletes` under `Fairness` | pass, 95,360 distinct states |

### The properties

- **`RegistryInv`.** Every entry:
  - is a made channel of its own PID;
  - is unclosed (so the `close(done)` in delivery never panics);
  - is not shared with another PID.

  While the fd is open, the entry's PID also has an armed knote, a queued event or a received event. An entry without any of these would never be reaped.
- **`SignalSound`.** A channel is closed only after the incarnation its knote was armed on has died. This holds even if the PID has since been reused. This is the TOCTOU guarantee of spec §1.
- **`WatcherBound`.** An open watcher's channel was made for its PID. It is closed already, or it is still that PID's entry.
- **`NoPanic`.** The dispatch loop never panics.
- **`OracleSpec`.** The tracker implements the abstract spec `LivenessOracle.tla` under the mapping `Oracle` of `PeerTracker.tla`. The oracle knows only processes, PIDs and exit signals:
  - the signals armed so far are the channels made so far, each armed for its knote's PID and incarnation;
  - a signal has fired when its channel is closed.

  It promises spec §3 and §5: a PID gets a new signal only when it has none pending, so all its watchers share one (`Arm`), and a signal fires only after its incarnation has ended (`Fire`). Its mutant drops `NewWatcher`'s dedup. The PID then gets a second pending channel, which `RegistryInv` alone does not rule out: the first channel is no longer an entry, so it stays open forever.
- **`ExitEventuallySignalled`.** Once the process of an entry has exited, the entry is eventually reaped, unless `Close` has begun.
- **`ShutdownCompletes`.** After `Close`, the loop ends without panicking (spec §8).

Every property has a mutant in `PROJECT.json`, a plausible bug in the mapped code that TLC catches:
- a nil `done` on reuse;
- the entry kept after a failed `EV_ADD`;
- no deduplication;
- `Watcher.Close` that reaps;
- the fd closed before the cancel;
- the last received event dropped;
- `continue` on shutdown.

### Bounds

- Two PIDs with one reuse each are the smallest instance in which:
  - an exit of an old occupant is queued while the PID already has a new one;
  - two PIDs' entries coexist.
- Two watchers are needed for deduplication: a second `NewWatcher` of a watched PID must reuse its entry.
- Two channels allow a second registration of a PID after its first entry was reaped.
- A receive capacity of 1 forces events to span batches.
- Every action and every branch of the safety run's actions fires. The coverage of each action is non-zero, checked with `-coverage`.

### Fairness

`Fairness` assumes weak fairness of:
- `DispatchReceive` and `DispatchDeliver`: the dispatch goroutine is runnable, and Go schedules runnable goroutines;
- `CloseEnd`: `Close` finishes once it holds the lock;
- `DispatchError` restricted to a closed fd: `Kevent` on a closed descriptor returns `EBADF`.

`EINTR` gets no fairness, and neither do the callers, the kernel's process steps or `Close` itself: none of them is obliged to happen.

### Accepted divergence: `NewWatcher` concurrent with `Close` (show.go:313)

`NewWatcher` reads `ctx.Err()` before it takes `b.mtx`. So a call that
overlaps `Close` can pass the check, wait for the lock while `Close` runs,
and then find its PID's entry and return a watcher. TLC reaches this in
four steps: `w1` registers PID 1, `w2` passes the check, `Close` runs to
the end, and `w2` returns a watcher.

Spec §4.1 asks only that calls made after `Close` fail, and they do: the
check at line 313 sees the cancelled context. A call that overlaps `Close`
may be ordered before it. The watcher it returns is then like any watcher
made just before `Close`: its channel is never closed once the loop has
exited, which is the behaviour of show.go:455 that the spec puts out of
contract. So no run checks this interleaving.

### Accepted divergence: `IsAlive` latency (show.go:455)

Spec §8 says that an exit after `NewWatcher` and before `IsAlive` returns
yields `CallerExitedError`. The model breaks this in a few steps:
1. A watcher registers.
2. The process exits, and the event is queued.
3. `IsAlive` sleeps and selects before the dispatch loop runs, so it answers nil.

Spec §5 accepts this race as bounded by the safety delay, and the model has
no time with which to bound it. So the project records the race as an
accepted divergence rather than a run.

## 4. Proofs

`PeerTrackerProofs.tla` proves the following for all values of the constants. It assumes only `Pids ⊆ Nat \ {0}` and natural-number bounds.

- `TypeCorrect`: `Spec => []TypeOK`.
- `IInvInvariant`: `Spec => []IInv`, and from it `RegistryCorrect`, `SignalSoundness`, `WatcherBinding` and `DispatchNeverPanics`. These are the four checked safety invariants.

### Why `IInv` is stronger

The checked invariants are not inductive. `IInv` adds:
- `FreshChansOpen`: a channel not yet made is open. A fresh registration then stores an unclosed channel.
- `ChanHistory`: a made channel names a PID and an incarnation that has started. `ProcessSpawn` then cannot make a dead incarnation look alive.
- `KqueueStages`:
  - knotes, queued and received events are disjoint stages of one entry;
  - an armed knote watches the current live occupant, with the entry's incarnation;
  - a queued or received event reports the death of the entry's incarnation.

  Delivery then closes only channels of dead incarnations, and a registration finds its PID in no stage.
- `BatchOnlyInDeliver`.
- `CloseOrder`:
  - `Close` has begun ⇒ the context is cancelled;
  - the fd is closed exactly when `Close` has ended, and nothing is queued then.

  This rules out the `EBADF` panic.
- `WatcherChansMade`.

TLC checked `IInv` as an invariant of the safety instance before the proof was written.

### How the proof is laid out

- The step lemma `IInvStep` has one lemma per action.
- Two frame lemmas carry the parts an action does not touch:
  - `CoreFrame` for the caller steps;
  - `WatcherFrame` for kernel, `Close` and receive steps.
- The two actions that change both parts are split into one step per conjunct:
  - registration, whose argument is that the fresh channel differs from every entry (`RegisterStep`);
  - delivery, whose argument is injectivity of the registry, which keeps the entries it leaves distinct from the channels it closes.

### The refinement (`PeerTrackerRefinement.tla`)

`THEOREM TrackerImplementsOracle == Spec => OracleSpec` holds under the same assumptions. The proof has four parts:
1. The lemma `StepCases` shows that every step of `Next` is one of four kinds:
   - a kernel exit or spawn, which maps to `Exit` or `Spawn`;
   - a registration, which maps to `Arm` of the fresh channel;
   - a delivery, which maps to `Fire` of the channels it closes, or to a stutter when its PIDs have no entry;
   - a step that leaves the oracle's state alone.
2. `Arm` needs the PID to have no pending signal, while the registration's guard only says the PID has no entry. The invariant `UnfiredIsEntry` bridges the two: a made, unclosed channel is its PID's entry. It is inductive together with `IInv`, because delivery deletes an entry exactly when it closes the entry's channel. TLC checked it on the safety instance before it was proved.
3. `Fire` needs the closed channels to be pending and dead. These facts come from `RegistryInv` and `KqueueStages` of `IInv`.
4. The theorem combines `InitRefines`, `StepRefines` and `[](IInv /\ UnfiredIsEntry)` by PTL.

The oracle's `Arm` and `Fire` take a constant-level witness (`PICK`), never the state function `nextChan`, because they contain primes.

### What stays with TLC

Liveness (`ExitEventuallySignalled`, `ShutdownCompletes`) needs fairness and `ENABLED`, which TLAPS cannot handle here. The two violation runs are counterexamples and need no proof.

## 5. The generational expiry cache

`src/cmd/spire-server/cli/wit/mint.go`, lines 166-258, holds the generic
`Cache` of package `cache` (its tests are in `src/unnamed/part_006`). It keeps
two maps, `current` and `previous`, under one `sync.RWMutex`.
- `Get` first looks in `current` under `RLock`. On a miss or an expired entry
  it drops the read lock, takes the write lock and looks again. It then either
  deletes an expired entry from `current`, or promotes a live entry from
  `previous`, or deletes the key from `previous`. Then it runs the GC: if 10 s
  have passed since `lastGC`, `current` becomes `previous` and `current` is
  emptied.
- `Set` deletes the key from `previous` and stores it in `current`.
- `Delete` deletes it from both.

### Modules

| Module | Contents |
|---|---|
| `ExpiryCacheBase` | The constants (`Keys`, `Values`, `NoValue`, `MaxTime`), entries and their zero value `NoEntry` (value nil, expiry time zero), and `IsExpiredAt`, the translation of `IsExpired` (`now.After(expiry)`). |
| `ExpiryCacheContract` | What a cache promises, as an abstract spec over one map `store`. `Set` and `Delete` are atomic. `Get` may forget any set of entries and then either miss or return the live value stored for its key. |
| `ExpiryCache` | The code. `GetRLocked(c, k)` is lines 201-208, `GetLocked(c)` lines 210-236, with `CollectGarbage` the GC block 229-234. `Set`, `Delete` and `Init` (`NewCache`) follow. `pc[c]` records that client `c` is between `RUnlock` and `Lock`, and `gkey[c]` the key it asked for. The clock is a counter `now` that `Tick` advances up to `MaxTime`. |
| `MCExpiryCache` | Two keys, two values, two clients, `MaxTime = 4` and `GCInterval = 2` ticks. |
| `ExpiryCacheProofs` | The TLAPS proofs. |

A map from keys to entries is a total function, and an absent key maps to
`NoEntry`. This is exactly what Go's map index returns, and it is what the
finding below is about.

### Runs

| Run | Checks | Result |
|---|---|---|
| `expirycache_contract` | `TypeOK`, `ContractSpec` | pass, 218,700 distinct states |
| `expirycache_previous_generation` | `PreviousGenerationServed` | violation (finding 1) |

- **`ContractSpec`.** The cache refines `ExpiryCacheContract` under the
  mapping `StoreView`: a key's entry is its `current` entry, or else its
  `previous` entry. A hit must return the live value last `Set` and not
  deleted. The cache may only forget entries; it must never bring back a
  value that was replaced. Its mutant drops the `delete(c.previous, key)` of
  `Set`. The old value then survives in `previous` and reappears once the new
  one expires and is deleted from `current`.
- **`TypeOK`.** Its mutant makes the expired branch return the stored value
  instead of `nil, false`.

**Bounds.** Two clients are needed to put one `Get`'s GC swap between the two
halves of another. Two keys let a swap carry an unrelated entry. A clock of 4
with GC every 2 ticks allows an entry to expire, a swap, and a second swap.
Every action fires.

### Finding 1: the previous generation is never served (code_bug, mint.go:216)

For a key absent from `current`, `val` is the zero `valueWithExpiry`. Its
expiry is `time.Time{}`, so `val.IsExpired` is always true. The
`else if val.IsExpired` branch therefore swallows the absent case, and the
`else` branch that promotes a live entry from `previous` (218-223) is dead.

TLC's trace for `PreviousGenerationServed`:
1. Two `Get`s miss and wait for the write lock.
2. `k1` is `Set`.
3. One `Get` takes the lock after `GCInterval` and swaps generations, so the
   live `k1` moves to `previous`.
4. The other `Get`, for `k1`, misses.

After any swap every live entry is lost, and the cache empties every 10
seconds. The contract still holds, because a miss is always allowed. This
is a performance bug, not a safety bug.

### Proofs

`ExpiryCacheProofs.tla` proves the following for every value of the
constants. It assumes only `Keys # {}`, `NoValue \notin Values` and
positive `MaxTime` and `GCInterval`.
- `CacheTypeCorrect`: `Spec => []TypeOK`.
- `InvInvariant`: `Spec => []Inv`, where `Inv` is `TypeOK` and `Disjoint`.
  `Disjoint` says no key is in both generations. `Set` keeps it by its
  `delete(c.previous, key)`, and the swap keeps it by emptying `current`.
- `Implementation`: `Spec => ContractSpec`. This is the refinement the
  contract run checks. Its argument:
  - `InitRefines`: `NewCache` maps to the empty store.
  - `RefineStep`: each step maps to a contract step, or to a stutter.
    - A hit is a contract `Get` that forgets nothing (`HitRefines`).
    - A locked miss (`MissRefines`) is a contract `Get` that forgets the
      keys the delete and the swap remove. Without `Disjoint`, deleting
      from `current` would expose an older entry in `previous`, which is
      not a forgetting step. `DropWitness` gives the forgotten set
      explicitly.
    - `GetLockedCases` states that only the hit and the delete branches of
      the locked path occur, the fact behind finding 1.
    - `Set` and `Delete` map to the contract's `Set` and `Delete`.
    - `Tick` maps to `Tick`.
    - The fast path's miss maps to a stutter.

## 6. The disk UpstreamAuthority plugin

`src/unnamed/part_001` is a plugin that serves SPIRE's upstream CA from a
key file and a certificate file.
- `Configure` decodes the HCL and loads the CA with the new config
  (`loadUpstreamCAAndCerts`), all without the lock. It then takes `p.mtx`
  and commits `config` (now with the core trust domain), `certs` and
  `upstreamCA`.
- `MintX509CAAndSubscribe` calls `reloadCA`, which holds `p.mtx` for the
  whole step:
  - it reloads the files that `p.config` names;
  - on success it replaces the cache;
  - on failure it falls back to the cache;
  - with no cache, it fails.

  Signing the CSR with the returned CA changes no plugin state.

### `UpstreamCA.tla`

| Definition | Code |
|---|---|
| `LoadFails`, `LoadUpstreamCAAndCerts` | The error returns of `loadUpstreamCAAndCerts` (137-179), in order, then the CA built with `config.trustDomain` (186-192). |
| `ConfigureLoad(hcl, td)` | `Configure` up to the lock (199-208). A bad HCL or a failed load returns. |
| `ConfigureCommit` | `Configure` under the lock (210-219). |
| `ReloadCA`, `ReloadedCA` | `reloadCA` (117-134). |
| `Mint` | `MintX509CAAndSubscribe` (74-101). |
| `DiskWrite(p, c)` | An operator rewriting a pair of CA files. This is the environment, not code, and is bounded by `MaxWrites`. |

- **File contents.** The contents of a pair of files is a record:
  - the key file holds a key, or is missing;
  - the certificate file holds a certificate of some key, of kind `"self"`,
    `"issued"` or `"chain"`, or is missing.

  Each of the code's error returns is a disjunct of `LoadFails`.
- **CA origin.** A CA records the files it came from (`path`). The real CA
  does not hold this field; it is there so the properties can name where
  a CA was loaded from.
- **Host contract.** A `Mint` may run only once a config is committed. The
  plugin host configures a plugin before serving it.

### Runs

| Run | Checks | Result |
|---|---|---|
| `upstreamca_safety` | `TypeOK`, `CacheMatchesConfig` | pass, 77,637 distinct states |
| `upstreamca_trust_domain` | `MintUsesConfiguredTD` | violation (finding 2) |

- **`CacheMatchesConfig`.** A configured plugin always has a cached CA. That
  CA came from the files the current config names, and `p.certs` is its own
  certificate. This holds under every interleaving of `Configure`'s
  unlocked load and its commit with `Mint`s and file rewrites. Its mutant
  drops `Configure`'s load-error return.
- **`TypeOK`.** Its mutant drops line 215, so the committed config keeps
  the zero trust domain.

**Bounds.** The instance has two key pairs, two file locations, one trust
domain, two `Configure` calls and two rewrites. That is enough to:
- reconfigure to other files;
- break the files between `Configure`'s load and its commit, or after it;
- repair them.

### Finding 2: the fallback CA has no trust domain (code_bug, part_001:205)

`Configure` calls `loadUpstreamCAAndCerts(newConfig)` at line 205. It sets
`newConfig.trustDomain` only at line 215, so `NewUpstreamCA` (line 188) copies
the zero trust domain. That CA is cached.

TLC's trace:
1. `Configure` loads good files.
2. The files are rewritten with a missing certificate.
3. `Configure` commits.
4. A `Mint` falls back to the cached CA, whose trust domain is empty.

Once one reload has succeeded, the cache holds a CA with the right trust
domain, so the bug shows only when the files break before the first `Mint`.

### Proofs

`UpstreamCAProofs.tla` proves `UpstreamTypeCorrect` (`Spec => []TypeOK`) and
`CacheMatchesConfigInvariant` (`Spec => []CacheMatchesConfig`) for all
constants. The proof assumes only that the model values are distinct from
the sets they stand outside.

`CacheMatchesConfig` is not inductive: a commit installs whatever
`Configure` loaded. The strengthening `LoadedLocal` says that between its
load and its commit, `Configure` holds a real CA loaded from the files of
its new config, plus a real trust domain. TLC checked `IInv` on the safety
instance before it was proved. The lemma `LoadResult` says what
`loadUpstreamCAAndCerts` returns, and is used both for `Configure`'s load
and for `Mint`'s reload.

## 7. The attested-node cache

`src/pkg/common/witsvid/common.go`, lines 31-108, holds package `nodecache`.
Its test, `TestBuildCache`, is in `show.go` 176-243.
- `BuildFromDatastore` snapshots the nodes valid at build time.
- `RefreshAttestedNode` reads one node from the datastore without the lock,
  then stores it and `time.Now()` under the write lock.
- `FetchAttestedNode` returns the node and its refresh time, or `buildTime`
  if the node was never refreshed.
- `Rebuild` does nothing, and `PeriodicRebuild` calls it once after a tick.

### `NodeCache.tla`

| Definition | Code |
|---|---|
| `Init` | `BuildFromDatastore`, with `buildTime` = 0. |
| `RefreshFetch(r, id)` | The datastore read (81-85). |
| `RefreshCommit(r)` | The store under `c.mtx` (87-93). |
| `FetchAttestedNode(id)` | An operator, since it changes nothing. |
| `DsWrite` | The rest of the server writing the datastore; every write bumps the node's version. |
| `Tick` | The clock. |

A node as read is a snapshot `[ver, state]`. A deleted node reads as nil,
which the cache stores like any other node. The ghost `returned[id]` is the
newest node that a completed refresh returned, and `readAt[r]` is the time
of `r`'s read.

### Runs

The instance has one node, two refreshers, two writes and two ticks.

| Run | Checks | Result |
|---|---|---|
| `nodecache_concurrent_refresh` | `FetchReflectsCompletedRefresh` | violation (finding 3) |

- **`RefreshTimeMonotonic`.** A node's refresh time never goes back. It
  holds because the time is taken under the lock. It is proved for every
  instance (below), so no TLC run repeats it on this one.
- **Together.** The refresh time always goes forward, but the node it
  stamps can go back.

### Finding 3: a refresh can put back an older node (code_bug, common.go:90)

TLC's trace:
1. `r1` reads version 0.
2. The datastore writes version 1.
3. `r2` reads version 1 and commits, and its refresh returns version 1.
4. `r1` commits version 0.

`FetchAttestedNode` now returns version 0, with the newest refresh time.
`TestBuildCache` runs one refresh at a time and cannot see this. Two
possible fixes: compare the datastore's update time before storing, or
hold a per-id lock across the read.

### Proofs (`NodeCacheProofs.tla`)

`THEOREM RefreshTimeNeverGoesBack == Spec => RefreshTimeMonotonic` holds
for any IDs, refreshers and bounds, with no assumption on the constants.

The property does not follow from `RefreshCommit` alone, because the
commit overwrites the stored time with whatever `now` is. The proof rests
on the invariant `Stamped`: every stored refresh time is at most `now`,
and `now` never decreases. `Stamped` is inductive, with one step per
action:
- only `RefreshCommit` writes a refresh time, and it writes `now`;
- only `Tick` moves `now`, and it moves it forward.

From `Stamped`, every step is a `NoStampBack` step or a stutter. That
step property is the body of `RefreshTimeMonotonic`, and PTL combines the
two.

The mutant `RefreshCommitEarlyStamp` breaks the step: it stores `readAt`,
and `readAt` can be older than a time already stored.

## 8. The `wit mint` command

`src/cmd/spire-server/cli/wit/mint.go`, lines 29-149, is the
`spire-server wit mint` command. `Run` checks the SPIFFE ID, converts the
`-ttl` flag with `ttlToSeconds`, generates and marshals a key, calls
`MintWITSVID`, checks the token with `validateToken`, then prints it or
writes it to a file. `ttlToSeconds` computes
`(ttl + time.Second - 1) / time.Second` in 64-bit `time.Duration`
arithmetic and casts the result to `int32` with `util.CheckedCast`.

### `WitMint.tla`

| Definition | Code |
|---|---|
| `Inputs`, `Init` | The flags (`AppendFlags`, 49-54) and what the environment answers: which step fails, which token the server returns. |
| `TtlToSeconds` | `ttlToSeconds` (145-149): Go's wrap-around (`Wrap`), truncating division (`GoDiv`) and the checked cast. |
| `Tokens`, `HasEndOfLife` | `getWITSVIDEndOfLife` (127-143), abstracted to the kind of token: empty, unparsable, without `exp`, or with a lifetime. |
| `ValidateTokenWarnings` | `validateToken` (109-125): only the empty token is an error. |
| `MintRun`, `Run` | `Run` (56-107), one `CASE` arm per return, in code order. |

The widths are kept, scaled down, as half-ranges:
- a `Duration` lies in `-DurationHalf .. DurationHalf-1`;
- a second is `Second` ticks;
- the request's TTL lies in `-TtlHalf .. TtlHalf-1`.

The run uses 2^7, 4 and 2^3 in place of 2^63, 10^9 and 2^31. As in the
code, `TtlHalf + 2` seconds fit inside `DurationHalf`. So the run still has
TTLs that round up, TTLs past the `int32` range, and TTLs whose rounding
sum wraps around. `MintRun` is an `IF ... ELSE IF` chain: the returns are
ordered, as the code's are.

### Runs

| Run | Checks | Result |
|---|---|---|
| `witmint_ttl` | `NonNegativeTtlIsCeiling` | pass, 76,800 distinct states (every input) |

- **`NonNegativeTtlIsCeiling`.** A TTL of zero or more is sent as the
  least whole number of seconds that covers it (`CeilSeconds`, defined by
  that property rather than by the code's formula). It is refused with
  "invalid value for TTL" exactly when that number does not fit the
  request. Near the top of the `Duration` range the rounding sum wraps to
  a negative number, and only the checked cast turns that into the right
  error.
- **Mutant.** `TtlToSecondsTruncating` drops the rounding term and breaks
  `NonNegativeTtlIsCeiling`. The module keeps no type invariant: a plain
  `int32(...)` conversion in place of the checked cast would wrap into the
  type, so only `NonNegativeTtlIsCeiling`, which compares the TTL sent
  with the flag, can tell it from the code.

### Proofs (`WitMintProofs.tla`)

The constants are assumed to satisfy
`(TtlHalf + 2) * Second <= DurationHalf`. In the code,
(2^31 + 2) · 10^9 ≤ 2^63. Under that assumption, for every value of the
constants:
- `TtlToSecondsNonNegative`: for `0 <= d < DurationHalf`,
  `TtlToSeconds(d)` is `{CeilSeconds(d)}` when the ceiling is an `int32`,
  and the error `{}` otherwise.
  - `CeilIs` shows that the `CHOOSE` in `CeilSeconds` picks
    `(d + Second - 1) \div Second`, the unique `n` with
    (n-1)·Second < d ≤ n·Second.
  - When the sum does not wrap, the code's quotient is that `n`.
  - When it wraps, the quotient is below `-TtlHalf`, and the ceiling is
    above `TtlHalf`. So both sides are out of range. This is where the
    assumption is used.
  - The arithmetic rests on two lemmas: `DivBounds` (floor division
    brackets its dividend) and `MulLess` (cancelling a positive factor).
- `MintRunPastTtl` and `MintRunTtl` follow the returns of `Run`, one step
  per return.
- `IInv` says the input is fixed and the output is empty or `MintRun(in)`.
  It is inductive, and from it follows `TtlCeilingInvariant`:
  `Spec => []NonNegativeTtlIsCeiling`.

The run checks one scaled instance exhaustively; the theorems cover every
width, including the code's 64/32-bit one, which TLC cannot enumerate.

### Observation: negative TTLs are not rounded up (mint.go:148)

The comment of `ttlToSeconds` promises the duration "rounded up to the
nearest second". Go's division truncates toward zero, so for a negative
TTL the idiom rounds the wrong way. For example, -38 ticks (-9.5 s at
the run's scale): the code sends -8 s, the ceiling is -9 s. `Run` never rejects a
negative flag, so such a request reaches the server. The rule of
`NonNegativeTtlIsCeiling`, stated for every TTL, fails on it. The
project keeps only the non-negative rule as a run: nothing in this
repository gives a negative TTL a meaning.

## 9. The `template show` and `template create` commands

`src/cmd/spire-server/cli/template/show.go` 1-175, `create.go` and
`util.go` are two client commands on the server's SPIFFE ID template store.
- `show` validates its flags. It then pages through
  `ListSPIFFEIDTemplates`, 500 at a time, until the server returns an empty
  `NextPageToken`.
- `create` validates its flags and builds one template in `parseConfig`:
  - it parses the parent ID;
  - it casts both TTL flags to `int32` with `CheckedCast`;
  - it parses each selector.

  It then sends the template with `BatchCreateSPIFFEIDTemplate`.

### `TemplateCLI.tla`

| Definition | Code |
|---|---|
| `ShowInputs`, `CreateInputs` | the flags (`AppendFlags`) |
| `ShowValidate`, `ShowStart` | `showCommand.validate` and `Run` up to the first RPC |
| `ShowFetchPage`, `ShowFetchFail` | one turn of the loop in `fetchEntries`, and its error return |
| `CreateValidate`, `ParseConfig`, `IdStringToProtoFails`, `Template` | `createCommand.validate`, `parseConfig` and `idStringToProto` |
| `CreateTemplates`, `CreateRun` | `createTemplates`, the error of `prettyPrintCreate`, and `createCommand.Run` |
| `OtherCreate`, `OtherDelete`, `ServerPage`, `NextPageToken` | the environment: other clients, and the server's paging |

The server is not code of this repository, so it is modelled as the
environment:
- template IDs are ordered;
- a page is the `PageSize` smallest IDs after the token;
- the page comes as a list of its IDs in any order (`PageLists`), since
  `fetchEntries` only appends it;
- the next token is the page's last ID, or empty after an empty page
  (`NextPageTokens`).

The server's answer is stated as a relation, not computed with a sort or
a maximum. That keeps the module free of recursive operators, so TLAPS can
reason about it.

`stable` is a ghost variable: the templates present since `show` started
and not deleted since.

### Runs

The instance has three IDs, pages of two and two writes by other clients,
so a listing spans pages with writes between them. The `int32` of the run
has 4 bits (`TtlHalf` = 2^3). The TTL flags are -1, 0, 8 and 17: a plain
`int32()` conversion would wrap 8 to -8 and 17 to 1, a positive TTL that no
range check notices.

| Run | Checks | Result |
|---|---|---|
| `templatecli_safety` | `ShowListsStableTemplates`, `CreatedTtlsAsGiven`, `CreatedTtlsInRange` | pass, 87,823 distinct states |
| `templatecli_show_templateid` | `ShowRespectsTemplateID` | violation (finding 4) |

- **`ShowListsStableTemplates`.** A successful `show` lists, once each,
  every template that was present throughout the listing. Its mutant leaves
  the loop after one page.
- **`CreatedTtlsInRange`.** No stored template has a negative TTL. Its
  mutant drops `validate`'s sign checks.
- **`CreatedTtlsAsGiven`.** Every template `create` stores has exactly the
  TTLs of its `-x509SVIDTTL` and `-jwtSVIDTTL` flags. The ghost `created`
  records each stored template with the flags it came from. `CheckedCast`
  models `util.CheckedCast[int32]`. Its mutant `Int32Wrap` is a plain
  `int32()` conversion, which wraps modulo 2^32 and so always stays in
  range.

### Proofs (`TemplateCLIProofs.tla`)

Four theorems hold for any IDs, selectors, TTL flags, `int32` half-range,
page size and bounds. They rest on `TemplateConstAssumption`: IDs are
positive and finitely many, TTL flags are integers, `TtlHalf` and
`PageSize` are positive.
- `TemplateTypeCorrect == Spec => []TypeOK`. The server holds only
  templates whose TTLs fit `int32` and whose selectors parsed. The show
  loop's list and token are IDs.
- `CreatedTtlsNonNegative == Spec => []CreatedTtlsInRange`. `create` stores
  no negative TTL.
- `CreatedTtlsExact == Spec => []CreatedTtlsAsGiven`. `create` stores the
  flags' TTLs unchanged or refuses them.
- `ShowListsEveryStableTemplate == Spec => []ShowListsStableTemplates`. A
  `show` that answers "ok" has listed, once each, every template present
  from its start to its end, however other clients write between pages.

`TypeOK`, `CreatedTtlsInRange` and `CreatedTtlsAsGiven` are inductive as
they stand. Each step
proof has one case per action. The case of `CreateRun` splits on `validate`
and `parseConfig`, with these lemmas:
- `ParsedTemplate`: after `parseConfig` succeeds, the template fits the store.
- `ValidatedTtls`: after `validate` succeeds, both TTLs are zero or more.
- `TemplateTtls`: the template carries the flags' TTLs.
- `PageListsAreSeqs` and `PageFromStore`: for the show loop.

`ShowListsStableTemplates` is not inductive. It only speaks of the state
after the last page, so a step proof has nothing to start from on the page
that ends the loop. The invariant `ShowInv` adds what holds while `show` is
in `fetchEntries`' loop:
- every listed ID is at most the token;
- the list has no repeats;
- every template present since the start with an ID up to the token is listed;
- the templates present since the start are still in the store;
- `show` answers "ok" only once it has left the loop.

TLC checked `ShowInv` on the instance of `templatecli_safety` before it was
proved. Its step for `ShowFetchPage` rests on three facts about the
server's page after the token:
- `PageAfterToken`: its IDs lie past the token, so appending them to the
  list adds no repeat (`AppendAbove`).
- `PageIsPrefix`: it holds every ID of the store between the token and its
  last ID. So after the turn, every template up to the new token is listed.
  The proof compares the numbers of smaller IDs with `FS_Subset`.
- `PageNonEmpty`: it is empty only when nothing of the store lies past the
  token. The least ID past the token is on the page. The proof finds that ID
  with `WFMin` over `<` on `Nat`. This case is the one that ends the loop.
`PageListOnto` says that a page's list holds each ID of the page once. It
uses `FS_Injection`: an injection from `1..Cardinality(page)` onto the page
is a bijection. Other clients' writes and `create` keep `ShowInv` by
`ShowFrame`: they leave the loop's state alone and only shrink `stable`.

### Observation: a template without selectors (create.go:109)

`validate` answers "at least one selector is required", but only when the
SPIFFE ID template is empty as well. `create -parentID ... -spiffeIDTemplate
... ` without `-selector` passes both `validate` and `parseConfig`. It then
stores a template with no selectors.

### Finding 4: `show` ignores its filters (code_bug, show.go:112)

`validate` rejects `-templateID` combined with `-parentID` or `-selector`,
as if `-templateID` selected one record. But `fetchEntries` sends only the
page size and token. So every filter flag is ignored, and
`show -templateID X` lists every template.

## 10. The `spire-agent run` command

`src/cmd/spire-agent/cli/run/run.go` starts the agent. `Run`:
1. parses the flags, and returns 1 on an error;
2. parses the HCL config file named by `-config`, and returns 1 on an error;
3. merges the file and then the flags over `newDefaultConfig` with
   `mergeConfigs` ("CLI > File, merge fileConfig first");
4. validates the result with `validateConfig`;
5. starts `signalListener` and `agent.New(ctx, c).Run()`, and returns 1
   when the agent returns an error, 0 otherwise.

The errors of steps 3 and 4 are printed and then ignored.

### `AgentRun.tla`

| Definition | Code |
|---|---|
| `Fields`, `RunConfigs`, `FlagConfigs` | `runConfig` and `agentConfig`, as HCL decodes them and as `parseFlags` fills them |
| `DefaultConfig` | `newDefaultConfig` |
| `Steps`, `Checked`, `Fails`, `Sets`, `Completes`, `Writes`, `NewVal`, `MergeConfig` | `mergeConfig`, its steps in code order, with `LookupIP`, `parseTrustBundle`, `NewLogger` and `ParseInt` as the steps that can fail |
| `MergeConfigs` | `mergeConfigs` |
| `ValidateConfig` | `validateConfig` |
| `ParseFail`, `Start`, `AgentReturns` | `Run`: its two early returns, the merge, validation and start, and the exit code |
| `Signal` | the goroutine of `signalListener` |

A field's value is abstracted to where it came from: `"file"`, `"cli"` or
`Default`. An input field is `Unset` ("" or 0), `Given`, or `Bad`. Only a
field that a step parses can be `Bad`: an address `LookupIP` cannot resolve
(or that resolves to no IP), a bundle with no PEM certificate, a log file
`NewLogger` cannot open, or a umask `ParseInt` rejects.

`mergeConfig` is a straight line of `if`s with early returns, and it writes
through the `orig` pointer. So a step's write survives the error of a later
step. `MergeConfig` says this without recursion. Step `i` writes when no
step up to `i` fails and its field is set.

`agent.Run` is not in this repository. `AgentReturns(err)` lets it return,
with an error or without, at any time.

### Run

`MCAgentRun` lets the file and the flags each set, leave unset or give a
bad value to:
- the server address;
- the trust bundle;
- the log file.

They may also set the port and the log level. The other plain fields
follow the same path through `mergeConfig` as the port, so they are left
unset. With the four outcomes of the two parses, the run starts from
46,656 states.

| Run | Checks | Result |
|---|---|---|
| `agentrun_log_precedence` | `LogSettingsPerField` | violation (finding 5) |

`ConfigPrecedence` says that, once the agent runs on a config merged
without error, every other field holds the flag's value if given, else
the file's, else the default. It holds on this instance (151,632 distinct
states, checked with `TypeOK`). It is proved for every input below, so no
run repeats it.

### Finding 5: a log flag discards the file's other log setting (code_bug, run.go:232)

`mergeConfig` handles the log level and the log file as one step.
- When `cmd` sets either setting, the step builds a new logger from
  `cmd`'s level (`defaultLogLevel` when unset) and `cmd`'s file (stdout
  when unset).
- The logger the file's merge built is replaced.

TLC's trace: the file sets `log_file`, and the flags set only `-logLevel`.
The agent then logs to stdout at the flag's level, and the file's
`log_file` is lost. Likewise, `-logFile` alone resets the file's
`log_level` to INFO. The comment "CLI > File" holds for every other field
(`FlagsOverrideFile`), but not for these two.

### Proofs (`AgentRunProofs.tla`)

`THEOREM FlagsOverrideFile == Spec => []ConfigPrecedence` holds for all
inputs, with no assumption on the constants.
- The invariant `MergedInv` says that, once the agent runs, `cfg` and
  `mergeErr` are what `MergeConfigs` computes from the inputs, which no
  step changes.
- The lemma `MergeWithoutError` shows that a `mergeConfig` with no error
  writes each non-log field the command sets and leaves the others alone.
  It relies on `StepOfPlainField`: such a field is written by its own step.
- `MergeHonoursPrecedence` composes the two merges.

One more theorem holds with no assumption either:
- `FileErrorIgnoresFlags == Spec => []FileErrorDropsFlags`. This is the
  error path of run.go:84, which `Run` prints and ignores. When a step of
  the file's merge fails, the agent runs with no flag's value in its
  config. Every field whose step comes at or after the failing one holds
  `newDefaultConfig`'s value. It follows from `MergedInv` and the lemma
  `FileErrorResult`.
  TLC checked it and `MergedInv` on the instance of `MCAgentRun`, with
  151,632 distinct states, before they were proved. No run checks it,
  since the proof covers every input.
  `FileErrorDropsFlags` states what the code does, not a rule it means to
  keep. So it documents the observation below and is not a finding.

### Observations: the errors `Run` ignores (run.go:84-92)

- When `mergeConfigs` fails, the config keeps the writes of the steps
  before the failing one. Every later field of the file, and every flag,
  is dropped.
- The error is printed as `fmt.Println(err.Error)`. That prints the
  method value, not the message.
- The error of `validateConfig` is printed, and the agent is started all
  the same, even without a server address or a trust bundle.

`agent.Run`, which is outside `src/`, is left to fail on such a config.
No property states a rule here that the code means to keep.

## 11. Not modelled, and the plan

**The other components.**
- They are listed in `PROJECT.json` with the reason for each.
- The tracker's remaining hazards without a property are:
  - unbounded registry growth: a resource question, bounded in the model;
  - watchers left optimistic after `Tracker.Close`: the spec puts use after `Close` out of contract.

**Planned modules, in order:**
1. The flag handling and server start-up of
   `support/oidc-discovery-provider/main.go`: `run` starts its HTTP
   servers in goroutines and `debugCommand.Run` parses a timeout. A model
   of them would need its own run.

The CA journal (`journal.go`) is left out for good. Its save goes through
`diskutil.AtomicWritePubliclyReadableFile`, which is not under `src/` and
owns the write order, so the file itself holds only encoding.
