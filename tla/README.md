# TLA+ models of Nuon

This directory holds TLA+ models of the parts of the Nuon sources (`src/`) whose
behaviour depends on the order of events. Each model is checked with TLC.
`PROJECT.json` is the machine-readable index. It lists every component, run,
mutant and hazard, and maps each definition to the source lines it translates.

## 1. Inventory

The repository holds a subset of the relay. spec.md describes a whole relay
core: channels, circuits, cells, flow control, the scheduler and the crypto
workers. Most of that code is not in `src/`. Here is what is present.

| Component | Source | State | Operations | Hard behaviour |
|---|---|---|---|---|
| Circuit build-time learning (CBT) | `src/core/or/circuitstats.c` | `circuit_build_times_t`: ring of the last N build times, `total_build_times`, `build_times_idx`, `timeout_ms`, `close_ms`, success/timeout/close counters, liveness ring `timeouts_after_firsthop` with its index, `nonlive_timeouts` | `handle_completed_hop`, `count_timeout`, `count_close`, `network_is_live`, `new_consensus_params`, `parse_state`, `update_state` | Circuit events and consensus changes interleave. One call can reset the history and then record into it. Timeouts are doubled across resets with an overflow guard. The liveness ring is resized, freed and re-allocated by consensus parameters. |
| Managed pluggable-transport proxies (lines in PtLines) | `src/feature/client/transports.c` | `managed_proxy_list`, per proxy `conf_state`, `transports`, `transports_to_launch`, `marked_for_removal`, `was_around_before_config_read`, `proxy_uri`/`proxy_supported`, `process`; globals `unconfigured_proxies_n`, `check_if_restarts_needed` | `pt_kickstart_proxy`, `pt_prepare_proxy_list_for_config_read`, `sweep_proxy_list`, `pt_configure_remaining_proxies` (launch, restart), `managed_proxy_stdout_callback` (`handle_proxy_line`, `handle_finished_proxy`), `managed_proxy_exit_callback`, `pt_free_all` | The configuration protocol arrives as lines from a child process. A config read (SIGHUP) can happen between ticks. A child can exit at any point. Process handles are reused across restarts. |
| Transport registry | `transports.c` (`transport_add`, mark/sweep) | `transport_list` | add, resolve conflicts, mark, sweep | Conflicts between a configured bridge transport and a proxy-launched one. |
| Hibernation and accounting | `src/unnamed/part_000` (hibernate.c) | `hibernate_state`, interval start/end/wakeup, byte and second counters, soft-limit data | `consider_hibernation`, `hibernate_begin`/`end`/`go_dormant`, `accounting_add_bytes`, `accounting_run_housekeeping`, `accounting_record_bandwidth_usage`, `read_bandwidth_usage` | Clock-driven state machine. Usage is persisted every 600 s or 20 MB and lost on a crash. Accounting can be switched off mid-interval. |
| Memory arena | `src/unnamed/part_005` lines 2247-2650 (memarea.c) | chunk list, `next_mem`, `mem_size` | `memarea_alloc`, `memarea_clear`, `memarea_drop_all` | Pointer arithmetic at the chunk boundary, alignment, dedicated chunks for large requests. |
| Address utilities | part_005 lines 1-2246 (address.c) | none between calls | `tor_addr_compare_masked`, `tor_addr_is_internal_`, `tor_addr_parse_mask_ports`, `parse_port_range`, `tor_addr_port_parse`, formatting | Masks at byte, word and `::ffff:` boundaries; the semantic comparison across IPv4, IPv6 and v4-mapped addresses; the grammar of address patterns and its edge cases. |
| Tagged key files | `src/lib/crypt_ops/crypto_format.c` lines 33-128 | the file on disk | `crypto_write_tagged_contents_to_file`, `crypto_read_tagged_contents_from_file` | A 32-byte header checked by string prefixes and a `size_t` length; the file may be replaced by another program between write and read. |
| tor-gencert | `src/tools/tor-gencert.c` | the identity key, signing key and certificate files, across runs | `parse_commandline`, `load_identity_key`, `load_signing_key`, `generate_signing_key`, `generate_certificate`, `main` | Each step may fail after an earlier one has changed a file; some file writes are not checked; runs repeat on the same files. |
| Key base64 wrappers, tests, headers, tracepoints, docs | various | none | encodings and declarations | No behaviour of their own. |

The hard behaviours and the properties they call for are these.

- **CBT.**
  - The ring buffer stays consistent with `total_build_times`.
  - `close_ms >= timeout_ms` after every path.
  - The doubled timeouts stay below INT32_MAX.
  - Never `cbtmaxtimeouts` recent timeouts without a reset.
  - The liveness index stays inside its array.
  - The ring refines "the last N samples".
- **Managed proxies.**
  - `assert_unconfigured_count_ok`: the count equals the non-COMPLETED proxies.
  - Transports are registered only after VERSION and METHODS DONE.
  - No use of a freed process handle.
  - Every launched proxy eventually completes or is destroyed.
- **Hibernation.**
  - A relay that has used AccountingMax is dormant after every `consider_hibernation`, also right after a restart.
  - Usage is recorded every NOTE_BYTES, so a crash loses less than that.
  - A dormant relay always has its wakeup scheduled, no later than its interval's end.
  - The interval in use is the one containing now, also after a restart from an old state file.
  - With accounting off, the relay does not go dormant.
- **Memarea.**
  - Allocations lie inside their chunk and do not overlap.
  - `next_mem` never passes the realigned end.
  - `memarea_owns_ptr` recognises every live pointer.
- **Addresses.**
  - The comparison is a total order, reads masks as bit prefixes, and reads the mask relative to `addr1`.
  - `tor_addr_is_internal_` agrees with semantic equality.
  - An accepted address pattern or `host:port` text means what the comments say.

## 2. Plan

The modules in order of importance:

1. `CircuitBuildTimes` (with abstract `CBTWindow`), including the state file (`update_state`, `parse_state`) across restarts. This is done, see below.
2. `ManagedProxy` (with the transport registry). This is done, see below, with the liveness of configuration under fair ticks. Still to add: an abstract proxy lifecycle.
3. `Hibernate`: the `hibernate_state` machine over a bounded clock, with byte counters, state-file saves, and crash/restart from the saved usage. This is done, see below. Still to add: a liveness check that a relay wakes in every interval, which needs a clock without a horizon.
4. `Memarea`: the allocator over small CHUNK_SIZE and alignment, with allocation sizes as inputs. This is done, see below.
5. `Address` and its caller harness `AddressCalls`: the comparison, classification and parsing functions of address.c as operators, checked against bit-level references and the comments. This is done, see below. Still to add: the formatting functions, as the inverse of parsing.
6. Done: a liveness property for the managed-proxy configuration under fair ticks (`ProxiesEventuallySettled`).
7. Done: `PtArgs`, the escaped strings passed to transports; `PtEnv`, the environment of a managed proxy and the published transports; `PtLines`, the protocol lines as words, shown to implement ManagedProxy's abstract line handling; `TaggedFile` and `GenCert`, the key files and the tool that writes them.

Abstract specifications to state:

- `CBTWindow`: the history of the last N samples, and the samples storage holds across a restart. This is done.
- An abstract proxy lifecycle: `unconfigured -> completed | gone`, which `ManagedProxy` refines.
- An abstract allocator: disjoint live blocks.

## 3. What is modelled and checked

`PROJECT.json` lists twelve runs: one passing run per component and the seven violation runs of the disagreements with the most effect. The other violations found are described under Findings; each has its own cfg that reproduces it.

### CircuitBuildTimes (`CircuitBuildTimes.tla`, `CBTWindow.tla`, `MC_CircuitBuildTimes.tla`)

**State.** The record variable `cbt` mirrors `circuit_build_times_t`. Its fields are:

- `times`, `total`, `idx`: the build-time ring, `total_build_times` and `build_times_idx`.
- `timeout`, `close`: `timeout_ms` and `close_ms`.
- `haveComputed`.
- `recent`, `fhIdx`, `numRecent`: `timeouts_after_firsthop`, `after_firsthop_idx` and `num_recent_circs`.
- `nonlive`: `nonlive_timeouts`.

A second variable, `disabled`, holds `circuit_build_times_disabled()`: the `cbtdisabled` consensus parameter or the torrc option.

`saved` is the history in the state file: `TotalBuildTimes`, `CircuitBuildAbandonedCount` and the `CircuitBuildTimeBin` lines, each line a record of its word count and its two numbers. `history` is a history variable, not code. It records whether this process wrote the file, the samples the file stood for when it was written (each moved to the middle of its bin), and whether the process has done anything since it started.

**Operators.** Each C function that changes the struct is an operator from one `cbt` record to the next, named after it: `Reset`, `AddTime`, `SetTimeout`, `NetworkCheckChanged`, `CountTimeoutOp`, and so on. An action that calls several C functions applies their composition in one step. `HandleCompletedHop` is `mark_circ_as_measurement_only`, then `count_timeout`, then `add_time`, then `set_timeout`, then `network_circ_success`, exactly as the C code calls them.

**Actions.** The actions are the entry points that other subsystems call:

- `HandleCompletedHop`
- `CountTimeout` and `CountClose`, from `circuit_expire_building`
- `NetworkIsLive`, called on each cell
- `NewConsensusParams`
- `SaveState`: `or_state_save` calls `update_state`, which writes the total, the abandoned count and one line per non-empty bin
- `ReplaceState`: the state file is one this process did not write (a version that observes more circuits, or a hand edit)
- `Restart`: the process stops and starts again; memory is lost and the saved history goes through `parse_state`

The attributes of a circuit are inputs chosen with `\E`: its build time, whether any circuit is open, whether it is already measurement-only, whether it reached the third hop, and whether it was relaxed.

**Abstractions.**

- Times are scaled: `Int32Max = 16` stands for INT32_MAX.
- The `num_circ_succeeded`/`num_circ_timeouts`/`num_circ_closed` counters and their `circuit_build_times_scale_circ_counts` rescaling feed only the logged timeout rate and the control-port event, never a decision of this code, so they are left out.
- `get_xm` is translated exactly: the histogram, the first-largest-bin mode loop and the integer mean.
- `update_alpha`/`calculate_timeout` (a floating-point Pareto fit) are replaced by what they guarantee. A quantile is at least Xm and clamped to INT32_MAX, and the close quantile's value is at least the timeout quantile's. Values are chosen from {Xm, 2Xm, Int32Max}.
- The clock is abstracted. `network_close`'s test `network_last_live < start_time` is an input, and clock jumps in `handle_completed_hop` are build times above `2*close_ms+1000` (scaled: `+JumpSlack`).
- An out-of-bounds write into `timeouts_after_firsthop` is undefined behaviour. It is modelled as a write that lands outside the modelled array.
- `parse_state` is the operator `ParseState`. `LoadLines` is its loop over the bin lines, with both `tor_parse_ulong` failures, the "Stopping short" bound check in `uint32_t` (modulo `Uint32Mod`, 2^32 scaled to 32) and the writes to `loaded_times`. The writes are a sequence that may grow past the `TotalBuildTimes` entries allocated, so an overrun is visible. `shuffle_and_store_array` (Fisher-Yates, then `add_time` of the first N) is every permutation of the loaded times. Both consistency checks fall back to `reset`. The return value -1 changes nothing else in this file, so it is left out.

**Harness.** `MC_CircuitBuildTimes` runs two harnesses side by side, chosen at the start by `mode`:

- `"learn"` is every learning action with the state file left alone, as in the original model.
- `"restart"` adds saves, foreign state files and restarts. Its circuits are the fast ordinary ones: a circuit has opened before, the path is complete, the circuit is not measurement-only and not relaxed, and it beat the timeout. It also closes circuits while the network is live.

Restricting the restart harness this way keeps the product of saved files and in-memory states small. Timeouts and consensus changes reach the state file only through the samples, and the foreign files bring in the slow time 9.

**Bounds** (`MC_CircuitBuildTimes.tla`):

- A three-slot ring and two build times, 1 and 9.
- Initial timeout 3, min timeout 2, `cbtmaxtimeouts` 2, `cbtrecentcount` in {2, 3}.

These bounds are enough for the interesting cases:

- The slow time 9 first times out, is a clock jump while `close_ms = 3`, and becomes a real sample once `close_ms` has doubled.
- Three resets double 3 to 6 to 12 and then hit the INT32_MAX/2 guard.
- The ring wraps.
- The recent ring is resized in both directions and freed.
- The foreign state files take every branch of `parse_state`. One comes from a version that observes four circuits (a random three of its four times are kept). One has counts that disagree with its total (reset). One has a bin line of one word (the loop breaks, then the count check resets).

**Runs.**

| Run | Properties | Result |
|---|---|---|
| `cbt_safety` | `TypeOK`, `RingConsistent`, `CloseCoversTimeout`, `TimeoutBounded`, `RecentTimeoutsBelowMax`; `RestartRestoresHistory` (in the state a restart leaves, a history this process saved is back: the same samples, each at the middle of its bin, and the same abandoned circuits); and the temporal property `WindowRefinement`: the ring implements `CBTWindow` (the last N samples in order, reset, reset-and-record in one call, or, at a restart, at most N of the samples the state file holds, in any order; the refinement mapping takes `window` to the ring read oldest first and `stored` to the samples the file's lines and abandoned count stand for) | pass: 38,258 distinct states, about 1 min |
| `cbt_state_overrun` | `LoadStaysInBuffer` | **violation**: a real bug, see Findings |
| `cbt_firsthop_idx` | `FirsthopIdxInRange` | **violation**: a real bug, see Findings |

Every property has a mutant in `PROJECT.json`. Each mutant is a plausible slip in the C function the property depends on, and TLC finds the property violated when the mutant replaces the function:

- `add_time` without its `total_build_times` cap
- a reset that keeps `total_build_times`
- doubling only `timeout_ms`
- doubling without the guard
- resetting only above `cbtmaxtimeouts`
- indexing the ring by `total_build_times`
- `update_state` labelling each line with the next bin's middle

No fairness is assumed. The CBT properties are all safety properties. The code gives no progress guarantee of its own, since circuit events and consensuses come from outside.


### ManagedProxy (`ManagedProxy.tla`, `MC_ManagedProxy.tla`)

**How the parts interact.** Tor reads its torrc at start-up and on SIGHUP or SETCONF. For each `ClientTransportPlugin` line it calls `pt_kickstart_proxy`, which creates a `managed_proxy_t` for a new command line. Once a second, while `pt_proxies_configuration_pending()`, `pt_configure_remaining_proxies` launches the new proxies as child processes and restarts those whose transports changed. The child then speaks the configuration protocol on stdout: VERSION, then METHOD lines, then METHODS DONE. Each line arrives through `managed_proxy_stdout_callback`. When the protocol finishes, the proxy's transports are registered in `transport_list`, where the bridge code looks them up. The header comment of `transports.c` describes the config-read sequence: mark, kickstart, sweep.

**State.**

- `mp`: the `managed_proxy_t` records by creation number. Each has its `conf_state`, `transports` (a sequence, as announced), `transports_to_launch` (a set; `add_transport_to_proxy` removes duplicates), `marked_for_removal`, `was_around_before_config_read`, `proxy_uri` and `proxy_supported`.
- `list`: `managed_proxy_list`, in order.
- `unconf`: `unconfigured_proxies_n`.
- `check`: `check_if_restarts_needed`.
- `ptProxy`: the current `get_pt_proxy_uri()`.
- `reg`: `transport_list`, as name → owning proxy and mark. The listener address of a transport is identified with the proxy that announced it.
- `proc`: each proxy's `process_t` (`mp->process`, created once by `managed_proxy_create`). It holds the callback argument set by `process_set_data`, whether a child is running, and whether the process subsystem has freed it.
- `uaf`: the handles used after they were freed.
- `aborted`: a `tor_assert` has failed.

**Actions.**

- `ConfigRead(conf, uri)`: `pt_prepare_proxy_list_for_config_read`, `mark_transport_list`, `pt_kickstart_proxy` per line (with `managed_proxy_create`), `sweep_proxy_list` and `sweep_transport_list`, in one step.
- `Tick`: `pt_configure_remaining_proxies` with `proxy_needs_restart`, `proxy_prepare_for_restart`, `configure_proxy` and `launch_managed_proxy`. Each exec succeeds or fails, chosen with `\E`.
- `Stdout(h, line)`: `handle_proxy_line`, then `handle_finished_proxy` (destroy, or `register_client_proxy` and COMPLETED).
- `Exit(h)`: `managed_proxy_exit_callback`. It returns true, so the process subsystem frees the `process_t`.
- `Stopped`: after a failed `tor_assert` nothing happens any more.

The assertion in `assert_unconfigured_count_ok` is modelled where it can fail, at the start of a tick and in the config read. There, a failure moves to `aborted`.

**Abstractions.**

- Lines are classes that `handle_proxy_line` tells apart:
  - `ERROR` (ENV-ERROR, VERSION-ERROR, PROXY-ERROR)
  - `VERSION`, `VERSION_BAD`
  - `DONE`
  - `METHOD_ERROR`
  - `METHOD_BAD`
  - a METHOD line per transport name
  - `PROXY_DONE`
  - `LOG` (LOG, STATUS and unknown lines)
- All proxies are client proxies. Server proxies differ only in `register_server_proxy`, which writes the state file.
- The process subsystem is not in the repository. It is modelled from what `transports.c` relies on: the comments at 736-741 and 1951-1952.

**Bounds** (`MC_ManagedProxy.tla`):

- Two command lines.
- Two transport names.
- One outgoing proxy URI besides none.
- Two proxy creations.
- One METHOD line per launch.

These are enough for two proxies that offer the same name (a registry conflict), for a restart after a transport or URI change, and for a proxy destroyed and created again. A second METHOD line per launch (duplicate announcements) makes the passing run take over three minutes.

**Runs.**

| Run | Properties | Result |
|---|---|---|
| `mp_safety` | `TypeOK`; `NoOrphanChild` (a running child with a callback argument belongs to a listed proxy in a protocol state); `RestartPreconditions` (the asserts of `proxy_needs_restart`); `NoFinishedProxyListed` (the asserts of `pt_configure_remaining_proxies`); `ProxiesEventuallySettled` (under `FairSpec`, a proxy marked by a config read or INFANT is eventually checked and launched, destroyed, or the count has gone wrong) | pass: 46,680 distinct states, about 1 min |
| `mp_count` | `UnconfiguredCountOk` (`assert_unconfigured_count_ok`) | **violation**, see Findings |
| `mp_uaf` | `NoProcessUseAfterFree` | **violation** |
| `mp_registry_stale` | `RegisteredOwnerLive` | **violation** |
| (`MC_ManagedProxy_lost.cfg`) | `CompletedRegistered` | **violation**; kept as a cfg, not a run of `PROJECT.json` |

The mutants of `mp_safety`:

- testing the CMETHOD prefix before CMETHOD-ERROR
- terminating a child without clearing its process data
- a config read that sets `was_around` without marking the proxy
- `proxy_configuration_finished` without BROKEN
- `pt_proxies_configuration_pending` without `check_if_restarts_needed`: a config read that keeps a COMPLETED proxy and adds none sets only the flag, no tick follows, and the proxy stays marked `was_around_before_config_read`

**Fairness.** `mp_safety` checks `FairSpec == Spec /\ WF_vars(Tick)`. The main-loop caller of `pt_configure_remaining_proxies` is not in this repository. The comments of `transports.c` state the contract the model assumes: a proxy prepared for restart "gets launched on next tick" (line 543), and a marked proxy is examined "on the next pt_configure_remaining_proxies tick" (line 77), whenever `pt_proxies_configuration_pending` holds. Weak fairness says exactly that: a tick that stays enabled is taken. No fairness is assumed of config reads or of the children's output, since these come from the operator and from external binaries. That is why the progress of a child's own protocol (hazard at line 1954) is not stated.

`ProxiesEventuallySettled` excludes the behaviours in which `unconfigured_proxies_n` has gone wrong. Without that exclusion TLC finds a further consequence of the `mp_count` finding. A COMPLETED proxy sends a stray line, and `handle_finished_proxy` decrements the count for it. The count can then reach 0 while another proxy, restarted by the same tick, is still INFANT. `pt_proxies_configuration_pending` is false, so no tick runs, `assert_unconfigured_count_ok` is never reached, and that proxy is never relaunched until the next config read. The trace has 14 states: config read, launch and configuration of proxy 1, a second config read that adds proxy 2 and asks proxy 1 for other transports or another URI, a tick that restarts 1 and launches 2, proxy 2 configures and then sends one more line.

### Hibernate (`Hibernate.tla`, `MC_Hibernate.tla`)

**How the parts interact.** `hibernate.c` keeps a relay inside its `AccountingMax` per accounting period. Connections report their traffic through `accounting_add_bytes`. Once a second the main loop runs `accounting_run_housekeeping` and `consider_hibernation`:

- Housekeeping starts a new interval when the old one ends. It also records the usage into the in-memory `or_state`, every NOTE_INTERVAL seconds or every NOTE_BYTES bytes. The state file module saves that state later.
- At the soft limit, `consider_hibernation` moves to LOWBANDWIDTH, where no new connections are accepted. At the hard limit it moves to DORMANT.
- Before an interval's keyed wakeup time, it also keeps the relay DORMANT.

While dormant the per-second callback is off, and a wakeup event scheduled by `hibernate_schedule_wakeup_event` runs the checks instead. SIGINT starts a delayed shutdown from LIVE, and exits at once from any other state. On start-up, `configure_accounting` reads the usage back from the state file.

**State.**

- `now`: `time(NULL)`.
- `h`: one record of the statics of `hibernate.c`:
  - `hibernate_state`, `hibernate_end_time`, `shutdown_time`;
  - the interval start, end and wakeup;
  - the byte and active-second counters, `expected_bandwidth_usage` and the soft-limit data;
  - the `last_*_noted` statics of `time_to_record_bandwidth_usage`;
  - the accounting fields of `or_state` and its `next_write`;
  - the pending wakeup event and the pending mainloop shutdown;
  - whether the process is running.
- `disk`: the accounting fields of the state file.
- `acctMax`: `AccountingMax`, which is 0 when accounting is disabled.
- `digest`: the keyed digest of each interval start. It is fixed per run, like the identity key.
- `restarts` and `reloads`: bound counters.

Each C function is an operator from `h` to `h`, named after the function. Where a function is split, the part after an early return or a call gets its own operator: `ChooseInterval`, `BeginFrom`, `DormantUntil`, `ElapsedAfter`, `ConsiderAwake`, `ConsiderLow`, `StillDormant`.

**Actions.**

- `Second(n)`: one second with `n` bytes of traffic, then housekeeping (when accounting is enabled) and `consider_hibernation`.
- `DormantSecond`: time passing while dormant.
- `WakeupEvent`: `wakeup_event_callback`.
- `SaveState`: `or_state_save`.
- `ShutdownEvent`: the mainloop shutdown.
- `Sigint`: `hibernate_begin_shutdown`.
- `Crash`, `Restart` and `DownSecond`: a process that dies and starts again from the state file.
- `Reload(am)`: a configuration reload that turns accounting on or off. It calls `configure_accounting` when accounting is on.
- `Horizon`: the clock has reached the model's horizon.

The main loop, `statefile.c` and `options_act` are not in the repository. The order of the per-second calls and the reload behaviour are modelled from the comments of `hibernate.c` (lines 1008-1016 and 870-874) and marked `spec_modelled` in the map.

**Abstractions.**

- Periods are aligned intervals of length `L`. The calendar arithmetic of `edge_of_accounting_period_containing` and `AccountingStart` changes are left out, so the "moved by less than half" branch of `configure_accounting` is unreachable.
- Bytes read and written are one counter.
- Durations and byte counts are scaled constants: 60, 1800, 600 s, 20 MB, the 1024 of `ROUND_UP`, the 95 % soft limit, 500 MB and 180 min keep their roles at small values.
- `AvoidDiskWrites` is off.
- Closing connections, controller events and logging are left out.

**Bounds** (`MC_Hibernate.tla`):

| Bound | Value |
|---|---|
| Period | 6 s |
| Horizon | 15 s: the first period and half of the second |
| AccountingMax | 4 (soft limit 3) |
| Traffic per second | up to 2 |
| Recording | every 3 s or 2 bytes |
| Rounding | to 2 |
| Save delay | 1 s |
| Restarts | 1 |
| Reloads | 1 |

With these, a relay can:

- hit the soft and the hard limit;
- sleep into the second period;
- start the second period with an expected rate of 0 to 4, and so with a wakeup after the period start (a pre-wakeup sleep);
- crash before or after a save;
- restart with a spent quota;
- have accounting switched off while LOWBANDWIDTH or DORMANT.

A horizon of 18 s (the start of a third period) also passes, in 2 minutes with 5.7 million states.

**Runs.**

| Run | Properties | Result |
|---|---|---|
| `hb_safety` | `TypeOK`; `IntervalCurrent` (the interval in use contains now, and its wakeup lies inside it); `SleepBounded` (a dormant relay has `hibernate_end_time` set, no later than the interval's end, and a wakeup event pending no later than that); `HardLimitHonoured` (after every step that runs `consider_hibernation`, a relay over AccountingMax is DORMANT or EXITING) | pass: 816,538 distinct states, about 25 s |
| `hb_accounting_off` | `AccountingOffStaysAwake` | **violation**, see Findings |
| (`MC_Hibernate_record.cfg`) | `RecordLagBounded` | **violation**; kept as a cfg, not a run of `PROJECT.json` |
| `hb_expected_rate` | `ExpectedPerMinute` | **violation** |

The mutants of `hb_safety`:

- `update_expected_bandwidth` without its cap on the configured rate;
- `configure_accounting` resuming the remembered interval without comparing it with now;
- `wakeup_event_callback` that does not reschedule while still dormant;
- a hard limit tested with `>` instead of `>=`.

No fairness is assumed. The horizon bounds every behaviour, so only safety is checked.

### Memarea (`Memarea.tla`, `MC_Memarea.tla`)

**The part.** `memarea.c` (part_005 lines 2247-2560, the build with memory sentinels) is a region allocator. An area is a stack of chunks. `memarea_alloc` carves a request from the first chunk at `next_mem` and realigns `next_mem`. A request that does not fit opens a new first chunk of `CHUNK_SIZE`. A request too big for a standard chunk gets a dedicated chunk of its own size, placed second so that the first chunk stays the one to carve from. `memarea_clear` frees every chunk but the first and rewinds it; `memarea_drop_all` frees them all. Nothing is concurrent: the hazards are the arithmetic at the chunk end and long sequences of calls.

**State.** `chunks`: the chunk list, each chunk a record of an identity, `mem_size` and `next_mem` (an offset from `mem`, which `alloc_chunk` asserts is aligned). `allocs`: the pointers returned since the last clear, as chunk, offset and requested size. The sentinel lies after `mem_size` and does not change it, so it is not a field.

**Actions.** `MemareaNew`, `MemareaAlloc(sz)` with its wrappers `MemareaAllocZero`, `MemareaMemdup`, `MemareaStrdup`, `MemareaStrndup` (each one `memarea_alloc` of the size it computes), `MemareaClear` and `MemareaDropAll`. `memarea_alloc`'s three branches are the operators `Grown` (which list results), `TargetIndex` (which chunk is carved) and `Carve` (carve and realign). `memarea_owns_ptr` and `memarea_get_stats` are operators the properties use.

**Bounds** (`MC_Memarea.tla`): `CHUNK_SIZE` 16, header 4, `MEMAREA_ALIGN` 4, request sizes {0, 3, 5, 12, 13}, at most 3 chunks. These reach every branch: zero-byte requests, requests that fit, requests that open a new chunk, and dedicated chunks of aligned (12) and unaligned (13) size, with clears and drops in between.

**Runs.**

| Run | Properties | Result |
|---|---|---|
| `lib_safety` (with the other parts of `MC_Library`) | `LibTypeOK`; `AllocsInsideChunk` (every live allocation lies inside its chunk's `mem_size`, whichever branch placed it); `AllocsDisjoint` (no two live allocations share a byte); `OwnsLivePointers` (`memarea_owns_ptr` recognises every live pointer, including those of zero-byte requests); `AssertionsHold` (the assertions of `memarea_alloc` and `memarea_assert_ok`) | pass (see MC_Library) |
| (`MC_Memarea_stats.cfg`) | `UsedWithinAllocated` | **violation**; kept as a cfg, see Findings |

The mutants of these properties: a dedicated chunk placed second but dropping the rest of the list; the dedicated-chunk test without the header (`sz >= CHUNK_SIZE`); realignment rounding down; a zero-byte request passed on as 0; a dedicated chunk placed first.

No fairness is assumed; the properties are safety properties.

### Address (`Address.tla`, `AddressCalls.tla`, `MC_AddressCalls.tla`)

**The part.** `address.c` (part_005 lines 1-2246) keeps no state between calls. Its callers (exit policies, `ORPort` and `Bridge` options, connection tables) hold addresses, compare them and parse address patterns and `host:port` texts. `Address.tla` translates the functions as operators over an address record (family, octets, and an object identity for `AF_UNIX`):

- the constructors, `tor_addr_is_v4`, `tor_addr_is_internal_`, `is_null`, `is_loopback`, `is_valid`, `tor_port_is_valid`, `is_multicast`;
- `tor_addr_compare_masked` and `tor_addr_compare`. The IPv4 case shifts the host-order words right by `32 - mbits` (`ShiftCompare`). A `uint32_t` does not fit TLC's integers, so each word is held as its high and low 16 bits, and `Shr32` shifts it across the two halves (`shiftR` of the community module Bitwise). A slip in the shift count therefore shows against the bit-level reference;
- `addr_mask_get_bits`, `parse_port_range`, `tor_addr_parse_mask_ports` (cut into its address, mask and port parts), `tor_addr_parse_impl`, `tor_addr_parse`, `tor_addr_port_split` and `tor_addr_port_parse`.

Text is abstracted to what the library reads from each of its pieces: a pattern is a record saying whether the address is bracketed and closed, what `tor_inet_pton` reads as the address, what `strtol` reads as the mask (or that the mask is empty, a dotted mask, or junk), and the kind and values of the port part. A `host:port` text also records what `tor_inet_pton` reads from the whole text, because `tor_addr_port_split` tries that first.

**The harness.** `AddressCalls` has three kinds of behaviour, chosen at the start (`mode`):

- `"order"`: a caller holds up to three addresses; `Take(a)` and `Hold(x, a)` change them. The comparison properties hold of every set reached.
- `"parse"`: one `tor_addr_parse_mask_ports` call (`Parse`), then the caller stops.
- `"addrport"`: one `tor_addr_port_parse` call (`ParseAddrPort`), then the caller stops.

The parse behaviours stop, so the run does not check deadlock.

**Bounds** (`MC_AddressCalls.tla`): 14 addresses (private, public, loopback and null IPv4; IPv6 loopback, null, link-local, global; three v4-mapped, two of them one bit apart; two `AF_UNIX`; `AF_UNSPEC`); masks {0, 1, 4, 9, 31, 32, 100, 127, 128, 200}, which fall on and off byte boundaries, on the IPv4 cap, inside the mapped range and above 128; 81,510 pattern calls (every wildcard, IPv4, IPv6 and v4-mapped literals, bracketed or not and with a missing `]`; integer masks -1, 0, 24, 32, 33, 100, 128, 129, an empty mask, prefix and non-prefix dotted masks, junk; no port, `:`, `:*`, ports 0, 80, 65536, ranges in and out of order, junk; every allowed flag set and choice of out pointers); 56 `host:port` texts with 3 default ports.

**Runs.**

| Run | Properties | Result |
|---|---|---|
| `lib_safety` (with the other parts of `MC_Library`) | `LibTypeOK`; `CompareExactTotalPreorder` (exact comparison is antisymmetric and transitive at every mask, across families, `AF_UNIX` and `AF_UNSPEC`); `CompareMatchesBitPrefix` (same-family comparison orders addresses as their first `mbits` bits, against the bit-level reference `RefPrefixOrder`); `MaskRelativeToFirst` (the example of the comment: a mapped `a` against an IPv4 `b` at mask `m` is the negation of `b` against `a` at `m - 96`); `InternalAgreesWithSemanticEquality`; `ParseFollowsGrammar` (an accepted pattern has the literal, the default masks, at most 32 bits for IPv4, ports as the comment says); `AddrPortFollowsDoc` (`tor_addr_port_parse` accepts exactly the documented forms and returns the written or default port) | pass (see MC_Library) |
| (`MC_AddressCalls_emptymask.cfg`) | `EmptyMaskRejected` | **violation**; kept as a cfg |
| (`MC_AddressCalls_semantic.cfg`) | `SemanticTotalOrder` | **violation**; kept as a cfg |
| (`MC_AddressCalls_mapped.cfg`) | `MappedMaskMeaning` | **violation**; kept as a cfg |
| (`MC_AddressCalls_oneport.cfg`) | `SinglePortInBoth` | **violation**; kept as a cfg |
| (`MC_AddressCalls_portzero.cfg`) | `PortZeroTakesDefault` | **violation**; kept as a cfg |

The mutants of these properties: `AF_UNIX` compared with `<=`; the leftover bits shifted by `leftover` instead of `8 - leftover` (a shift of the IPv4 word by `31 - mbits` is caught by the same property); the mapped comparison without `mbits -= 96`; `is_internal` without the v4-mapped case; the integer mask without its IPv4 `> 32` check; `tor_addr_parse_impl` accepting bracketed IPv4.

No fairness is assumed; all properties are invariants.

### TaggedFile (`TaggedFile.tla`, `MC_TaggedFile.tla`)

**The part.** `crypto_format.c` lines 33-128 store keys in the tagged-data format: a 32-byte header holding the NUL-padded text `== <typestring>: <tag> ==`, then the data. `crypto_write_tagged_contents_to_file` formats the header with `tor_snprintf` and writes header and data through `write_chunks_to_file`, which installs a temporary file or leaves the old one. `crypto_read_tagged_contents_from_file` checks the size against the caller's buffer, the `== ` prefix, the ` ==` suffix, the NUL padding, the typestring and the `: ` after it, then extracts the tag with `tor_strndup(prefix+5+strlen(typestring), strlen(prefix)-8-strlen(typestring))` and copies the data.

**State.** `file`: the header text (a sequence of characters up to its NUL), whether the bytes after the NUL are zero, the file size, and the data as an identity and a length. `last`: a ghost of who wrote the file last (this caller, with what, or another program). `got`: the outcome of the last read.

**Actions.** `WriteTagged(t, g, d)` (the header fits: installed, or the write fails and the old file stays), `WriteTooLong` (`tor_snprintf` fails; nothing is written), `Replace(f)` (another program writes the file), `ReadTagged(t, n)` (the whole read, with `Accepts`, `TagLen` and `ReadOutcome` as its checks and its result).

**Bounds** (in `MC_Library` and `MC_TaggedFile`): the real 32-byte header; typestrings `k` and `kk` (one a prefix of the other, so the `: ` test matters); tags empty, ` ==`, and 22 and 23 characters (headers of 31 and 32 characters: the second does not fit with its NUL); two data sizes and buffers of 1 and 2 bytes; four foreign files (the overlapping header `== k: ==`, a header with bytes after its NUL, a file shorter than the header, a 32-character header with no NUL). `size_t` is scaled to 2^16.

**Properties.** `ReadReturnsLastWrite`: when the file is this caller's, a read with its typestring and a big enough buffer succeeds, and any successful read returns the written type, tag and data. Mutant: the `: ` test left out, so a `kk` file reads as a `k` file. `TagInsideHeader` (kept as `MC_TaggedFile_taglen.cfg`): the tag length handed to `tor_strndup` fits in the header; see Findings.

### GenCert (`GenCert.tla`, `MC_GenCert.tla`)

**The part.** `tor-gencert` creates or loads the authority identity key, generates or reuses (`-r`) a signing key, and writes the key certificate. `main` runs `parse_commandline`, `load_identity_key`, `load_signing_key` or `generate_signing_key`, and `generate_certificate`; the first failure ends the run with status 1. Keys are written through a temporary file (`start_writing_to_stdio_file` ... `finish_writing_to_file`), the certificate with `fopen(..., "w")`, `fputs` and an unchecked `fclose`.

**State.** `disk` (file name to content: nothing, an identity key, a signing key, a certificate of two keys, or junk), `pc` (the next step of `main`, or idle between runs), `opts` (what `parse_commandline` set), `idKey`, `sigKey`, `nextKey` (the next key number the RNG gives), `exit`, and two ghosts: `created` (identity keys ever installed) and `roles` (the roles each file was named for, over all runs).

**Actions.** `Start(argv)` (`main` up to `parse_commandline`, which is the recursive operator `ParseFrom` over the tokens, then the defaults; the crypto initialisation and `load_passphrase` may fail), `LoadIdentityKey`, `SigningKey`, `GenerateCertificate`. Every call that can report an error is an outcome; `finish_writing_to_file` and `fclose` (whose flush of the buffered certificate can fail), whose results the code ignores, may fail silently.

**Bounds**: three files (the three default names), three key numbers, and 13 command lines reaching every branch of `parse_commandline`: the defaults, `--create-identity-key`, `-r`, a signing key file that is the identity key file, swapped roles, a repeated `-i`, `-m` out of range, without argument and not a numeral, `-a` with IPv6 and IPv4, `--passphrase-fd`, `-h`, and an unknown option.

**Properties.** `IdentityNeverLost`: an identity key once installed stays on disk across all later runs, as long as no file was named for two roles. Mutant: `--create-identity-key` without its existence check. `ExitZeroMeansSaved` (run `gencert_unsaved`, a violation): a run that exits 0 leaves the certified identity and signing keys in their files.

### PtLines (`PtLines.tla`, in `MC_Library`)

**The part.** ManagedProxy abstracts a configuration-protocol line to the eight classes `handle_proxy_line` tells apart. PtLines takes the lines themselves: what the child writes, as a sequence of words (what `smartlist_split_string` gives back; the text the `strcmpstart` tests see is the words joined by single spaces). It models `handle_proxy_line` (`transports.c` 858-974), `parse_version` (994-1015) and `parse_method_line_helper` (1037-1150), which reads the `address:port` word with `tor_addr_port_split` and `tor_addr_parse` of the Address module (`INSTANCE Address`). The ENV-ERROR, METHOD-ERROR, PROXY-ERROR, LOG and STATUS parsers only log and emit events and are not modelled.

**State.** `conf`: the fields of one `managed_proxy_t` the protocol changes (`conf_state`, `conf_protocol`, `transports` as name, SOCKS version, address, port and ARGS, `proxy_uri`, `proxy_supported`); `line`: the last line handled; `aborted`: a `tor_assert` failed.

**Actions.** `Receive(l)` hands line `l` to `handle_proxy_line` while the proxy is LAUNCHED or ACCEPTING_METHODS. `Kind` is the if/else-if chain of prefixes in the code's order, `StateOk` is the state test each branch makes first, and `ParseMethodLine` holds every early return of `parse_method_line_helper`. The `handle_finished_proxy` step that `managed_proxy_stdout_callback` takes next changes the proxy list, so it stays in ManagedProxy; here the behaviour stops (`ProtocolOver`).

**Bounds.** Two C identifiers (`obfs4`, `meek`), two proxy URIs (none or one), at most two transports, and 25 lines. These reach every branch and every early return: `VERSION 1`, `VERSION 2`, `VERSION-1`; CMETHOD lines that are good, have SOCKS `socks9`, `::1:80` (read whole as an IPv6 address, so there is no port), port 0, too few words, a name that is not an identifier, or a first word `CMETHODS`; SMETHOD lines with ARGS, with `[::1]:80` and with junk; both DONE lines, both METHOD-ERROR lines, PROXY DONE, PROXY-ERROR, LOG, STATUS and `LOGx`.

**Properties.** `LineRefinesManagedProxy` (in `lib_safety`) compares `handle_proxy_line` with a reference reader of the protocol, `SpecClass`, written from the pluggable-transport protocol and not from the code. The reader picks a line by its whole first word, not by `strcmpstart` prefixes. It checks a method line's words, name, SOCKS version and `address:port` itself, through Address. It treats a malformed line of a keyword (such as `CMETHODS obfs4`) as an error. The property says that every line whose first word is a keyword, handled without a failed assertion, changes the proxy exactly as ManagedProxy's `HandleProxyLine` does for the reader's class. It is stated as an action property through `INSTANCE ManagedProxy`, with the refinement mapping `Abs`: state, transport names, URI and supported flag, and ManagedProxy's other fields at their `managed_proxy_create` values. So the order of the prefix tests, the state check of each branch and the parsers must all agree with the protocol. Lines whose first word is no keyword are left out: `VERSION-1` is accepted by `parse_version`, which skips the character after `VERSION`, and it is part of the `NoAssertOnProxyLine` trace. Mutant: the `CMETHOD` prefix tested before `CMETHODS DONE`, so the end of the methods breaks the proxy. `NoAssertOnProxyLine`, kept as `MC_Library_assert.cfg`, says that no line fails an assertion; see Findings.

### PtArgs (`PtArgs.tla`, in `MC_Library`)

**The part.** Tor hands two escaped strings to transports. A client transport gets a bridge's SOCKS arguments from `pt_get_socks_args_for_proxy_addrport` and `pt_stringify_socks_args` (`transports.c` 1764-1809): each argument is escaped for `;` and `\`, and the results are joined with `;`. A server transport gets `TOR_PT_SERVER_TRANSPORT_OPTIONS` from `get_transport_options_for_server_proxy` (1305-1343): one `transport:option` per option, with the option escaped for `:`, `;` and `\`, all joined with `;`, or NULL when there are none. Both use `tor_escape_str_for_pt_args` (1858-1895), which mallocs `2*length+1` bytes and puts a backslash before every character to escape. These functions keep no state, so a caller makes one call (`SocksArgsForProxy` or `ServerTransportOptions`) and keeps the result (`ptCall`, `ptOut`). `overrun` records a write past the allocation.

**Bounds.** The strings have up to two characters. SOCKS arguments use `a`, `;`, `:` and `\`; options use `k`, `=`, `:`, `;` and `\`. Argument lists hold one or two strings, the empty string among them. A server proxy launches `obfs4` alone or `obfs4` and `meek`, each with no options or one option. This gives every pair of escaped characters, a trailing backslash before a separator, and empty fields. `SIZE_MAX` is scaled to 2^16-1, so every string fits in memory and the overflow check never returns NULL. That matches the real program, where no string reaches half the address space.

**Properties.** All three are checked against a reference reader written from the escaping rules of the pluggable-transport specification, not from the code: `SplitUnescaped` and `Unescape`, both `RECURSIVE`.

- `SocksArgsRoundTrip`: splitting the SOCKS string at unescaped `;` and unescaping gives back the bridge's list. Mutant: only `;` escaped, so `\` followed by `;` merges two arguments.
- `ServerOptionsRoundTrip`: the options string parses back into the (transport, option) pairs in order, and is NULL exactly when there are none. Mutant: `\` not escaped.
- `EscapeFitsBuffer`: the escaped string and its NUL fit in the `new_length` bytes allocated. Mutant: no byte for the NUL.

### PtEnv (`PtEnv.tla`, in `MC_Library`)

**The part.** What tor tells a managed proxy through its environment, and what a relay publishes of its server proxies. `create_managed_proxy_environment` (`transports.c` 1374-1518) builds a list of `TOR_PT_*` variables in a fixed order (`TorEnvs`): state location, protocol version, the transports to launch; for a server the ORPort, `TOR_PT_SERVER_BINDADDR` from `get_bindaddr_for_server_proxy` (1344-1372, `BindaddrForServerProxy`), the transport options of PtArgs, and the Extended ORPort and cookie file; for a client the outgoing proxy; `TOR_PT_EXIT_ON_STDIN_CLOSE`; and the outbound bind addresses of `managed_proxy_outbound_address` (1983-2026). It merges each one into a copy of tor's own environment with `set_environment_variable_in_smartlist`, which replaces a variable of the same name (`SetEnvVar`, `CreateEnvironment`). `pt_get_extra_info_descriptor_string` (1687-1757, `ExtraInfoString`) and `get_transport_proxy_ports` (1654-1679, `TransportProxyPorts`) walk the proxy list, skip every proxy that is not a COMPLETED server proxy, replace a null address by the relay's published address, skip a transport when there is none, and return NULL for an empty result. These functions keep no state; `LaunchEnvironment` and `Publish` make one call each, and `CallerKeeps` keeps the result. `set_environment_variable_in_smartlist` is in `lib/process/env.c`, not in the repository, and is modelled from its documented behaviour.

**Bounds.** Two transports with stored bind addresses (one IPv4 address with port 0, one bracketed IPv6 address). Three Extended ORPort configurations: none; lines, a listener and a cookie; lines and no listener. Three outbound configurations: none, a general IPv4 address, and a PT-specific IPv4 address with a general IPv6 one. Four parent environments: empty; `PATH` only; `PATH` between two stale `TOR_PT_SERVER_BINDADDR` entries; and stale `TOR_PT_CLIENT_TRANSPORTS` and `TOR_PT_PROXY`. For publishing there are six proxy lists, mixing a client proxy, COMPLETED server proxies (one with a `0.0.0.0` transport, one with none) and a server proxy still configuring, and three published addresses: none, IPv4 only, and IPv6 only. With these bounds a null address is replaced, bracketed and skipped, and every branch of the environment builder is taken.

**Properties.**

- `ChildSeesTorValues`: every variable tor sets occurs exactly once in the child's environment, with tor's value, and every other variable of tor's own environment is passed on unchanged. Mutant: the merge appends instead of replacing, so a stale `TOR_PT_SERVER_BINDADDR` stays beside the new one.
- `ChildReadsItsConfiguration`: the child reads its configuration back. The transports variable gives the list to launch. A server's `TOR_PT_SERVER_BINDADDR`, split at `,` and then at `-`, gives each transport with its stored address. A client with a proxy URI gets `TOR_PT_PROXY`. Mutant: `:` as the separator between name and address.
- `PublishesCompletedServerTransports`: the extra-info string has one line for each transport of a COMPLETED server proxy that has an address, in list order, with its name, port and arguments. It has no null address, is NULL exactly when there are no such lines, and each port is among those `get_transport_proxy_ports` forwards. Mutant: a transport with no usable address is published anyway.
- `NoInheritedPtVariable`, kept as `MC_Library_env.cfg`, says that no `TOR_PT_*` variable reaches the child unless tor set it; see Findings.

### MC_Library: one run for the self-contained parts

Address, Memarea, TaggedFile, GenCert, PtLines, PtArgs and PtEnv share no state. `MC_Library.tla` checks them in one run, `lib_safety`: a variable `part` picks one of them in the initial state, that part's actions run, and the variables of the others keep their initial values. The state space is the sum of the seven (189,064 distinct states, about 2 minutes with two workers), and each part has its own bounds, as above. `LibTypeOK` is the conjunction of the seven type invariants; the other properties are the parts' own, re-exported under their names. Deadlock is checked. The address, PtArgs and PtEnv behaviours stop after one call with `CallerStops`, `CallerDone` and `CallerKeeps`, and a finished protocol stops with `ProtocolOver`; all four are stuttering steps. No fairness is assumed. All the properties are invariants except `LineRefinesManagedProxy`, which is an action property.

### Findings

**`after_firsthop_idx` outlives `free_timeouts`** (run `cbt_firsthop_idx`, `circuitstats.c:1423`). `circuit_build_times_free_timeouts` zeroes `num_recent_circs` and leaves `after_firsthop_idx` as it was. A later consensus may re-enable learning with a smaller `cbtrecentcount`. In `new_consensus_params` the index is clamped only when `num < num_recent_circs`, and that test is against 0, so it is false. The next `network_circ_success` or `network_timeout` then writes one byte past the new `timeouts_after_firsthop`.

TLC's trace has four steps:

1. A timeout and a success move the index to 2 (of 3).
2. A consensus with `cbtdisabled=1` frees the array.
3. A consensus with `cbtrecentcount=2` re-allocates two entries with the index still 2.
4. The next success or timeout writes at index 2 of a two-entry array.

**A crafted state file overruns `loaded_times`** (run `cbt_state_overrun`, `circuitstats.c:1062`). `parse_state` allocates `TotalBuildTimes` entries for `loaded_times`. Before each bin line it checks `loaded_cnt + count + CircuitBuildAbandonedCount > TotalBuildTimes`, with all three in `uint32_t`, and `count` is parsed with a maximum of `UINT32_MAX`. A count that brings the sum to 2^32 wraps it to a small number. The check passes, and the loop at 1073 writes `count` entries past the buffer. The abandoned loop at 1084 has no check of its own. TLC's trace, with `uint32_t` scaled to 32: a state file with `TotalBuildTimes 2` and the lines `1 1` and `9 31`, then a restart, which writes 32 entries into a buffer of 2. In the real code the second count is 4294967295. A state file is written by tor itself, so this takes a corrupted or hand-made file, and the count comparison after the loop comes too late to help.

**A COMPLETED proxy that sends one more line breaks the count** (run `mp_count`, `transports.c:826`). `handle_proxy_line` sends any line other than LOG/STATUS that arrives outside its state to `err`, even for a COMPLETED proxy. A repeated `CMETHODS DONE` or `VERSION` is enough. The proxy becomes BROKEN. `managed_proxy_stdout_callback` calls `handle_finished_proxy`, which destroys it and decrements `unconfigured_proxies_n`, although a COMPLETED proxy was never counted. The count goes to -1, and `assert_unconfigured_count_ok` aborts tor at the next tick or config read. If another proxy is awaiting a relaunch, the count can instead reach 0, and then no tick comes at all: that proxy silently stays down (see the fairness paragraph of `ManagedProxy`). A misbehaving transport binary can therefore crash tor. The same path leaves the destroyed proxy's transports in `transport_list`.

**`mp->process` outlives the `process_t`** (run `mp_uaf`, `transports.c:745`). `managed_proxy_exit_callback` returns true, so the process subsystem frees the `process_t`, but the proxy keeps the pointer. Two later paths then use freed memory:

- the next config read destroys a proxy that is not COMPLETED with `process_set_data` and `process_terminate` (745-746);
- a restart calls `process_set_data` and `process_terminate` at 522-523, and the next tick calls `process_exec` at 557-571.

TLC's trace: a config read, a launch, the child exits, and a config read.

**A dropped proxy's transport stays registered** (run `mp_registry_stale`, `transports.c:1597`). `pt_kickstart_proxy` unmarks registered transports by name, whichever proxy registered them. Suppose proxies A and B both offer `obfs4` and B's registration won. If the new torrc keeps A and drops B, B's registration is unmarked, survives `sweep_transport_list`, and points at the listener of the destroyed B. The header comment says transports "must be removed if they don't contribute by the new torrc".

**Two config reads in one second lose a registration** (`MC_ManagedProxy_lost.cfg`, `transports.c:496`). The sequence:

1. A config read drops one of a proxy's transports, so that transport's registration is swept.
2. A second read before the next tick restores the old list.
3. `proxy_needs_restart` compares `transports_to_launch` with the transports launched earlier, finds them equal, and does not restart the proxy.

The proxy keeps running, but its transport stays out of `transport_list`. The header comment promises the opposite: "if we don't need to restart a managed proxy, we can continue using its old transports normally".

**The soft-limit rate is not per minute** (run `hb_expected_rate`, `part_000:517`). `update_expected_bandwidth` is documented to compute "how much we sent/received per minute last interval". Its second branch does that: `used / (seconds / 60)`. The soft-limit branch instead computes `bytes / seconds`, which is per second, and then divides by 60. The result is 3600 times too small. After an interval in which the soft limit was hit, the next wakeup time falls at the interval start, and the soft limit ignores the expected usage. TLC reaches the branch in four seconds: 3 bytes by the soft limit 3 s into the period.

**Accounting switched off can still put the relay to sleep** (run `hb_accounting_off`, `part_000:1150`). With `AccountingMax` 0, `consider_hibernation` handles LOWBANDWIDTH, and DORMANT, by calling `hibernate_end_time_elapsed`, whose purpose is to end hibernation. That function first runs `accounting_run_housekeeping`. If the interval has just ended, housekeeping starts a new one with a new wakeup time. If that time lies ahead, the function calls `hibernate_go_dormant`. TLC's trace:

1. The relay reaches LOWBANDWIDTH.
2. At 11 s accounting is turned off.
3. At 12 s the new period starts with wakeup 13, and the relay goes DORMANT until 13.

**Usage is not recorded every 20 MB after an interval change** (`MC_Hibernate_record.cfg`, `part_000:566`). `time_to_record_bandwidth_usage` records when usage passes `last_*_bytes_noted + NOTE_BYTES`. Those are statics, and `reset_accounting` does not clear them. In a new interval the byte trigger therefore waits for the previous interval's count plus 20 MB, and until the 600 s timer fires the usage is not recorded. A crash then loses it. The interval-end trigger at line 573 cannot fire from housekeeping, which has already moved `interval_end_time`. TLC's trace: 2 bytes noted at 11 s, a new period at 12 s, and 2 more bytes at 13 s that are not recorded.

**`memarea_get_stats` reports more bytes used than allocated** (`MC_Memarea_stats.cfg`, `part_005:2488`). `memarea_alloc` realigns `next_mem` after every carve. A dedicated chunk has `mem_size` equal to the request, which need not be a multiple of `MEMAREA_ALIGN`, so realigning moves its `next_mem` past `mem_size`. `memarea_get_stats` sums `next_mem` as the bytes used and `mem_size` as the bytes allocated, so used exceeds allocated. `memarea_assert_ok` (2559-2560) tolerates the overshoot explicitly. TLC's trace: a 12-byte request, then a 13-byte request that gets a dedicated chunk with `mem_size` 13 and `next_mem` 16.

**An empty mask matches every address** (`MC_AddressCalls_emptymask.cfg`, `part_005:658`). The grammar comment allows `/` only before an Integer. For the text `1.2.3.4/`, `strtol` of the empty mask reads nothing and leaves `endptr` at the terminating zero, so `!*endptr` takes the integer branch with 0 bits. The pattern is accepted with mask /0, which matches every IPv4 address: `reject 1.2.3.4/:80` rejects port 80 everywhere.

**The semantic comparison is not transitive** (`MC_AddressCalls_semantic.cfg`, `part_005:1091`). The comment of `tor_addr_compare_masked` guarantees a total order. With `CMP_SEMANTIC`, `::ffff:1.2.3.4` equals `1.2.3.4` (the mapped branch), `1.2.3.4` is below `::` (different families are ordered by family number), but `::ffff:1.2.3.4` is above `::` (same family, bytewise). A sort or deduplication of mixed addresses with this comparison depends on the order of the comparisons.

**A v4-mapped `/32` becomes `/96`** (`MC_AddressCalls_mapped.cfg`, `part_005:690`). `bits = 96 + bits%32` maps the written mask of a v4-mapped pattern onto 96-128 bits, but 32 % 32 is 0, so `[::ffff:1.2.3.4]/32` gets 96 bits and matches every v4-mapped address instead of one. The comment above the line asks "is this really what we want?".

**One port 0 gives the range 1-0** (`MC_AddressCalls_oneport.cfg`, `part_005:2026`). The comment of `tor_addr_parse_mask_ports` says one port is placed in both min and max. `parse_port_range` accepts 0, checks `min <= max`, and only then raises min to 1, so `*:0` yields min 1, max 0: an empty range the caller did not ask for.

**`tor-gencert` exits 0 with a signing key that is not on disk** (run `gencert_unsaved`, `tor-gencert.c:388`). `generate_signing_key` calls `finish_writing_to_file` and ignores its result; so does `load_identity_key` at 306. When installing the temporary file fails (a full disk, a rename refused), the run keeps the key in memory, certifies it, writes the certificate and exits 0. TLC's trace: `--create-identity-key` writes the identity key, the signing key's install fails, and the certificate for key 2 is written with exit status 0 while the signing key file is empty. An authority that then loads the files has a certificate for a key it does not have. With `--create-identity-key` the same ignored result loses the identity key itself. `generate_certificate` likewise ignores the result of `fclose` (line 541): `fputs` only fills the stdio buffer, so a flush that fails leaves a truncated certificate and the run still exits 0.

**A header `== k: ==` gives a tag length of `SIZE_MAX`** (`MC_TaggedFile_taglen.cfg`, `crypto_format.c:113`). `crypto_read_tagged_contents_from_file` checks the prefix `== `, the suffix ` ==`, and `: ` after the typestring, but not that they do not overlap. For typestring `k` the 8-character header `== k: ==` passes every check, and `strlen(prefix)-8-strlen(typestring)` is -1 as a `size_t`. What follows depends on `tor_strndup`, which is not in this repository: a version that asserts its length is below `SIZE_T_CEILING` aborts the process, and one that allocates `n+1` bytes allocates 0 and copies past them. Either way a read that should fail with -1 does not. A foreign or corrupted key file is enough. A related off-by-one is in the comment at lines 36-38: typestring and tag may be at most 23 characters together, not 24, since the header needs its NUL.

**A `CMETHODS ...` line aborts tor** (`MC_Library_assert.cfg`, `transports.c:1066`). `handle_proxy_line` sends every line that starts with `CMETHOD` and matches no earlier prefix to `parse_cmethod_line`. `parse_method_line_helper` first checks that there are at least four words, and then asserts `!strcmp(items[0], "CMETHOD")`. A line such as `CMETHODS obfs4 socks5 1.2.3.4:80`, or `CMETHODx a b c`, passes the prefix test and the word count and then fails the assertion, and tor stops. The same holds for SMETHOD with three words. Every other malformed line only marks the proxy BROKEN. TLC's trace: `VERSION-1`, which `parse_version` accepts because it skips the character after `VERSION` without reading it, and then the `CMETHODS` line. A transport binary that is buggy or hostile can therefore crash its tor client.

**A client proxy inherits tor's `TOR_PT_PROXY`** (`MC_Library_env.cfg`, `transports.c:1389`). `create_managed_proxy_environment` starts from a copy of tor's own environment (`get_current_process_environment_variables`) and overrides only the variables it sets. It sets `TOR_PT_PROXY` only when the proxy has a URI. When tor itself runs with `TOR_PT_PROXY` in its environment (for example when it is started by a tool that exports the variable, or tor is itself run as a transport), a client proxy with no outgoing proxy still receives that value and sends its traffic through a proxy the torrc never named. The same holds for the server-only variables when a client proxy is launched, and the reverse. The comment at lines 1438-1443 names this danger ("some joker will stick this variable in Nuon's environment and crash PTs") but guards only `TOR_PT_EXTENDED_SERVER_PORT`, and only when no `ExtORPort` lines are configured. TLC's trace: tor's environment holds `TOR_PT_CLIENT_TRANSPORTS=meek` and `TOR_PT_PROXY=http://q`, and a client proxy without a URI is launched; its environment holds `TOR_PT_PROXY=http://q`.

**No `TOR_PT_EXTENDED_SERVER_PORT` with Extended ORPort lines and no listener** (`transports.c:1450`). The comment at lines 1438-1443 says the variable is kept, with an empty value, because versions of obfsproxy assert that it exists. The empty value is set only in the branch with no `ExtORPort` lines (1463). When `ExtORPort` is configured but no Extended ORPort listener is open, the code sets neither the port nor the empty value, so a transport that needs the variable finds it missing. TLC reaches this with the third Extended ORPort configuration; `ChildReadsItsConfiguration` does not claim the variable for this reason.

**`ip:0` is refused although documented** (`MC_AddressCalls_portzero.cfg`, `part_005:1942`). The comment of `tor_addr_port_parse` says that with `default_port >= 0` the forms `ip` and `ip:0` are accepted and the port set to `default_port`. `tor_addr_port_split` parses the port with a minimum of 1, so `1.2.3.4:0` fails and the call returns -1.

## 4. Not modelled, and why

- The relay core of spec.md (channels, cells, scheduler, crypto workers) is not in the repository.
- In `crypto_format.c`: `ed25519_fmt` and the digest base64 wrappers (lines 129-326), which call `base64_encode` and `base64_decode`, not in the repository, and strip the padding; from line 327 the file is `aes.h`.
- In `tor-gencert.c`: the certificate text (formatting, digests, the RSA signature), the reading of the passphrase (only its failure is modelled), and OpenSSL key generation (a fresh key number).
- In address.c: formatting (`tor_addr_to_str`, `fmt_addr*`, the PTR names), `sockaddr` conversion, hashing, and interface enumeration, which is system calls. `tor_addr_parse_mask_ports` is modelled for bracketed IPv6 patterns only; the unbracketed form depends on the text, which is abstracted.
- In memarea.c: the `DISABLE_MEMORY_SENTINELS` build (part_005 2562-2650), which mallocs every piece and keeps only a list.
- The tests, headers, tracepoint tables and docs have no behaviour of their own.
- Inside CBT, the callers of `update_state` and `parse_state` (`or_state_save` and `or_state_load` in statefile.c) are not in the repository; a save and a restart are actions that may happen at any time.
- The network-liveness timer and control-port events carry no state the properties depend on.
- In `hibernate.c`: `accounting_parse_options` and the calendar arithmetic of the period edges, `getinfo_helper_accounting`, and the controller event of `on_hibernate_state_change`.
- In `transports.c`: server-proxy registration (`register_server_proxy` writes the state file), `pt_free_all` at shutdown, `transport_add_from_config` (Bridge-line transports), the ENV-ERROR, LOG and STATUS parsers (they only log and emit control events), and the stderr callback (it only logs).
- In `circuitstats.c`: the `num_circ_*` counters, `circuit_build_times_scale_circ_counts` and the timeout and close rates, which only feed log messages and controller events.
