-------------------------- MODULE CircuitBuildTimes --------------------------
(***************************************************************************)
(* Circuit build-time learning of src/core/or/circuitstats.c.              *)
(*                                                                         *)
(* The whole circuit_build_times_t is the record variable cbt; every C     *)
(* function that changes it is an operator from a cbt record to the next,  *)
(* so a handler that calls several of them (handle_completed_hop calls     *)
(* count_timeout, add_time, set_timeout and network_circ_success) is their *)
(* composition, taken in one step.  Times are in a scaled unit: Int32Max   *)
(* stands for INT32_MAX.  The Pareto fit is abstracted to what it          *)
(* guarantees: a quantile at least Xm, clamped to Int32Max, and larger for *)
(* the larger quantile.  The num_circ_* counters, which only feed control- *)
(* port statistics, are left out.                                          *)
(***************************************************************************)
EXTENDS Integers, FiniteSets, Sequences, SequencesExt, TLC

CONSTANTS
    N,                    \* CBT_NCIRCUITS_TO_OBSERVE
    Int32Max,             \* INT32_MAX in the scaled unit
    BinWidth,             \* CBT_BIN_WIDTH
    NumModes,             \* cbtnummodes
    MinCircs,             \* cbtmincircs
    MaxTimeouts,          \* cbtmaxtimeouts
    MinTimeoutParam,      \* cbtmintimeout
    InitialTimeoutParam,  \* cbtinitialtimeout
    CircuitBuildTimeout,  \* torrc CircuitBuildTimeout (0: unset), scaled
    DefaultRecent,        \* cbtrecentcount of the first consensus
    RecentCounts,         \* cbtrecentcount values later consensuses carry
    BuildTimes,           \* build times a circuit can report
    JumpSlack,            \* the 1000 msec of the clock-jump test
    MaxNonlive,           \* bound on liveness.nonlive_timeouts
    Uint32Mod,            \* 2^32, the range of uint32_t, scaled
    ForeignStates         \* state files not written by this process

ASSUME /\ N \in Nat \ {0}
       /\ MinCircs \in 1..N
       /\ DefaultRecent \in RecentCounts
       /\ RecentCounts \subseteq Nat \ {0}
       /\ BuildTimes \subseteq 1..(Int32Max - 2)

VARIABLES cbt, disabled,
          saved,         \* the history in the state file
          history        \* history variable: whether this process wrote the
                         \* file, the samples it saved, and whether nothing
                         \* happened since the process started

vars == <<cbt, disabled, saved, history>>

\* CBT_BUILD_ABANDONED: the synthetic time of a closed circuit.
CBT_BUILD_ABANDONED == Int32Max - 1

\* circuit_build_times_min_timeout / initial_timeout (clamped to the min).
MinTimeout == MinTimeoutParam
InitialTimeout == Max({InitialTimeoutParam, MinTimeout})

\* circuit_build_times_get_initial_timeout: torrc value, else consensus;
\* dis is circuit_build_times_disabled().
GetInitialTimeoutWhen(dis) ==
    IF CircuitBuildTimeout > 0
    THEN IF ~dis /\ CircuitBuildTimeout < MinTimeout
         THEN MinTimeout ELSE CircuitBuildTimeout
    ELSE InitialTimeout

GetInitialTimeout == GetInitialTimeoutWhen(disabled)

Slots == 0..(N-1)

\* circuit_build_times_init: learning on allocates the recent-circuit ring.
CbtInit(dis) ==
    LET t0 == GetInitialTimeoutWhen(dis)
        nr == IF dis THEN 0 ELSE DefaultRecent
    IN [times |-> [i \in Slots |-> 0], total |-> 0, idx |-> 0,
        haveComputed |-> FALSE, timeout |-> t0, close |-> t0,
        recent |-> [i \in 0..(nr-1) |-> 0], fhIdx |-> 0, numRecent |-> nr,
        nonlive |-> 0]

\* Variant of Reset that leaves total_build_times alone.
ResetKeepingTotal(c) ==
    [c EXCEPT !.times = [i \in Slots |-> 0], !.idx = 0,
              !.haveComputed = FALSE]

\* circuit_build_times_reset: history and counts, not liveness or timeouts.
Reset(c) ==
    [c EXCEPT !.times = [i \in Slots |-> 0], !.total = 0, !.idx = 0,
              !.haveComputed = FALSE]

\* circuit_build_times_free_timeouts
FreeTimeouts(c) == [c EXCEPT !.recent = [i \in {} |-> 0], !.numRecent = 0]

\* Variant of AddTime that counts past a full ring.
AddTimeUncapped(c, btime) ==
    IF btime <= 0 \/ btime > Int32Max THEN c
    ELSE [c EXCEPT !.times[c.idx] = btime,
                   !.idx = (c.idx + 1) % N, !.total = c.total + 1]

\* Variant of AddTime that indexes the ring by total_build_times.
AddTimeAtTotal(c, btime) ==
    IF btime <= 0 \/ btime > Int32Max THEN c
    ELSE [c EXCEPT !.times[c.total % N] = btime,
                   !.idx = (c.idx + 1) % N,
                   !.total = IF c.total < N THEN c.total + 1 ELSE c.total]

\* circuit_build_times_add_time: reject out of range, store, advance.
AddTime(c, btime) ==
    IF btime <= 0 \/ btime > Int32Max THEN c
    ELSE [c EXCEPT !.times[c.idx] = btime,
                   !.idx = (c.idx + 1) % N,
                   !.total = IF c.total < N THEN c.total + 1 ELSE c.total]

\* circuit_build_times_max: largest time that is not an abandon marker.
MaxBuildTime(c) ==
    Max({0} \cup {c.times[i] : i \in {j \in Slots :
                                      c.times[j] # CBT_BUILD_ABANDONED}})

\* circuit_build_times_create_histogram
Histogram(c) ==
    [b \in 0..(MaxBuildTime(c) \div BinWidth) |->
        Cardinality({i \in Slots : c.times[i] \notin {0, CBT_BUILD_ABANDONED}
                                   /\ c.times[i] \div BinWidth = b})]

\* CBT_BIN_TO_MS: the middle of a bin.
BinToMs(b) == b * BinWidth + BinWidth \div 2

\* The mode loop of get_xm: the first bin of largest count, then cleared.
RECURSIVE XmLoop(_, _, _, _)
XmLoop(hist, n, counts, total) ==
    IF n = NumModes THEN <<counts, total>>
    ELSE LET top == Min({b \in DOMAIN hist :
                            \A d \in DOMAIN hist : hist[d] <= hist[b]})
         IN XmLoop([hist EXCEPT ![top] = 0], n + 1,
                   counts + hist[top], total + BinToMs(top) * hist[top])

\* circuit_build_times_get_xm: weighted mean of the modes, 0 if no data.
GetXm(c) ==
    LET r == XmLoop(Histogram(c), 0, 0, 0)
    IN IF r[1] = 0 THEN 0 ELSE r[2] \div r[1]

\* circuit_build_times_calculate_timeout for quantile q <= close quantile:
\* the pairs <<timeout, close>> the Pareto quantile function can return.
CalculatedTimeouts(xm) ==
    LET vals == {v \in {xm, 2 * xm, Int32Max} : v <= Int32Max}
    IN {p \in vals \X vals : p[1] <= p[2]}

\* circuit_build_times_set_timeout_worker, given the fitted pair.
SetTimeoutWorker(c, p) ==
    LET maxTime == MaxBuildTime(c)
        t == IF p[1] > maxTime THEN maxTime ELSE p[1]
        cl == IF maxTime < Int32Max \div 2 /\ p[2] > 2 * maxTime
              THEN 2 * maxTime ELSE p[2]
    IN [c EXCEPT !.timeout = t, !.close = Max({cl, InitialTimeout}),
                 !.haveComputed = TRUE]

\* circuit_build_times_set_timeout: the fitted timeouts a step may install
\* (one record when nothing is fitted); dis is circuit_build_times_disabled().
SetTimeoutWhen(c, dis) ==
    LET xm == GetXm(c)
    IN IF dis \/ c.total < MinCircs \/ xm = 0 THEN {c}
       ELSE {LET w == SetTimeoutWorker(c, p)
             IN IF w.timeout < MinTimeout
                THEN [w EXCEPT !.timeout = MinTimeout,
                               !.close = IF w.close < MinTimeout
                                         THEN InitialTimeout ELSE w.close]
                ELSE w : p \in CalculatedTimeouts(xm)}

SetTimeout(c) == SetTimeoutWhen(c, disabled)

\* Store one outcome in timeouts_after_firsthop and advance the index.  An
\* index past the array is an out-of-bounds write; it lands outside the
\* modelled array.
RecordRecent(c, v) ==
    [c EXCEPT !.recent = IF c.fhIdx \in DOMAIN c.recent
                         THEN [c.recent EXCEPT ![c.fhIdx] = v] ELSE c.recent,
              !.fhIdx = (c.fhIdx + 1) % c.numRecent]

\* circuit_build_times_network_circ_success
NetworkCircSuccess(c) ==
    IF c.numRecent > 0 THEN RecordRecent(c, 0) ELSE c

\* circuit_build_times_network_timeout
NetworkTimeout(c, didOnehop) ==
    IF c.numRecent > 0 /\ didOnehop THEN RecordRecent(c, 1) ELSE c

\* circuit_build_times_network_close: startedAfterLive is
\* network_last_live < start_time.
NetworkClose(c, startedAfterLive) ==
    IF startedAfterLive THEN [c EXCEPT !.nonlive = c.nonlive + 1] ELSE c

\* The sum over timeouts_after_firsthop in network_check_changed.
RecentTimeoutCount(c) == SumFunction(c.recent)

\* Variants of NetworkCheckChanged: resetting only above cbtmaxtimeouts,
\* doubling only timeout_ms, doubling without the INT32_MAX/2 guard.
CheckChangedAboveMax(c) ==
    IF RecentTimeoutCount(c) <= MaxTimeouts THEN c
    ELSE LET z == [Reset(c) EXCEPT !.recent = [i \in DOMAIN c.recent |-> 0],
                                   !.fhIdx = 0]
         IN IF z.timeout >= GetInitialTimeout
            THEN IF z.timeout > Int32Max \div 2 \/ z.close > Int32Max \div 2
                 THEN z
                 ELSE [z EXCEPT !.timeout = 2 * z.timeout,
                                !.close = 2 * z.close]
            ELSE [z EXCEPT !.timeout = GetInitialTimeout,
                           !.close = GetInitialTimeout]

CheckChangedDoublingTimeoutOnly(c) ==
    IF RecentTimeoutCount(c) < MaxTimeouts THEN c
    ELSE LET z == [Reset(c) EXCEPT !.recent = [i \in DOMAIN c.recent |-> 0],
                                   !.fhIdx = 0]
         IN IF z.timeout >= GetInitialTimeout
            THEN IF z.timeout > Int32Max \div 2 \/ z.close > Int32Max \div 2
                 THEN z
                 ELSE [z EXCEPT !.timeout = 2 * z.timeout]
            ELSE [z EXCEPT !.timeout = GetInitialTimeout,
                           !.close = GetInitialTimeout]

CheckChangedUnguarded(c) ==
    IF RecentTimeoutCount(c) < MaxTimeouts THEN c
    ELSE LET z == [Reset(c) EXCEPT !.recent = [i \in DOMAIN c.recent |-> 0],
                                   !.fhIdx = 0]
         IN IF z.timeout >= GetInitialTimeout
            THEN [z EXCEPT !.timeout = 2 * z.timeout, !.close = 2 * z.close]
            ELSE [z EXCEPT !.timeout = GetInitialTimeout,
                           !.close = GetInitialTimeout]

\* circuit_build_times_network_check_changed
NetworkCheckChanged(c) ==
    IF RecentTimeoutCount(c) < MaxTimeouts THEN c
    ELSE LET r == Reset(c)
             z == [r EXCEPT !.recent = [i \in DOMAIN c.recent |-> 0],
                            !.fhIdx = 0]
         IN IF z.timeout >= GetInitialTimeout
            THEN IF z.timeout > Int32Max \div 2 \/ z.close > Int32Max \div 2
                 THEN z
                 ELSE [z EXCEPT !.timeout = 2 * z.timeout,
                                !.close = 2 * z.close]
            ELSE [z EXCEPT !.timeout = GetInitialTimeout,
                           !.close = GetInitialTimeout]

\* Both count_* entry points fall back to the initial timeout when off.
DisabledFallback(c) ==
    [c EXCEPT !.timeout = GetInitialTimeout, !.close = GetInitialTimeout]

\* circuit_build_times_count_timeout
CountTimeoutOp(c, didOnehop) ==
    IF disabled THEN DisabledFallback(c)
    ELSE NetworkCheckChanged(NetworkTimeout(c, didOnehop))

\* circuit_build_times_count_close
CountCloseOp(c, startedAfterLive) ==
    IF disabled THEN DisabledFallback(c)
    ELSE LET s == NetworkClose(c, startedAfterLive)
         IN IF s.nonlive > 0 THEN s ELSE AddTime(s, CBT_BUILD_ABANDONED)


(***************************************************************************)
(* The state file.  A saved history is a record [total, abandoned, lines]  *)
(* of TotalBuildTimes, CircuitBuildAbandonedCount and the                  *)
(* CircuitBuildTimeBin lines; a line is [args, ms, count]: the number of   *)
(* space-separated words and the two numbers they spell.  A number larger  *)
(* than the maximum of its tor_parse_ulong call does not parse.  The       *)
(* uint32_t sums of parse_state wrap modulo Uint32Mod.                     *)
(***************************************************************************)

\* The CBT_BUILD_ABANDONED entries of the ring.
AbandonedCount(c) ==
    Cardinality({i \in Slots : c.times[i] = CBT_BUILD_ABANDONED})

\* Variant of UpdateState that labels each line with the next bin.
UpdateStateBinShift(c) ==
    LET h == Histogram(c)
        bins == [i \in 1..Cardinality(DOMAIN h) |->
                    [args |-> 2, ms |-> BinToMs(i), count |-> h[i - 1]]]
    IN [total |-> c.total, abandoned |-> AbandonedCount(c),
        lines |-> SelectSeq(bins, LAMBDA l : l.count # 0)]

\* circuit_build_times_update_state: the total, the abandoned count and one
\* line "CBT_BIN_TO_MS(bin) count" per non-empty bin, in bin order.
UpdateState(c) ==
    LET h == Histogram(c)
        bins == [i \in 1..Cardinality(DOMAIN h) |->
                    [args |-> 2, ms |-> BinToMs(i - 1), count |-> h[i - 1]]]
    IN [total |-> c.total, abandoned |-> AbandonedCount(c),
        lines |-> SelectSeq(bins, LAMBDA l : l.count # 0)]

\* The histogram loop of parse_state from line i on: acc.loaded is what has
\* been written to loaded_times (it may outgrow the TotalBuildTimes entries
\* allocated), acc.cnt is loaded_cnt.  A line that does not parse breaks
\* the loop with err set, which only changes the return value; a line that
\* would pass TotalBuildTimes breaks it ("Stopping short").
RECURSIVE LoadLines(_, _, _)
LoadLines(s, i, acc) ==
    IF i > Len(s.lines) THEN acc
    ELSE LET l == s.lines[i]
         IN IF l.args < 2 \/ l.ms > Int32Max \/ l.count >= Uint32Mod THEN acc
            ELSE IF (acc.cnt + l.count + s.abandoned) % Uint32Mod > s.total
            THEN acc
            ELSE LoadLines(s, i + 1,
                   [loaded |-> acc.loaded \o [k \in 1..l.count |-> l.ms],
                    cnt |-> (acc.cnt + l.count) % Uint32Mod])

\* loaded_times after the histogram lines and the abandoned entries.
LoadedTimes(s) ==
    LoadLines(s, 1, [loaded |-> <<>>, cnt |-> 0]).loaded
        \o [k \in 1..s.abandoned |-> CBT_BUILD_ABANDONED]

\* tot_values: the slots filled before the first empty one.
NonzeroPrefix(c) == Cardinality({i \in Slots : \A j \in 0..i : c.times[j] # 0})

\* circuit_build_times_shuffle_and_store_array: a uniformly random
\* permutation of loaded_times (Fisher-Yates), then add_time of the first
\* MIN(num_times, N) of them.
ShuffleAndStore(c, loaded) ==
    {FoldLeft(AddTime, c, [i \in 1..Min({Len(loaded), N}) |-> loaded[p[i]]])
        : p \in Permutations(1..Len(loaded))}

\* circuit_build_times_parse_state with circuit_build_times_disabled() = dis:
\* the cbt records it may leave.  Both consistency checks fall back to
\* circuit_build_times_reset; the -1 it then returns changes nothing else.
ParseState(s, dis) ==
    LET c0 == CbtInit(dis)
        loaded == LoadedTimes(s)
    IN IF dis THEN {c0}
       ELSE IF Len(loaded) % Uint32Mod # s.total THEN {Reset(c0)}
       ELSE UNION {IF c1.total # NonzeroPrefix(c1) \/ c1.total > N
                   THEN {Reset(c1)}
                   ELSE SetTimeoutWhen(c1, dis)
                   : c1 \in ShuffleAndStore(c0, loaded)}

\* The samples a history stands for, each as the middle of its bin (the
\* value update_state writes): a bag of times.
Quantize(t) ==
    IF t = CBT_BUILD_ABANDONED THEN t ELSE BinToMs(t \div BinWidth)

SampleBag(c) ==
    LET filled == {i \in Slots : c.times[i] # 0}
    IN [v \in {Quantize(c.times[i]) : i \in filled} |->
           Cardinality({i \in filled : Quantize(c.times[i]) = v})]

EmptyStateFile == [total |-> 0, abandoned |-> 0, lines |-> <<>>]


(***************************************************************************)
(* Actions.  Each is one entry point into circuitstats.c.                  *)
(***************************************************************************)
\* A step of the running process leaves the state file alone.
Running ==
    /\ saved' = saved
    /\ history' = [history EXCEPT !.fresh = FALSE]

Init ==
    /\ disabled \in BOOLEAN
    /\ cbt = CbtInit(disabled)
    /\ saved = EmptyStateFile
    /\ history = [own |-> TRUE, samples |-> SampleBag(cbt), fresh |-> TRUE]

\* circuit_build_times_handle_completed_hop for a circuit that just opened a
\* hop after btime: anyOpened is circuit_any_opened_circuits_cached(),
\* finalHop that its cpath reached DEFAULT_ROUTE_LEN, wasMeasure that its
\* purpose already is MEASURE_TIMEOUT, relaxed its relaxed_timeout.  An
\* early return of the code is a step the action does not take.
HandleCompletedHop(btime, anyOpened, wasMeasure, finalHop, relaxed) ==
    LET timedOut == btime > cbt.timeout /\ anyOpened
        \* circuit_build_times_mark_circ_as_measurement_only
        c1 == IF timedOut /\ ~wasMeasure /\ ~relaxed
              THEN CountTimeoutOp(cbt, TRUE) ELSE cbt
        isMeasure == wasMeasure \/ timedOut
        recorded == IF c1.nonlive = 0 THEN SetTimeout(AddTime(c1, btime))
                    ELSE {c1}
    IN /\ ~disabled
       /\ IF finalHop /\ btime <= 2 * c1.close + JumpSlack
          THEN cbt' \in {IF isMeasure THEN r ELSE NetworkCircSuccess(r)
                          : r \in recorded}
          ELSE cbt' = c1
       /\ UNCHANGED disabled /\ Running

\* circuit_expire_building gives up on a circuit that made it past the
\* first hop or not: circuit_build_times_count_timeout.
CountTimeout(didOnehop) ==
    /\ cbt' = CountTimeoutOp(cbt, didOnehop)
    /\ UNCHANGED disabled /\ Running

\* A circuit is closed after close_ms: circuit_build_times_count_close.
CountClose(startedAfterLive) ==
    /\ startedAfterLive => cbt.nonlive < MaxNonlive
    /\ cbt' = CountCloseOp(cbt, startedAfterLive)
    /\ UNCHANGED disabled /\ Running

\* A cell arrived: circuit_build_times_network_is_live.
NetworkIsLive ==
    /\ cbt' = [cbt EXCEPT !.nonlive = 0]
    /\ UNCHANGED disabled /\ Running

\* A consensus arrives carrying cbtdisabled = dis and cbtrecentcount = num:
\* circuit_build_times_new_consensus_params.
NewConsensusParams(dis, num) ==
    /\ disabled' = dis
    /\ cbt' =
        IF dis \/ num = 0 THEN FreeTimeouts(cbt)
        ELSE IF num = cbt.numRecent THEN cbt
        ELSE [cbt EXCEPT
                !.recent = [i \in 0..(num-1) |->
                              IF i < cbt.numRecent THEN cbt.recent[i] ELSE 0],
                !.fhIdx = IF num < cbt.numRecent
                          THEN Min({num - 1, cbt.fhIdx}) ELSE cbt.fhIdx,
                !.numRecent = num]
    /\ Running

\* or_state_save writes the history to the state file:
\* circuit_build_times_update_state.
SaveState ==
    /\ saved' = UpdateState(cbt)
    /\ history' = [own |-> TRUE, samples |-> SampleBag(cbt), fresh |-> FALSE]
    /\ UNCHANGED <<cbt, disabled>>

\* The state file is one this process did not write: saved by a version
\* that observes more circuits (the notice of shuffle_and_store_array) or
\* edited by hand.
ReplaceState(s) ==
    /\ saved' = s
    /\ history' = [history EXCEPT !.own = FALSE, !.fresh = FALSE]
    /\ UNCHANGED <<cbt, disabled>>

\* The process stops and starts again.  Everything in memory is lost and the
\* saved history goes through circuit_build_times_parse_state; dis is
\* circuit_build_times_disabled() in the new process.
Restart(dis) ==
    /\ disabled' = dis
    /\ cbt' \in ParseState(saved, dis)
    /\ saved' = saved
    /\ history' = [history EXCEPT !.fresh = TRUE]

\* What the running process does.
Learn ==
    \/ \E b \in BuildTimes, ao, wm, fh, rl \in BOOLEAN :
          HandleCompletedHop(b, ao, wm, fh, rl)
    \/ \E d \in BOOLEAN : CountTimeout(d)
    \/ \E s \in BOOLEAN : CountClose(s)
    \/ NetworkIsLive
    \/ \E d \in BOOLEAN, num \in {0} \cup RecentCounts :
          NewConsensusParams(d, num)

\* The state file and the process lifetime.
Persist ==
    \/ SaveState
    \/ \E s \in ForeignStates : ReplaceState(s)
    \/ \E d \in BOOLEAN : Restart(d)

Next == Learn \/ Persist

Spec == Init /\ [][Next]_vars

(***************************************************************************)
(* Properties.                                                             *)
(***************************************************************************)
TypeOK ==
    /\ disabled \in BOOLEAN
    /\ cbt.times \in [Slots -> {0, CBT_BUILD_ABANDONED} \cup BuildTimes]
    /\ cbt.total \in 0..N /\ cbt.idx \in Slots
    /\ cbt.timeout \in Nat /\ cbt.close \in Nat
    /\ cbt.numRecent \in {0} \cup RecentCounts
    /\ cbt.recent \in [0..(cbt.numRecent - 1) -> {0, 1}]
    /\ cbt.nonlive \in 0..MaxNonlive
    /\ saved \in [total : Nat, abandoned : Nat,
                  lines : Seq([args : Nat, ms : Nat, count : Nat])]

\* The build-time ring is filled from slot 0 and total_build_times counts
\* its non-empty slots: update_alpha asserts n == total - abandoned and
\* parse_state rejects a history whose non-zero prefix differs from total.
\* add_time, reset (from check_changed) and count_close must keep it.
RingConsistent ==
    /\ cbt.total = Cardinality({i \in Slots : cbt.times[i] # 0})
    /\ cbt.total < N => /\ cbt.idx = cbt.total
                        /\ \A i \in Slots : cbt.times[i] # 0 <=> i < cbt.total

\* The measurement period never ends before the timeout: close_ms >=
\* timeout_ms after every set_timeout (caps, the MAX with the initial value,
\* the raise to cbtmintimeout), every doubling in network_check_changed and
\* every fallback to the initial timeout.
CloseCoversTimeout == cbt.close >= cbt.timeout

\* Repeated resets in network_check_changed double the timeouts, but never
\* past INT32_MAX: the doubling is skipped once either exceeds INT32_MAX/2.
TimeoutBounded == cbt.timeout <= Int32Max /\ cbt.close <= Int32Max

\* No state ever holds cbtmaxtimeouts recent timeouts-after-first-hop:
\* the timeout that would reach it resets the history in the same call, and
\* a consensus that shrinks the ring only drops entries.
RecentTimeoutsBelowMax == RecentTimeoutCount(cbt) < MaxTimeouts

\* The index into timeouts_after_firsthop is inside the array whenever the
\* array exists, as the writes in network_circ_success and network_timeout
\* assume.
FirsthopIdxInRange == cbt.numRecent > 0 => cbt.fhIdx < cbt.numRecent

\* A history saved by update_state comes back from parse_state after a
\* restart: the same samples, each moved to the middle of its bin, and the
\* same abandoned circuits.  The abandoned count, the histogram lines, the
\* bin arithmetic on both sides, the two consistency checks of parse_state
\* and the shuffle must all agree for it to hold.
RestartRestoresHistory ==
    history.fresh /\ history.own /\ ~disabled
        => SampleBag(cbt) = history.samples

\* parse_state allocates TotalBuildTimes entries for loaded_times, and the
\* check before each bin line (and the later count comparison) is meant to
\* keep it from writing more: no restart writes past that buffer, whatever
\* the state file holds (checked in the state the restart leaves).
LoadStaysInBuffer ==
    history.fresh /\ ~disabled => Len(LoadedTimes(saved)) <= saved.total

\* The ring read from the oldest sample to the newest: slots 0..total-1
\* until it is full, then from build_times_idx round.
WindowOf(c) ==
    IF c.total < N THEN [i \in 1..c.total |-> c.times[i - 1]]
    ELSE [i \in 1..N |-> c.times[(c.idx + i - 1) % N]]

\* The samples a state file stands for: the counts of the bin lines that
\* have two words, at their ms value, and the abandoned count.
StoredSamples(s) ==
    LET good == {i \in DOMAIN s.lines : s.lines[i].args >= 2}
        vals == {s.lines[i].ms : i \in good}
                \cup (IF s.abandoned > 0 THEN {CBT_BUILD_ABANDONED} ELSE {})
        n(v) == MapThenSumSet(LAMBDA i : s.lines[i].count,
                              {i \in good : s.lines[i].ms = v})
                + (IF v = CBT_BUILD_ABANDONED THEN s.abandoned ELSE 0)
    IN [v \in {u \in vals : n(u) > 0} |-> n(v)]

Window == INSTANCE CBTWindow
            WITH window <- WindowOf(cbt), stored <- StoredSamples(saved),
                 Samples <- BuildTimes \cup {CBT_BUILD_ABANDONED}

\* The ring implements the abstract history: every step either records one
\* sample at the newest end (dropping the oldest once N are held), clears
\* it, leaves the sequence of samples unchanged, or (a restart) loads at
\* most N of the samples the state file holds.  This is what the
\* index arithmetic of add_time and the zeroing of reset must achieve.
WindowRefinement == Window!Spec

=============================================================================
