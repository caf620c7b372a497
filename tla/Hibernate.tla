------------------------------ MODULE Hibernate ------------------------------
(***************************************************************************)
(* Bandwidth accounting and hibernation of a relay (hibernate.c, in       *)
(* src/unnamed/part_000).  The file-static globals of hibernate.c, the    *)
(* accounting fields of the in-memory or_state and the scheduled wakeup   *)
(* and shutdown events are the record h; the state file on disk is disk.  *)
(* Each C function is an operator from h to h, so a handler composes      *)
(* them in one step exactly as the code calls them.                       *)
(*                                                                        *)
(* Time is whole seconds.  Accounting periods are aligned intervals of    *)
(* length L (edge_of_accounting_period_containing with a fixed            *)
(* AccountingStart); all other durations are scaled constants.  Bytes     *)
(* read and written are one counter (get_accounting_bytes under any      *)
(* AccountingRule).                                                       *)
(***************************************************************************)
EXTENDS Integers, FiniteSets

CONSTANTS
  L,               \* length of an accounting period
  MaxTime,         \* clock horizon
  AccountingMax,   \* the configured AccountingMax when enabled
  MaxBurst,        \* bytes one second of traffic may add
  SecsPerMin,      \* the factor 60 of hibernate.c
  MinMeasurement,  \* MIN_TIME_FOR_MEASUREMENT
  MaxConfigured,   \* max_configured of update_expected_bandwidth
  SoftLimPct,      \* SOFT_LIM_PCT, in percent
  SoftLimBytes,    \* SOFT_LIM_BYTES
  SoftLimMinutes,  \* SOFT_LIM_MINUTES
  NoteInterval,    \* NOTE_INTERVAL
  NoteBytes,       \* NOTE_BYTES
  RoundUnit,       \* the 1024 of ROUND_UP
  SaveDelay,       \* the 60 s of accounting_record_bandwidth_usage
  ShutdownWait,    \* ShutdownWaitLength
  ShutdownSlack,   \* the extra 5 s of hibernate_begin
  Digests,         \* values of get_uint32(digest) modulo small numbers
  MaxRestarts,     \* bound on process restarts
  MaxReloads       \* bound on configuration reloads

ASSUME /\ L > MinMeasurement /\ MinMeasurement >= SecsPerMin
       /\ SecsPerMin > 0 /\ RoundUnit > 0 /\ MaxTime >= L

LIVE == "LIVE"
INITIAL == "INITIAL"
LOWBANDWIDTH == "LOWBANDWIDTH"
DORMANT == "DORMANT"
EXITING == "EXITING"
States == {LIVE, INITIAL, LOWBANDWIDTH, DORMANT, EXITING}

Bursts == 0..MaxBurst
Starts == {k * L : k \in 1..(MaxTime \div L)}
NoWrite == MaxTime + 1    \* next_write = TIME_MAX: nothing to save

VARIABLES
  now,       \* time(NULL)
  h,         \* globals of hibernate.c, or_state fields, pending events
  disk,      \* the accounting fields of the state file on disk
  acctMax,   \* get_options()->AccountingMax (0 = accounting disabled)
  digest,    \* the keyed digest of each interval start (fixed identity key)
  restarts,
  reloads

vars == <<now, h, disk, acctMax, digest, restarts, reloads>>

(* The accounting fields of or_state_t, as written by                    *)
(* accounting_record_bandwidth_usage.                                    *)
EmptyState == [start |-> 0, bytes |-> 0, secs |-> 0, expected |-> 0,
               softAt |-> 0, bytesAtSoft |-> 0]

(* A freshly started process: every static of hibernate.c is zero, the   *)
(* state is INITIAL and or_state is what was loaded from disk.           *)
Fresh(st) ==
  [state |-> INITIAL, endTime |-> 0, shutdownTime |-> 0, exitAt |-> 0,
   start |-> 0, end |-> 0, wakeup |-> 0, bytes |-> 0, secs |-> 0,
   expected |-> 0, softAt |-> 0, bytesAtSoft |-> 0,
   notedTime |-> 0, notedBytes |-> 0, or |-> st, nextWrite |-> NoWrite,
   event |-> 0, running |-> TRUE]

PeriodStart(t) == (t \div L) * L
PeriodAfter(t) == PeriodStart(t) + L

(* update_expected_bandwidth: the rate at which last interval's quota   *)
(* was spent, capped at the configured rate.                            *)
UpdateExpectedBandwidthUncapped(g) ==
  IF /\ g.softAt > g.start /\ g.bytesAtSoft # 0
     /\ g.softAt - g.start > MinMeasurement
  THEN (g.bytesAtSoft \div (g.softAt - g.start)) \div SecsPerMin
  ELSE IF g.secs >= MinMeasurement THEN g.bytes \div (g.secs \div SecsPerMin)
  ELSE 0

UpdateExpectedBandwidth(g) ==
  LET e == IF /\ g.softAt > g.start /\ g.bytesAtSoft # 0
              /\ g.softAt - g.start > MinMeasurement
           THEN (g.bytesAtSoft \div (g.softAt - g.start)) \div SecsPerMin
           ELSE IF g.secs >= MinMeasurement
                THEN g.bytes \div (g.secs \div SecsPerMin)
                ELSE 0
  IN IF e > MaxConfigured THEN MaxConfigured ELSE e

ResetAccounting(g, t) ==
  [g EXCEPT !.expected = UpdateExpectedBandwidth(g),
            !.start = PeriodStart(t), !.end = PeriodAfter(t),
            !.bytes = 0, !.secs = 0, !.bytesAtSoft = 0, !.softAt = 0]

(* accounting_set_wakeup_time: a keyed pseudo-random point early enough *)
(* in the interval to spend the quota at the expected rate.             *)
SetWakeupTime(g, am) ==
  IF g.expected = 0 THEN [g EXCEPT !.wakeup = g.start]
  ELSE LET consider == L - (am \div g.expected) * SecsPerMin
       IN [g EXCEPT !.wakeup = IF consider <= 0 THEN g.start
                               ELSE g.start + (digest[g.start] % consider)]

ReadBandwidthUsage(g) ==
  LET st == g.or
      soft == st.softAt > st.start
  IN [g EXCEPT !.bytes = st.bytes, !.secs = st.secs, !.start = st.start,
               !.expected = st.expected,
               !.softAt = IF soft THEN st.softAt ELSE 0,
               !.bytesAtSoft = IF soft THEN st.bytesAtSoft ELSE 0]

(* configure_accounting, after the usage has been read: continue the    *)
(* remembered interval or start a new one.  With aligned periods and a  *)
(* fixed AccountingStart, a start that differs from the remembered one  *)
(* is a whole period away, so both the "elapsed" and the "mismatched"   *)
(* branches reset; the "moved by at most half" branch needs a changed   *)
(* AccountingStart and is not reached.                                  *)
ChooseIntervalResume(r, t) ==
  IF r.start # 0 THEN [r EXCEPT !.end = PeriodAfter(r.start)]
  ELSE ResetAccounting(r, t)

ChooseInterval(r, t) ==
  IF r.start # 0 /\ PeriodStart(t) = r.start
  THEN [r EXCEPT !.end = PeriodAfter(r.start)]
  ELSE ResetAccounting(r, t)

ConfigureAccounting(g, t, am) ==
  SetWakeupTime(ChooseInterval(IF g.start = 0 THEN ReadBandwidthUsage(g)
                                              ELSE g, t), am)

RoundUp(x) == ((x + RoundUnit - 1) \div RoundUnit) * RoundUnit

MarkDirty(g, when) ==
  [g EXCEPT !.nextWrite = IF when < @ THEN when ELSE @]

RecordBandwidthUsage(g, t) ==
  MarkDirty([g EXCEPT !.or = [start |-> g.start, bytes |-> RoundUp(g.bytes),
                              secs |-> g.secs, expected |-> g.expected,
                              softAt |-> g.softAt,
                              bytesAtSoft |-> g.bytesAtSoft]],
            t + SaveDelay)

(* time_to_record_bandwidth_usage, with its static last-noted values in *)
(* notedTime and notedBytes.                                            *)
TimeToRecord(g, t) ==
  \/ g.notedTime + NoteInterval <= t
  \/ g.notedBytes + NoteBytes <= g.bytes
  \/ g.end # 0 /\ g.end <= t

RecordIfDue(c, t) ==
  IF TimeToRecord(c, t)
  THEN RecordBandwidthUsage([c EXCEPT !.notedTime = t, !.notedBytes = c.bytes], t)
  ELSE c

AccountingRunHousekeeping(g, t, am) ==
  RecordIfDue(IF t >= g.end THEN ConfigureAccounting(g, t, am) ELSE g, t)

HardLimitReachedStrict(g, am) == am # 0 /\ g.bytes > am

HardLimitReached(g, am) == am # 0 /\ g.bytes >= am

SoftLimit(g, am) ==
  LET s0 == (am * SoftLimPct) \div 100
      s1 == IF am > SoftLimBytes /\ am - SoftLimBytes > s0
            THEN am - SoftLimBytes ELSE s0
      eu == g.expected * SoftLimMinutes
  IN IF g.expected # 0 /\ am > eu /\ am - eu > s1 THEN am - eu ELSE s1

SoftLimitReached(g, am) ==
  SoftLimit(g, am) # 0 /\ g.bytes >= SoftLimit(g, am)

(* hibernate_begin past its "exiting now" check: note the soft-limit    *)
(* data when leaving LIVE for LOWBANDWIDTH, then set the shutdown time  *)
(* or the hibernation end, the state, and record the usage.             *)
BeginFrom(a, new, t) ==
  LET b == IF new = EXITING
           THEN [a EXCEPT !.shutdownTime = t + ShutdownWait + ShutdownSlack,
                          !.exitAt = t + ShutdownWait]
           ELSE [a EXCEPT !.endTime = a.end]
  IN MarkDirty(RecordBandwidthUsage([b EXCEPT !.state = new], t), 0)

(* hibernate_begin.  SIGINT while not LIVE exits at once.               *)
HibernateBegin(g, new, t) ==
  IF new = EXITING /\ g.state # LIVE THEN [g EXCEPT !.running = FALSE]
  ELSE BeginFrom(IF new = LOWBANDWIDTH /\ g.state = LIVE
                 THEN [g EXCEPT !.softAt = t, !.bytesAtSoft = g.bytes]
                 ELSE g, new, t)

HibernateEnd(g, new) == [g EXCEPT !.state = new, !.endTime = 0]

HibernateScheduleWakeupEvent(g, t, e) ==
  [g EXCEPT !.event = IF t >= e THEN t + 1 ELSE e]

(* hibernate_go_dormant once the state is DORMANT: sleep until the      *)
(* wakeup time if it is ahead, else until the interval ends; record the *)
(* usage and schedule the wakeup event.                                 *)
DormantUntil(a, t) ==
  LET e == IF t < a.wakeup THEN a.wakeup ELSE a.end
  IN HibernateScheduleWakeupEvent(
       MarkDirty(RecordBandwidthUsage([a EXCEPT !.endTime = e], t), 0), t, e)

HibernateGoDormant(g, t) ==
  IF g.state = DORMANT THEN g
  ELSE DormantUntil(IF g.state = LOWBANDWIDTH THEN [g EXCEPT !.state = DORMANT]
                    ELSE HibernateBegin(g, DORMANT, t), t)

(* hibernate_end_time_elapsed after its housekeeping.                   *)
ElapsedAfter(a, t) ==
  IF a.wakeup <= t THEN HibernateEnd(a, LIVE)
  ELSE IF a.state # DORMANT
       THEN HibernateGoDormant([a EXCEPT !.endTime = a.wakeup], t)
       ELSE [a EXCEPT !.endTime = a.wakeup]

HibernateEndTimeElapsed(g, t, am) ==
  ElapsedAfter(AccountingRunHousekeeping(g, t, am), t)

(* consider_hibernation, block "we aren't hibernating".                 *)
ConsiderAwake(a, t, am) ==
  IF a.state \notin {LIVE, INITIAL} THEN a
  ELSE IF SoftLimitReached(a, am) THEN HibernateBegin(a, LOWBANDWIDTH, t)
  ELSE IF am # 0 /\ t < a.wakeup THEN HibernateGoDormant(a, t)
  ELSE IF a.state = INITIAL THEN HibernateEnd(a, LIVE)
  ELSE a

(* consider_hibernation, block "LOWBANDWIDTH".                          *)
ConsiderLow(b, t, am) ==
  IF b.state # LOWBANDWIDTH THEN b
  ELSE IF am = 0 THEN HibernateEndTimeElapsed(b, t, am)
  ELSE IF HardLimitReached(b, am) THEN HibernateGoDormant(b, t)
  ELSE IF b.endTime <= t THEN HibernateEndTimeElapsed(b, t, am)
  ELSE b

ConsiderHibernation(g, t, am) ==
  IF g.state = EXITING
  THEN IF g.shutdownTime <= t THEN [g EXCEPT !.running = FALSE] ELSE g
  ELSE IF g.state = DORMANT /\ g.endTime > t /\ am # 0 THEN g
  ELSE ConsiderLow(ConsiderAwake(IF g.state = DORMANT
                                 THEN HibernateEndTimeElapsed(g, t, am)
                                 ELSE g, t, am), t, am)

(* A scheduled mainloop event (the wakeup event, the scheduled shutdown, *)
(* the state-file save) is due; the clock does not pass a due event.     *)
EventDue ==
  /\ h.running
  /\ \/ h.event # 0 /\ h.event <= now
     \/ h.exitAt # 0 /\ h.exitAt <= now
     \/ h.nextWrite <= now

Init ==
  /\ now = L
  /\ acctMax = AccountingMax
  /\ digest \in [Starts -> Digests]
  /\ disk = EmptyState
  /\ h = ConfigureAccounting(Fresh(EmptyState), L, AccountingMax)
  /\ restarts = 0
  /\ reloads = 0

(* One second of the main loop while not dormant: connection.c reports  *)
(* the traffic of the second (accounting_add_bytes), then the periodic  *)
(* callback runs accounting_run_housekeeping when accounting is enabled *)
(* and consider_hibernation.                                            *)
Second(n) ==
  /\ h.running /\ h.state # DORMANT /\ ~EventDue /\ now < MaxTime
  /\ LET a == [h EXCEPT !.bytes = @ + n, !.secs = @ + 1]
         b == IF acctMax # 0 THEN AccountingRunHousekeeping(a, now + 1, acctMax)
              ELSE a
     IN h' = ConsiderHibernation(b, now + 1, acctMax)
  /\ now' = now + 1
  /\ UNCHANGED <<disk, acctMax, digest, restarts, reloads>>

(* While dormant the per-second callback is shut down: time passes.     *)
DormantSecond ==
  /\ h.running /\ h.state = DORMANT /\ ~EventDue /\ now < MaxTime
  /\ now' = now + 1
  /\ UNCHANGED <<h, disk, acctMax, digest, restarts, reloads>>

(* wakeup_event_callback, after consider_hibernation: still dormant,    *)
(* sleep until the wakeup time or the interval's end.                   *)
StillDormantNoReschedule(b, t) ==
  IF b.state # DORMANT THEN b
  ELSE [b EXCEPT !.endTime = IF t < b.wakeup THEN b.wakeup ELSE b.end]

StillDormant(b, t) ==
  IF b.state # DORMANT THEN b
  ELSE LET e == IF t < b.wakeup THEN b.wakeup ELSE b.end
       IN HibernateScheduleWakeupEvent([b EXCEPT !.endTime = e], t, e)

(* wakeup_event_callback.                                               *)
WakeupEvent ==
  /\ h.running /\ h.event # 0 /\ h.event <= now
  /\ h' = StillDormant(ConsiderHibernation(
            AccountingRunHousekeeping([h EXCEPT !.event = 0], now, acctMax),
            now, acctMax), now)
  /\ UNCHANGED <<now, disk, acctMax, digest, restarts, reloads>>

(* or_state_save, run every second by the main loop (statefile.c, not   *)
(* in this repository): a dirty state whose next_write has come is       *)
(* written to disk.                                                      *)
SaveState ==
  /\ h.running /\ h.nextWrite <= now
  /\ disk' = h.or
  /\ h' = [h EXCEPT !.nextWrite = NoWrite]
  /\ UNCHANGED <<now, acctMax, digest, restarts, reloads>>

(* The shutdown scheduled by mainloop_schedule_shutdown fires.          *)
ShutdownEvent ==
  /\ h.running /\ h.exitAt # 0 /\ h.exitAt <= now
  /\ h' = [h EXCEPT !.running = FALSE]
  /\ UNCHANGED <<now, disk, acctMax, digest, restarts, reloads>>

(* SIGINT: hibernate_begin_shutdown.                                    *)
Sigint ==
  /\ h.running
  /\ h' = HibernateBegin(h, EXITING, now)
  /\ UNCHANGED <<now, disk, acctMax, digest, restarts, reloads>>

(* The process dies without saving (kill, power loss).                  *)
Crash ==
  /\ h.running /\ restarts < MaxRestarts
  /\ h' = [h EXCEPT !.running = FALSE]
  /\ UNCHANGED <<now, disk, acctMax, digest, restarts, reloads>>

(* The relay is started again: the statics are zero, or_state is loaded *)
(* from disk, and options_act calls configure_accounting when           *)
(* accounting is enabled.                                               *)
Restart ==
  /\ ~h.running /\ restarts < MaxRestarts
  /\ h' = IF acctMax # 0 THEN ConfigureAccounting(Fresh(disk), now, acctMax)
          ELSE Fresh(disk)
  /\ restarts' = restarts + 1
  /\ UNCHANGED <<now, disk, acctMax, digest, reloads>>

DownSecond ==
  /\ ~h.running /\ now < MaxTime
  /\ now' = now + 1
  /\ UNCHANGED <<h, disk, acctMax, digest, restarts, reloads>>

(* A configuration reload turns accounting on or off; options_act calls *)
(* configure_accounting when it is on.                                  *)
Reload(am) ==
  /\ h.running /\ am # acctMax /\ reloads < MaxReloads
  /\ acctMax' = am
  /\ h' = IF am # 0 THEN ConfigureAccounting(h, now, am) ELSE h
  /\ reloads' = reloads + 1
  /\ UNCHANGED <<now, disk, digest, restarts>>

(* The clock has reached the horizon of the model.                      *)
Horizon ==
  /\ now = MaxTime
  /\ UNCHANGED vars

Next ==
  \/ \E n \in Bursts : Second(n)
  \/ DormantSecond
  \/ WakeupEvent
  \/ SaveState
  \/ ShutdownEvent
  \/ Sigint
  \/ Crash
  \/ Restart
  \/ DownSecond
  \/ \E am \in {0, AccountingMax} : Reload(am)
  \/ Horizon

Spec == Init /\ [][Next]_vars

-----------------------------------------------------------------------------
(* Steps that run consider_hibernation.                                 *)
ConsiderStep == (\E n \in Bursts : Second(n)) \/ WakeupEvent

Times == 0..(MaxTime + L + ShutdownWait + ShutdownSlack + 1)
Counts == 0..(MaxBurst * MaxTime + RoundUnit)
StateRec == [start : Times, bytes : Counts, secs : 0..MaxTime,
             expected : 0..MaxConfigured, softAt : Times, bytesAtSoft : Counts]

TypeOK ==
  /\ now \in L..MaxTime
  /\ acctMax \in {0, AccountingMax}
  /\ digest \in [Starts -> Digests]
  /\ restarts \in 0..MaxRestarts
  /\ reloads \in 0..MaxReloads
  /\ disk \in StateRec
  /\ h.state \in States /\ h.or \in StateRec
  /\ {h.endTime, h.shutdownTime, h.exitAt, h.start, h.end, h.wakeup,
      h.softAt, h.notedTime, h.event, h.nextWrite} \subseteq Times
  /\ {h.bytes, h.bytesAtSoft, h.notedBytes} \subseteq Counts
  /\ h.secs \in 0..MaxTime /\ h.expected \in 0..MaxConfigured
  /\ h.running \in BOOLEAN
  /\ h.state = EXITING => h.shutdownTime # 0

(* configure_accounting keeps the interval current: while accounting is *)
(* enabled a running relay's interval is the one containing now, and    *)
(* its wakeup time lies inside it; only a dormant relay whose wakeup    *)
(* event is due may still hold the interval that just ended.  A restart *)
(* reads the interval from the state file and must not resume an old    *)
(* one.                                                                 *)
IntervalCurrent ==
  h.running /\ acctMax # 0 =>
    /\ h.start <= now /\ h.end = h.start + L
    /\ h.start <= h.wakeup /\ h.wakeup < h.end
    /\ \/ now < h.end
       \/ h.state = DORMANT /\ h.event # 0 /\ h.event <= now

(* A dormant relay cannot oversleep: hibernate_end_time is set and not   *)
(* past the interval's end, and the wakeup event (the only thing that    *)
(* runs consider_hibernation while dormant) is pending no later than     *)
(* hibernate_end_time or the next second.                                *)
SleepBounded ==
  h.running /\ h.state = DORMANT =>
    /\ h.endTime # 0 /\ h.endTime <= h.end
    /\ h.event # 0
    /\ h.event <= IF h.endTime > now + 1 THEN h.endTime ELSE now + 1

(* AccountingMax is a hard limit: whenever consider_hibernation has run, *)
(* a running relay with accounting enabled that has used its quota is    *)
(* dormant (or shutting down), including right after a restart that     *)
(* restored the used bytes from the state file.                        *)
HardLimitHonoured ==
  [][ConsiderStep /\ h'.running /\ acctMax' # 0 /\ h'.bytes >= acctMax'
       => h'.state \in {DORMANT, EXITING}]_vars

(* The intent of consider_hibernation's "!accounting_enabled" branches: *)
(* with accounting disabled, running consider_hibernation leaves the    *)
(* relay awake.                                                         *)
AccountingOffStaysAwake ==
  [][ConsiderStep /\ acctMax = 0 /\ h'.running => h'.state # DORMANT]_vars

RecordedBytes(g) == IF g.or.start = g.start THEN g.or.bytes ELSE 0

(* time_to_record_bandwidth_usage records usage "every 20 megabytes":   *)
(* after each second's housekeeping the bytes counted in the interval   *)
(* exceed the recorded ones by less than NOTE_BYTES.                    *)
RecordLagBounded ==
  [][(\E n \in Bursts : Second(n)) /\ acctMax # 0 /\ acctMax' # 0
       => h'.bytes < RecordedBytes(h') + NoteBytes]_vars

(* update_expected_bandwidth sets "how much we sent/received per minute *)
(* last interval": once the soft limit has been hit after the           *)
(* measurement window, the rate the next interval starts from is the    *)
(* bytes up to the soft limit per minute of the time it took, up to      *)
(* integer rounding and the configured cap.                             *)
ExpectedPerMinute ==
  LET d == h.softAt - h.start
      b == h.bytesAtSoft
      lo == (b \div d) * SecsPerMin
      hi == (b * SecsPerMin) \div d
      e == UpdateExpectedBandwidth(h)
  IN h.running /\ h.softAt > h.start /\ b # 0 /\ d > MinMeasurement =>
       IF lo >= MaxConfigured THEN e = MaxConfigured ELSE lo <= e /\ e <= hi
====
