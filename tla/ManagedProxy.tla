---------------------------- MODULE ManagedProxy ----------------------------
(***************************************************************************)
(* Managed pluggable-transport proxies (src/feature/client/transports.c).  *)
(*                                                                         *)
(* A managed proxy is a child process that tor launches and configures    *)
(* through a line protocol on the child's stdout.  The proxies live in    *)
(* managed_proxy_list, unconfigured_proxies_n counts those that are not   *)
(* COMPLETED, and the transports of configured proxies are registered in  *)
(* transport_list.  The entry points are                                   *)
(*   - ConfigRead: a torrc read (start-up, SIGHUP, SETCONF), i.e.          *)
(*     mark_transport_list, pt_prepare_proxy_list_for_config_read, one    *)
(*     pt_kickstart_proxy per ClientTransportPlugin line, then            *)
(*     sweep_transport_list and sweep_proxy_list, as the header comment   *)
(*     of transports.c describes;                                         *)
(*   - Tick: pt_configure_remaining_proxies, run while                    *)
(*     pt_proxies_configuration_pending();                                 *)
(*   - Stdout: managed_proxy_stdout_callback for one line of a child;     *)
(*   - Exit: managed_proxy_exit_callback when a child dies.               *)
(*                                                                         *)
(* A managed_proxy_t is identified by the order of its creation (1, 2,    *)
(* ...), and its process_t, created once by managed_proxy_create, by the  *)
(* same number.  The process subsystem (not in this repository) is        *)
(* modelled from what transports.c relies on: process_set_data stores the *)
(* callback argument, process_exec starts a child, and an exit callback   *)
(* that returns true makes the subsystem free the process_t.              *)
(***************************************************************************)
EXTENDS Integers, Sequences, FiniteSets, SequencesExt

CONSTANTS
    NArgv,        \* distinct proxy command lines (argv), numbered 1..NArgv
    Transports,   \* transport names, e.g. {obfs4, meek}
    ProxyUris,    \* values of get_pt_proxy_uri(), NoProxy among them
    NoProxy,      \* get_pt_proxy_uri() == NULL
    MaxMps,       \* bound: managed_proxy_create calls in a behaviour
    MaxMethods    \* bound: METHOD lines accepted per proxy launch

ASSUME NoProxy \in ProxyUris /\ MaxMps \in Nat /\ MaxMethods \in Nat

Argvs == 1..NArgv
Ids == 1..MaxMps

\* enum pt_proto_state
States == {"INFANT", "LAUNCHED", "ACCEPTING_METHODS", "CONFIGURED",
           "COMPLETED", "BROKEN", "FAILED_LAUNCH"}

\* The lines handle_proxy_line tells apart.  "ERROR" stands for ENV-ERROR,
\* VERSION-ERROR and PROXY-ERROR, which all end in err; "VERSION_BAD" and
\* "METHOD_BAD" are lines whose parse_version / parse_cmethod_line fails;
\* "LOG" stands for LOG, STATUS and unknown lines, which change nothing.
Lines == {"ERROR", "VERSION", "VERSION_BAD", "DONE", "METHOD_ERROR",
          "METHOD_BAD", "PROXY_DONE", "LOG"} \cup Transports

VARIABLES
    mp,          \* managed_proxy_t by id; a destroyed one is reset to NoMp
    list,        \* managed_proxy_list, as a sequence of ids
    proc,        \* process_t by id: [data, child, freed]
    unconf,      \* unconfigured_proxies_n
    check,       \* check_if_restarts_needed
    ptProxy,     \* the current get_pt_proxy_uri()
    reg,         \* transport_list: name -> [owner, marked], owner 0 = absent
    nextId,      \* id of the next managed_proxy_create
    uaf,         \* ids of process_t used after the process subsystem freed it
    aborted      \* a tor_assert failed and the process stopped

vars == <<mp, list, proc, unconf, check, ptProxy, reg, nextId, uaf, aborted>>

Listed == Range(list)

NoMp == [argv |-> 0, state |-> "INFANT", transports |-> <<>>,
         toLaunch |-> {}, marked |-> FALSE, wasAround |-> FALSE,
         uri |-> NoProxy, supported |-> FALSE]

FreshProc == [data |-> 0, child |-> FALSE, freed |-> FALSE]

NoReg == [owner |-> 0, marked |-> FALSE]

\* The predicate of assert_unconfigured_count_ok.
CountOk(l, m, u) ==
    Cardinality({i \in Range(l) : m[i].state = "COMPLETED"}) + u = Len(l)

\* Mutant: check_if_restarts_needed left out of the pending test.
ConfigurationPendingNoCheck == unconf # 0

\* pt_proxies_configuration_pending
ConfigurationPending == unconf # 0 \/ check

\* Uses of a process_t (set_data, terminate, exec) by the ids in S.
Touch(S) == uaf \cup {i \in S : proc[i].freed}

\* Mutant: terminate the child without clearing its callback argument.
DetachTerminateOnly(pr, S) == pr

\* process_set_data(p, NULL); process_terminate(p): the child is signalled
\* and its exit callback comes later.
Detach(pr, S) == [i \in Ids |-> IF i \in S THEN [pr[i] EXCEPT !.data = 0]
                                        ELSE pr[i]]

Unlist(l, S) == SelectSeq(l, LAMBDA i : i \notin S)

(***************************************************************************)
(* transport_add (transport_resolve_conflicts) of proxy o's transport n:   *)
(* same name and address (same owner): unmark the old one; same name,     *)
(* other address: replace it if marked, else skip the new one.            *)
(***************************************************************************)
TransportAdd(r, n, o) ==
    IF r[n].owner = 0 \/ r[n].marked
    THEN [r EXCEPT ![n] = [owner |-> o, marked |-> FALSE]]
    ELSE IF r[n].owner = o THEN [r EXCEPT ![n].marked = FALSE]
    ELSE r

\* register_client_proxy: transport_add a copy of every transport of i.
RegisterClientProxy(r, i, ts) ==
    [n \in Transports |-> IF n \in Range(ts) THEN TransportAdd(r, n, i)[n]
                                             ELSE r[n]]

\* sweep_transport_list
SweepTransportList(r) ==
    [n \in Transports |-> IF r[n].marked THEN NoReg ELSE r[n]]

(***************************************************************************)
(* proxy_needs_restart: the outgoing proxy URI changed, or the transports  *)
(* launched before the config read (transports) differ in number from,   *)
(* or are not all among, those the new torrc asks for (toLaunch).         *)
(***************************************************************************)
ProxyNeedsRestart(m) ==
    \/ m.uri # ptProxy
    \/ Cardinality(m.toLaunch) # Len(m.transports)
    \/ \E k \in DOMAIN m.transports : m.transports[k] \notin m.toLaunch

\* proxy_prepare_for_restart, on the managed_proxy_t.
PrepareForRestart(m) ==
    [m EXCEPT !.transports = <<>>, !.uri = ptProxy, !.supported = FALSE,
              !.state = "INFANT"]

(***************************************************************************)
(* handle_proxy_line.  A line is accepted only in the state it belongs to *)
(* (VERSION in LAUNCHED, the others in ACCEPTING_METHODS); every other    *)
(* line but LOG/STATUS goes to err and makes the proxy BROKEN.            *)
(***************************************************************************)
ExpectedState(line) ==
    IF line = "VERSION" THEN "LAUNCHED" ELSE "ACCEPTING_METHODS"

\* Mutant: the CMETHOD prefix tested before CMETHOD-ERROR, so a
\* METHOD-ERROR line is parsed as a METHOD line.
HandleProxyLineMethodFirst(m, line) ==
    IF line = "LOG" THEN m
    ELSE IF line \in {"ERROR", "VERSION_BAD", "METHOD_BAD"}
            \/ m.state # ExpectedState(line)
    THEN [m EXCEPT !.state = "BROKEN"]
    ELSE CASE line = "VERSION"    -> [m EXCEPT !.state = "ACCEPTING_METHODS"]
           [] line = "DONE"       -> [m EXCEPT !.state = "CONFIGURED"]
           [] line = "PROXY_DONE" ->
                  [m EXCEPT !.supported = (m.uri # NoProxy \/ @)]
           [] line \in Transports \cup {"METHOD_ERROR"} ->
                  [m EXCEPT !.transports = Append(@, line)]

HandleProxyLine(m, line) ==
    IF line = "LOG" THEN m
    ELSE IF line \in {"ERROR", "VERSION_BAD", "METHOD_BAD"}
            \/ m.state # ExpectedState(line)
    THEN [m EXCEPT !.state = "BROKEN"]
    ELSE CASE line = "VERSION"      -> [m EXCEPT !.state = "ACCEPTING_METHODS"]
           [] line = "DONE"         -> [m EXCEPT !.state = "CONFIGURED"]
           [] line = "METHOD_ERROR" -> m
           [] line = "PROXY_DONE"   ->
                  [m EXCEPT !.supported = (m.uri # NoProxy \/ @)]
           [] line \in Transports   ->
                  [m EXCEPT !.transports = Append(@, line)]

\* Mutant: a BROKEN proxy not counted as finished.
ConfigurationFinishedNoBroken(m) ==
    m.state \in {"CONFIGURED", "FAILED_LAUNCH"}

\* proxy_configuration_finished
ConfigurationFinished(m) ==
    m.state \in {"CONFIGURED", "BROKEN", "FAILED_LAUNCH"}

Abort == /\ aborted' = TRUE
         /\ UNCHANGED <<mp, list, proc, unconf, check, ptProxy, reg, nextId, uaf>>

-----------------------------------------------------------------------------
Init ==
    /\ mp = [i \in Ids |-> NoMp]
    /\ list = <<>>
    /\ proc = [i \in Ids |-> FreshProc]
    /\ unconf = 0
    /\ check = FALSE
    /\ ptProxy \in ProxyUris
    /\ reg = [n \in Transports |-> NoReg]
    /\ nextId = 1
    /\ uaf = {}
    /\ aborted = FALSE

\* Mutant: was_around_before_config_read set without marked_for_removal.
PrepareForConfigReadUnmarked(m) ==
    [m EXCEPT !.wasAround = TRUE, !.toLaunch = {}]

\* pt_prepare_proxy_list_for_config_read, on a COMPLETED proxy.
PrepareForConfigRead(m) ==
    [m EXCEPT !.marked = TRUE, !.wasAround = TRUE, !.toLaunch = {}]

\* pt_kickstart_proxy for a known proxy that was around before the read.
KickstartKnown(m, ts) ==
    [m EXCEPT !.marked = FALSE, !.toLaunch = @ \cup ts]

(***************************************************************************)
(* A torrc read with one ClientTransportPlugin line per argv a with        *)
(* conf[a] # {} (listing the transports conf[a]) and outgoing proxy uri.  *)
(* pt_prepare_proxy_list_for_config_read destroys (and terminates) every  *)
(* proxy that is not COMPLETED, then asserts the count is 0; it marks the *)
(* others marked_for_removal and was_around_before_config_read and clears *)
(* their transports_to_launch.  mark_transport_list marks every transport.*)
(* pt_kickstart_proxy creates a proxy for a new argv, or, for a proxy     *)
(* that was around, unmarks it, sets check_if_restarts_needed and unmarks *)
(* the registered transports of the line's names; both add the line's     *)
(* transports to transports_to_launch.  sweep_proxy_list destroys the     *)
(* proxies still marked, sweep_transport_list the transports.             *)
(***************************************************************************)
ConfigRead(conf, uri) ==
  /\ ~aborted
  /\ LET kept   == {i \in Listed : mp[i].state = "COMPLETED"}
         killed == Listed \ kept
         onLine == {a \in Argvs : conf[a] # {}}
         Prepared(i) == PrepareForConfigRead(mp[i])
         Kicked(i) == IF mp[i].argv \in onLine
                      THEN KickstartKnown(Prepared(i), conf[mp[i].argv])
                      ELSE Prepared(i)
         swept  == {i \in kept : Kicked(i).marked}
         new    == onLine \ {mp[i].argv : i \in kept}
         NewId(a) == nextId + Cardinality({b \in new : b < a})
         newIds == {NewId(a) : a \in new}
         ArgvOfNew(i) == CHOOSE a \in new : NewId(a) = i
         unmarked == UNION {conf[mp[i].argv] : i \in kept}
     IN IF nextId > 1 /\ (~CountOk(list, mp, unconf)
                          \/ unconf - Cardinality(killed) # 0)
        THEN Abort
        ELSE
        /\ nextId + Cardinality(new) <= MaxMps + 1
        /\ mp' = [i \in Ids |->
                   IF i \in killed \cup swept THEN NoMp
                   ELSE IF i \in kept THEN Kicked(i)
                   ELSE IF i \in newIds
                   THEN [NoMp EXCEPT !.argv = ArgvOfNew(i),
                                     !.toLaunch = conf[ArgvOfNew(i)],
                                     !.uri = uri]
                   ELSE mp[i]]
        /\ list' = Unlist(list, killed \cup swept)
                   \o [k \in 1..Cardinality(new) |-> nextId + k - 1]
        /\ proc' = [i \in Ids |-> IF i \in newIds THEN FreshProc
                                  ELSE Detach(proc, killed \cup swept)[i]]
        /\ uaf' = Touch(killed \cup swept)
        /\ unconf' = Cardinality(new)
        /\ check' = (check \/ \E i \in kept : Prepared(i).marked
                                              /\ mp[i].argv \in onLine)
        /\ reg' = SweepTransportList(
                    [n \in Transports |-> IF reg[n].owner = 0 THEN reg[n]
                        ELSE [reg[n] EXCEPT !.marked = (n \notin unmarked)]])
        /\ ptProxy' = uri
        /\ nextId' = nextId + Cardinality(new)
        /\ aborted' = FALSE

(***************************************************************************)
(* pt_configure_remaining_proxies.  After assert_unconfigured_count_ok,    *)
(* every proxy marked was_around_before_config_read has the mark cleared  *)
(* and, if proxy_needs_restart, goes through proxy_prepare_for_restart:   *)
(* its process_t is detached and terminated, the registered transports of *)
(* its names are marked and swept, and it becomes INFANT again.  Every    *)
(* other INFANT proxy is launched (configure_proxy, launch_managed_proxy): *)
(* process_set_data(mp->process, mp), then process_exec, which succeeds   *)
(* (LAUNCHED) for the proxies in ok and fails for the others, which       *)
(* become FAILED_LAUNCH and are destroyed without terminating            *)
(* (handle_finished_proxy).  check_if_restarts_needed is then cleared.    *)
(* The closing assert_unconfigured_count_ok holds whenever the first did. *)
(***************************************************************************)
Tick ==
  /\ ~aborted
  /\ ConfigurationPending
  /\ IF ~CountOk(list, mp, unconf) THEN Abort
     ELSE
     LET R == {i \in Listed : mp[i].wasAround /\ ProxyNeedsRestart(mp[i])}
         L == {i \in Listed : ~mp[i].wasAround /\ mp[i].state = "INFANT"}
         gone == UNION {Range(mp[i].transports) : i \in R}
     IN \E ok \in SUBSET L :
        /\ mp' = [i \in Ids |->
                   IF i \in R THEN [PrepareForRestart(mp[i]) EXCEPT
                                      !.wasAround = FALSE]
                   ELSE IF i \in L \ ok THEN NoMp
                   ELSE IF i \in L THEN [mp[i] EXCEPT !.state = "LAUNCHED"]
                   ELSE IF i \in Listed THEN [mp[i] EXCEPT !.wasAround = FALSE]
                   ELSE mp[i]]
        /\ list' = Unlist(list, L \ ok)
        /\ proc' = [i \in Ids |->
                     IF i \in L THEN [proc[i] EXCEPT !.data = i,
                                                     !.child = (i \in ok)]
                     ELSE Detach(proc, R)[i]]
        /\ uaf' = Touch(R \cup L)
        /\ unconf' = unconf + Cardinality(R) - Cardinality(L \ ok)
        /\ check' = FALSE
        /\ reg' = SweepTransportList(
                    [n \in Transports |-> IF n \in gone /\ reg[n].owner # 0
                                          THEN [reg[n] EXCEPT !.marked = TRUE]
                                          ELSE reg[n]])
        /\ UNCHANGED <<ptProxy, nextId, aborted>>

(***************************************************************************)
(* handle_finished_proxy: a BROKEN proxy, and a CONFIGURED one that did   *)
(* not confirm the outgoing proxy it was given, is destroyed and its      *)
(* process terminated; any other CONFIGURED proxy has its transports      *)
(* registered (register_client_proxy) and becomes COMPLETED.  In every    *)
(* case unconfigured_proxies_n is decremented.                            *)
(***************************************************************************)
Destroyed(m) ==
    m.state = "BROKEN" \/ (m.uri # NoProxy /\ ~m.supported)

(***************************************************************************)
(* managed_proxy_stdout_callback: a line from the child of process_t h,   *)
(* whose callback argument is proxy i: handle_proxy_line, then            *)
(* handle_finished_proxy if the configuration is finished.  A line of a   *)
(* process whose data was set to NULL is dropped and changes nothing.     *)
(***************************************************************************)
Stdout(h, line) ==
  /\ ~aborted
  /\ proc[h].child /\ ~proc[h].freed /\ proc[h].data \in Listed
  /\ line \in Transports => Len(mp[proc[h].data].transports) < MaxMethods
  /\ LET i == proc[h].data
         m == HandleProxyLine(mp[i], line)
     IN IF ~ConfigurationFinished(m)
        THEN /\ mp' = [mp EXCEPT ![i] = m]
             /\ UNCHANGED <<list, proc, unconf, reg, uaf>>
        ELSE /\ unconf' = unconf - 1
             /\ IF Destroyed(m)
                THEN /\ mp' = [mp EXCEPT ![i] = NoMp]
                     /\ list' = Unlist(list, {i})
                     /\ proc' = Detach(proc, {i})
                     /\ uaf' = Touch({i})
                     /\ UNCHANGED reg
                ELSE /\ mp' = [mp EXCEPT ![i] = [m EXCEPT !.state = "COMPLETED"]]
                     /\ reg' = RegisterClientProxy(reg, i, m.transports)
                     /\ UNCHANGED <<list, proc, uaf>>
  /\ UNCHANGED <<check, ptProxy, nextId, aborted>>

(***************************************************************************)
(* The child of process_t h dies.  managed_proxy_exit_callback only logs  *)
(* and returns true, so the process subsystem frees the process_t; the    *)
(* proxy that owns it is left as it is.                                   *)
(***************************************************************************)
Exit(h) ==
  /\ ~aborted
  /\ proc[h].child /\ ~proc[h].freed
  /\ proc' = [proc EXCEPT ![h] = [@ EXCEPT !.child = FALSE, !.freed = TRUE]]
  /\ UNCHANGED <<mp, list, unconf, check, ptProxy, reg, nextId, uaf, aborted>>

\* After a failed tor_assert the process has stopped.
Stopped == aborted /\ UNCHANGED vars

Next ==
  \/ \E conf \in [Argvs -> SUBSET Transports], uri \in ProxyUris :
        ConfigRead(conf, uri)
  \/ Tick
  \/ \E h \in Ids, line \in Lines : Stdout(h, line)
  \/ \E h \in Ids : Exit(h)
  \/ Stopped

Spec == Init /\ [][Next]_vars

(***************************************************************************)
(* pt_configure_remaining_proxies is the periodic tick the header comment *)
(* and proxy_prepare_for_restart rely on ("launched on next tick", "on    *)
(* the next pt_configure_remaining_proxies tick"): whenever               *)
(* pt_proxies_configuration_pending holds, a tick eventually runs.  No    *)
(* fairness is assumed of config reads or of the children's output.       *)
(***************************************************************************)
FairSpec == Spec /\ WF_vars(Tick)

-----------------------------------------------------------------------------
TypeOK ==
  /\ mp \in [Ids -> [argv : {0} \cup Argvs, state : States,
                     transports : Seq(Transports), toLaunch : SUBSET Transports,
                     marked : BOOLEAN, wasAround : BOOLEAN,
                     uri : ProxyUris, supported : BOOLEAN]]
  /\ list \in Seq(Ids) /\ IsInjective(list)
  /\ proc \in [Ids -> [data : {0} \cup Ids, child : BOOLEAN, freed : BOOLEAN]]
  /\ unconf \in Int /\ check \in BOOLEAN /\ ptProxy \in ProxyUris
  /\ reg \in [Transports -> [owner : {0} \cup Ids, marked : BOOLEAN]]
  /\ nextId \in 1..(MaxMps + 1) /\ uaf \subseteq Ids /\ aborted \in BOOLEAN

\* assert_unconfigured_count_ok: unconfigured_proxies_n is the number of
\* listed proxies that are not COMPLETED, after every callback and tick.
UnconfiguredCountOk == CountOk(list, mp, unconf)

\* No process_t is used (process_set_data, process_terminate, process_exec)
\* after managed_proxy_exit_callback let the process subsystem free it.
NoProcessUseAfterFree == uaf = {}

(***************************************************************************)
(* A running child whose process_t still has a callback argument belongs  *)
(* to a listed proxy, the one that owns the process_t, in a state where   *)
(* its lines are expected: every path that destroys a proxy              *)
(* (handle_finished_proxy, the config-read destroy and sweep, a restart)  *)
(* detaches the process before the managed_proxy_t is freed, so           *)
(* managed_proxy_stdout_callback never reaches freed memory.              *)
(***************************************************************************)
NoOrphanChild ==
  \A h \in Ids : proc[h].child /\ ~proc[h].freed /\ proc[h].data # 0 =>
      /\ proc[h].data = h /\ h \in Listed
      /\ mp[h].state \in {"LAUNCHED", "ACCEPTING_METHODS", "COMPLETED"}

(***************************************************************************)
(* proxy_needs_restart asserts that a proxy marked                        *)
(* was_around_before_config_read is COMPLETED and has transports to      *)
(* launch: a config read keeps only the proxies the new torrc names, and  *)
(* no later event leaves a marked proxy in another state.                 *)
(***************************************************************************)
RestartPreconditions ==
  \A i \in Listed : mp[i].wasAround =>
      mp[i].state = "COMPLETED" /\ mp[i].toLaunch # {}

(***************************************************************************)
(* pt_configure_remaining_proxies asserts that no listed proxy is BROKEN  *)
(* or FAILED_LAUNCH: a proxy whose configuration finishes, in a stdout    *)
(* callback or a failed launch, is completed or destroyed at once.        *)
(***************************************************************************)
NoFinishedProxyListed ==
  \A i \in Listed : mp[i].state \notin {"CONFIGURED", "BROKEN", "FAILED_LAUNCH"}

(***************************************************************************)
(* Every transport in transport_list was announced by a listed proxy that *)
(* registered it: transports of destroyed proxies are swept (the header   *)
(* comment: proxies and transports "must be removed if they don't         *)
(* contribute by the new torrc").  Stated while assert_unconfigured_count *)
(* _ok holds, i.e. apart from the behaviours UnconfiguredCountOk reports. *)
(***************************************************************************)
RegisteredOwnerLive ==
  UnconfiguredCountOk =>
    \A n \in Transports : reg[n].owner # 0 =>
        /\ reg[n].owner \in Listed
        /\ n \in Range(mp[reg[n].owner].transports)

(***************************************************************************)
(* A COMPLETED proxy that is not awaiting the restart check has all its   *)
(* transports in transport_list (registered by it or by another proxy of  *)
(* the same name): a config read that keeps a proxy unrestarted keeps     *)
(* its transports registered (the header comment: "if we don't need to    *)
(* restart a managed proxy, we can continue using its old transports").   *)
(***************************************************************************)
CompletedRegistered ==
  \A i \in Listed : mp[i].state = "COMPLETED" /\ ~mp[i].wasAround =>
      \A k \in DOMAIN mp[i].transports : reg[mp[i].transports[k]].owner # 0


(***************************************************************************)
(* A proxy that a config read left marked was_around_before_config_read,  *)
(* or that is INFANT (new, or prepared for a restart), is eventually      *)
(* settled by the ticks: the mark is cleared and the proxy launched (or   *)
(* its launch failed and it was destroyed), unless a config read destroys *)
(* it first or an assertion stops the process.  It fails if the pending   *)
(* test, or unconfigured_proxies_n, forgets a proxy that still needs a    *)
(* tick.  Stated, like RegisteredOwnerLive, apart from the behaviours in  *)
(* which unconfigured_proxies_n has gone wrong (UnconfiguredCountOk):     *)
(* there the count can reach 0 while a restarted proxy is still INFANT,  *)
(* and no tick ever launches it.                                          *)
(***************************************************************************)
AwaitingTick(i) ==
  i \in Listed /\ (mp[i].wasAround \/ mp[i].state = "INFANT")

ProxiesEventuallySettled ==
  \A i \in Ids : AwaitingTick(i) ~> (aborted \/ ~AwaitingTick(i) \/ ~UnconfiguredCountOk)

=============================================================================
