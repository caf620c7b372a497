-------------------------------- MODULE PtEnv --------------------------------
(***************************************************************************)
(* What tor tells a managed proxy before and after its configuration      *)
(* (transports.c): the environment of the child,                          *)
(* create_managed_proxy_environment with get_bindaddr_for_server_proxy,   *)
(* managed_proxy_outbound_address and the server transport options of     *)
(* PtArgs; and what a relay publishes of its server proxies,              *)
(* pt_get_extra_info_descriptor_string and get_transport_proxy_ports.     *)
(* None of these keeps state between calls: a caller makes one call and  *)
(* keeps its result, so one call per behaviour covers them.               *)
(*                                                                         *)
(* An environment is a sequence of variables [name, value]; a value is a  *)
(* sequence of strings, the words and separators the code writes, so that *)
(* a reader can split it where the pluggable-transport specification     *)
(* says.  Transport names are C identifiers and addresses are addr:port   *)
(* texts, so neither holds a ',' or a '-'.                                 *)
(***************************************************************************)
EXTENDS Integers, Sequences, SequencesExt

CONSTANTS
    SizeMax, Transports, LaunchLists, OptionMaps, NoArgs,   \* for PtArgs
    StoredBindaddr,  \* get_stored_bindaddr_for_server_transport: name -> addr:port
    ProxyUris,       \* mp->proxy_uri values, NoProxy among them
    NoProxy,
    OrListeners,     \* get_first_listener_addrport_string(CONN_TYPE_OR_LISTENER)
    ExtOrConfs,      \* [lines: ExtORPort_lines set, listener: the Ext OR listener,
                     \*  cookie: get_ext_or_auth_cookie_file_name()]
    NoListener, NoCookie,
    OutboundConfs,   \* OutboundBindAddresses[{"PT","ANY"}][{4,6}], "" if null
    ParentEnvs,      \* get_current_process_environment_variables()
    NullAddrs,       \* the address texts tor_addr_is_null holds for
    ProxyLists,      \* managed_proxy_list as the publishing functions read it
    PublishAddrs,    \* relay_find_addr_to_publish for {4, 6}, "" if none found
    NoCall           \* a model value: no call made yet

VARIABLES
    envIn, envOut,   \* the call of create_managed_proxy_environment, its result
    pubIn, pubOut    \* the managed_proxy_list published, and what was published

evars == <<envIn, envOut, pubIn, pubOut>>

PA == INSTANCE PtArgs WITH ArgLists <- {}, ptCall <- NoCall, ptOut <- NoCall,
                           overrun <- FALSE

Var(n, v) == [name |-> n, value |-> v]

\* smartlist_join_strings(words, ",", 0, NULL)
Commas(l) == PA!Join([i \in 1..Len(l) |-> <<l[i]>>], <<",">>)

\* Mutant of BindaddrForServerProxy: "%s:%s" for the "%s-%s" of each pair.
BindaddrColon(ts) ==
    PA!Join([i \in 1..Len(ts) |-> <<ts[i], ":", StoredBindaddr[ts[i]]>>], <<",">>)

\* get_bindaddr_for_server_proxy: "transport-bindaddr" for every transport
\* to launch, joined with ','.
BindaddrForServerProxy(ts) ==
    PA!Join([i \in 1..Len(ts) |-> <<ts[i], "-", StoredBindaddr[ts[i]]>>], <<",">>)

\* managed_proxy_outbound_address: OutboundBindAddressPT if not null, else
\* OutboundBindAddress if not null, else NULL ("").
OutboundAddress(oc, fam) == IF oc["PT"][fam] # "" THEN oc["PT"][fam] ELSE oc["ANY"][fam]

(***************************************************************************)
(* The envs list of create_managed_proxy_environment, in the order the    *)
(* code adds the variables.  m is the proxy ([isServer, toLaunch, uri,    *)
(* options]), orl the OR listener, ext the ExtORPort configuration, oc    *)
(* the outbound addresses.                                                *)
(***************************************************************************)
TorEnvs(m, orl, ext, oc) ==
    LET If(c, e) == IF c THEN <<e>> ELSE <<>>
        opts == PA!TransportOptions(m.toLaunch, m.options).r
        v4 == OutboundAddress(oc, 4)
        v6 == OutboundAddress(oc, 6)
        server ==
            If(orl # NoListener, Var("TOR_PT_ORPORT", <<orl>>))
            \o <<Var("TOR_PT_SERVER_BINDADDR", BindaddrForServerProxy(m.toLaunch))>>
            \o If(opts.kind = "str", Var("TOR_PT_SERVER_TRANSPORT_OPTIONS", opts.text))
            \o IF ext.lines
               THEN If(ext.listener # NoListener,
                       Var("TOR_PT_EXTENDED_SERVER_PORT", <<ext.listener>>))
                    \o If(ext.cookie # NoCookie, Var("TOR_PT_AUTH_COOKIE_FILE", <<ext.cookie>>))
               ELSE <<Var("TOR_PT_EXTENDED_SERVER_PORT", <<>>)>>
        client == If(m.uri # NoProxy, Var("TOR_PT_PROXY", <<m.uri>>))
    IN  << Var("TOR_PT_STATE_LOCATION", <<"DataDirectory/pt_state/">>),
           Var("TOR_PT_MANAGED_TRANSPORT_VER", <<"1">>),
           Var(IF m.isServer THEN "TOR_PT_SERVER_TRANSPORTS"
                             ELSE "TOR_PT_CLIENT_TRANSPORTS", Commas(m.toLaunch)) >>
        \o (IF m.isServer THEN server ELSE client)
        \o << Var("TOR_PT_EXIT_ON_STDIN_CLOSE", <<"1">>) >>
        \o If(v4 # "", Var("TOR_PT_OUTBOUND_BIND_ADDRESS_V4", <<v4>>))
        \o If(v6 # "", Var("TOR_PT_OUTBOUND_BIND_ADDRESS_V6", <<"[", v6, "]">>))

\* Mutant of SetEnvVar: the new variable appended, the old ones kept.
SetEnvVarNoReplace(env, e) == Append(env, e)

\* set_environment_variable_in_smartlist(env, new_var, free, 1): every
\* variable of the same name removed, the new one added.  (The code's
\* SMARTLIST_DEL_CURRENT moves the last entry into the hole; the order of
\* an environment means nothing to the child.)
SetEnvVar(env, e) == Append(SelectSeq(env, LAMBDA x : x.name # e.name), e)

\* The merge at the end of create_managed_proxy_environment.
CreateEnvironment(parent, envs) == FoldLeft(SetEnvVar, parent, envs)

(***************************************************************************)
(* pt_get_extra_info_descriptor_string: one transport line per transport  *)
(* of every COMPLETED server proxy, in list order.  A null address is     *)
(* replaced by the IPv4, else the IPv6, address to publish; with neither, *)
(* the transport is skipped.  NULL when no line is left.  A line keeps   *)
(* the name, the address:port fmt_addrport writes and the ARGS.           *)
(***************************************************************************)
Published(p) == p.isServer /\ p.state = "COMPLETED"

\* Mutant of ExtraInfoString: a transport whose address cannot be found is
\* published with the null address instead of being skipped.
ExtraInfoNoSkip(l, pub) ==
    LET Addr(t) == IF t.addr \notin NullAddrs THEN t.addr
                   ELSE IF pub[4] # "" THEN pub[4] ELSE IF pub[6] # "" THEN "[" \o pub[6] \o "]"
                   ELSE t.addr
        Chunk(t) == <<[name |-> t.name, addr |-> Addr(t), port |-> t.port, args |-> t.args]>>
        Of(p) == IF ~Published(p) THEN <<>>
                 ELSE FoldLeft(LAMBDA a, t : a \o Chunk(t), <<>>, p.transports)
        chunks == FoldLeft(LAMBDA a, p : a \o Of(p), <<>>, l)
    IN [null |-> chunks = <<>>, lines |-> chunks]

ExtraInfoString(l, pub) ==
    LET Found(t) == t.addr \notin NullAddrs \/ pub[4] # "" \/ pub[6] # ""
        Addr(t) == IF t.addr \notin NullAddrs THEN t.addr
                   ELSE IF pub[4] # "" THEN pub[4] ELSE "[" \o pub[6] \o "]"
        Chunk(t) == IF ~Found(t) THEN <<>>
                    ELSE <<[name |-> t.name, addr |-> Addr(t), port |-> t.port,
                            args |-> t.args]>>
        Of(p) == IF ~Published(p) THEN <<>>
                 ELSE FoldLeft(LAMBDA a, t : a \o Chunk(t), <<>>, p.transports)
        chunks == FoldLeft(LAMBDA a, p : a \o Of(p), <<>>, l)
    IN [null |-> chunks = <<>>, lines |-> chunks]

\* get_transport_proxy_ports: "port:port" for every transport of every
\* COMPLETED server proxy; NULL until the first such proxy is met.
TransportProxyPorts(l) ==
    LET Of(p) == [i \in 1..Len(p.transports) |-> <<p.transports[i].port, p.transports[i].port>>]
    IN [null |-> \A i \in 1..Len(l) : ~Published(l[i]),
        ports |-> FoldLeft(LAMBDA a, p : a \o (IF Published(p) THEN Of(p) ELSE <<>>), <<>>, l)]
-----------------------------------------------------------------------------
Init == envIn = NoCall /\ envOut = NoCall /\ pubIn = NoCall /\ pubOut = NoCall

\* configure_proxy launches proxy m: launch_managed_proxy builds its
\* environment with create_managed_proxy_environment.
LaunchEnvironment(m, parent, orl, ext, oc) ==
    /\ envIn' = [m |-> m, parent |-> parent, orl |-> orl, ext |-> ext, oc |-> oc]
    /\ envOut' = CreateEnvironment(parent, TorEnvs(m, orl, ext, oc))
    /\ UNCHANGED <<pubIn, pubOut>>

\* The relay builds its extra-info descriptor and the list of ports to
\* forward from the same managed_proxy_list.
Publish(l, pub) ==
    /\ pubIn' = [list |-> l, pub |-> pub]
    /\ pubOut' = [extra |-> ExtraInfoString(l, pub), ports |-> TransportProxyPorts(l)]
    /\ UNCHANGED <<envIn, envOut>>

\* The caller has made its call and uses the result.
CallerKeeps == (envIn # NoCall \/ pubIn # NoCall) /\ UNCHANGED evars

Proxies ==
    [isServer : BOOLEAN, toLaunch : LaunchLists, uri : ProxyUris, options : OptionMaps]

Next ==
    \/ envIn = NoCall /\ pubIn = NoCall /\
       \/ \E m \in Proxies, p \in ParentEnvs, orl \in OrListeners, ext \in ExtOrConfs,
             oc \in OutboundConfs : LaunchEnvironment(m, p, orl, ext, oc)
       \/ \E l \in ProxyLists, pub \in PublishAddrs : Publish(l, pub)
    \/ CallerKeeps

Spec == Init /\ [][Next]_evars
-----------------------------------------------------------------------------
TypeOK ==
    /\ envIn = NoCall \/ envIn.m \in Proxies
    /\ envOut = NoCall \/ \A i \in 1..Len(envOut) : envOut[i].name \in STRING
    /\ pubIn = NoCall \/ pubIn.list \in ProxyLists
    /\ pubOut = NoCall \/ pubOut.extra.null \in BOOLEAN

\* The variables of the pluggable-transport protocol.
PtNames ==
    {"TOR_PT_STATE_LOCATION", "TOR_PT_MANAGED_TRANSPORT_VER",
     "TOR_PT_CLIENT_TRANSPORTS", "TOR_PT_SERVER_TRANSPORTS", "TOR_PT_ORPORT",
     "TOR_PT_SERVER_BINDADDR", "TOR_PT_SERVER_TRANSPORT_OPTIONS",
     "TOR_PT_EXTENDED_SERVER_PORT", "TOR_PT_AUTH_COOKIE_FILE", "TOR_PT_PROXY",
     "TOR_PT_EXIT_ON_STDIN_CLOSE", "TOR_PT_OUTBOUND_BIND_ADDRESS_V4",
     "TOR_PT_OUTBOUND_BIND_ADDRESS_V6"}

\* What the child's getenv(n) returns: the first variable of that name.
Getenv(env, n) ==
    LET s == SelectSeq(env, LAMBDA x : x.name = n)
    IN IF s = <<>> THEN [set |-> FALSE, value |-> <<>>]
       ELSE [set |-> TRUE, value |-> Head(s).value]

Entries(env, n) == Len(SelectSeq(env, LAMBDA x : x.name = n))

(***************************************************************************)
(* The child sees what tor set, whatever tor's own environment holds:     *)
(* every variable create_managed_proxy_environment sets appears exactly   *)
(* once in the merged environment, with tor's value, even when the        *)
(* environment tor inherited holds the same variable (once or more) with  *)
(* another value; every other inherited variable reaches the child        *)
(* unchanged.                                                             *)
(***************************************************************************)
ChildSeesTorValues ==
    envIn # NoCall =>
        LET envs == TorEnvs(envIn.m, envIn.orl, envIn.ext, envIn.oc)
            set == {envs[k].name : k \in 1..Len(envs)}
        IN /\ \A k \in 1..Len(envs) :
                  /\ Entries(envOut, envs[k].name) = 1
                  /\ Getenv(envOut, envs[k].name) = [set |-> TRUE, value |-> envs[k].value]
           /\ \A i \in 1..Len(envIn.parent) : envIn.parent[i].name \notin set =>
                  Getenv(envOut, envIn.parent[i].name) = Getenv(envIn.parent, envIn.parent[i].name)

\* A value split at every sep (no value holds a backslash).
Fields(v, sep) == PA!SplitUnescaped(v, sep)

(***************************************************************************)
(* A proxy that reads its environment the way the pluggable-transport     *)
(* specification describes learns its configuration: the comma-separated *)
(* TOR_PT_{CLIENT,SERVER}_TRANSPORTS are the transports to launch, in      *)
(* order; a server reads from TOR_PT_SERVER_BINDADDR, split at ',' and    *)
(* then at '-', each of them with its stored bind address, in the same    *)
(* order; a client with an outgoing proxy finds it in TOR_PT_PROXY.      *)
(***************************************************************************)
ChildReadsItsConfiguration ==
    envIn # NoCall =>
        LET m == envIn.m
            ts == m.toLaunch
            role == IF m.isServer THEN "TOR_PT_SERVER_TRANSPORTS" ELSE "TOR_PT_CLIENT_TRANSPORTS"
            ba == Fields(Getenv(envOut, "TOR_PT_SERVER_BINDADDR").value, ",")
        IN /\ Getenv(envOut, role).set
           /\ Fields(Getenv(envOut, role).value, ",") = [i \in 1..Len(ts) |-> <<ts[i]>>]
           /\ m.isServer =>
                 /\ Getenv(envOut, "TOR_PT_SERVER_BINDADDR").set
                 /\ [i \in 1..Len(ba) |-> Fields(ba[i], "-")]
                      = [i \in 1..Len(ts) |-> <<<<ts[i]>>, <<StoredBindaddr[ts[i]]>>>>]
           /\ ~m.isServer /\ m.uri # NoProxy =>
                 Getenv(envOut, "TOR_PT_PROXY") = [set |-> TRUE, value |-> <<m.uri>>]

(***************************************************************************)
(* Every pluggable-transport variable the child sees was set by tor for   *)
(* this launch: none comes from tor's own environment.  (The code starts  *)
(* from get_current_process_environment_variables and only overrides the *)
(* variables it sets; the comment at TOR_PT_EXTENDED_SERVER_PORT guards   *)
(* one of them.)                                                           *)
(***************************************************************************)
NoInheritedPtVariable ==
    envIn # NoCall =>
        LET envs == TorEnvs(envIn.m, envIn.orl, envIn.ext, envIn.oc)
        IN \A i \in 1..Len(envOut) :
              envOut[i].name \in PtNames => \E k \in 1..Len(envs) : envs[k] = envOut[i]

(***************************************************************************)
(* The extra-info descriptor publishes exactly the transports of the      *)
(* COMPLETED server proxies whose address is known or can be found, in    *)
(* list order, with their names, ports and ARGS; it never publishes a     *)
(* null address; it is NULL exactly when there is nothing to publish; and *)
(* every published port is among those get_transport_proxy_ports asks to  *)
(* forward.                                                               *)
(***************************************************************************)
PublishesCompletedServerTransports ==
    pubIn # NoCall =>
        LET l == pubIn.list
            pub == pubIn.pub
            all == FlattenSeq([i \in 1..Len(l) |->
                                 IF Published(l[i]) THEN l[i].transports ELSE <<>>])
            known == SelectSeq(all, LAMBDA t : t.addr \notin NullAddrs
                                               \/ pub[4] # "" \/ pub[6] # "")
            out == pubOut.extra.lines
            Key(t) == <<t.name, t.port, t.args>>
        IN /\ pubOut.extra.null = (known = <<>>)
           /\ [i \in 1..Len(out) |-> Key(out[i])] = [i \in 1..Len(known) |-> Key(known[i])]
           /\ \A i \in 1..Len(out) : out[i].addr \notin NullAddrs
           /\ \A i \in 1..Len(out) : <<out[i].port, out[i].port>> \in Range(pubOut.ports.ports)
=============================================================================
