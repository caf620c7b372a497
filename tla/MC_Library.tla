----------------------------- MODULE MC_Library -----------------------------
(***************************************************************************)
(* One model-checking harness for the library code and the tool that do   *)
(* not interact with the rest: the callers of address.c (AddressCalls,    *)
(* with the bounds of MC_AddressCalls), the memarea allocator, the        *)
(* tagged key-file format of crypto_format.c, tor-gencert and the lines   *)
(* of the managed-proxy configuration protocol (PtLines), the escaped    *)
(* argument strings handed to transports (PtArgs), and the environment   *)
(* of a proxy and what a relay publishes of its proxies (PtEnv).  A      *)
(* behaviour exercises one part, chosen at the start; the variables of    *)
(* the others keep a fixed initial state, so the state space is the sum   *)
(* of the parts' state spaces.                                            *)
(***************************************************************************)
EXTENDS MC_AddressCalls

VARIABLES
    part,                                              \* the part exercised
    chunks, allocs,                                    \* Memarea
    file, last, got,                                   \* TaggedFile
    disk, pc, opts, idKey, sigKey, nextKey, exit, created, roles, \* GenCert
    conf, line, aborted,                               \* PtLines
    ptCall, ptOut, overrun,                            \* PtArgs
    envIn, envOut, pubIn, pubOut                       \* PtEnv

(* The bounds of MC_Memarea. *)
Mem == INSTANCE Memarea WITH ChunkSize <- 16, HeaderSize <- 4, Align <- 4,
                             Requests <- {0, 3, 5, 12, 13}, MaxChunks <- 3

(***************************************************************************)
(* TaggedFile keeps the real 32-byte header, so that tags of 22 and 23    *)
(* characters after a one-character typestring give a 31-character       *)
(* header (fits with its NUL) and a 32-character one (does not).  A       *)
(* second typestring extends the first, to check that the ": " test      *)
(* keeps the types apart.  The foreign files: the overlapping header      *)
(* "== k: ==", a header with bytes after its NUL, a file shorter than     *)
(* the header, and a full 32-character header with no NUL.                *)
(***************************************************************************)
Chars(s) == [i \in 1..Len(s) |-> SubSeq(s, i, i)]
TA(n) == [i \in 1..n |-> "a"]
TForeign ==
    {[text |-> Chars("== k: =="), clean |-> TRUE, size |-> 33, data |-> [id |-> 3, len |-> 1]],
     [text |-> Chars("== kk: a =="), clean |-> FALSE, size |-> 33, data |-> [id |-> 3, len |-> 1]],
     [text |-> Chars("== k: a =="), clean |-> TRUE, size |-> 31, data |-> [id |-> 3, len |-> 0]],
     [text |-> Chars("== k: ") \o TA(23) \o Chars(" =="), clean |-> TRUE, size |-> 34,
      data |-> [id |-> 3, len |-> 2]]}

TF == INSTANCE TaggedFile WITH
        HeaderLen <- 32, SizeMod <- 65536,
        Types <- {Chars("k"), Chars("kk")},
        Tags <- {<<>>, Chars(" =="), TA(22), TA(23)},
        Datas <- {[id |-> 1, len |-> 1], [id |-> 2, len |-> 2]},
        OutLens <- {1, 2}, Foreign <- TForeign

(***************************************************************************)
(* tor-gencert over three files (the defaults ./authority_identity_key,   *)
(* ./authority_signing_key, ./authority_certificate), three generated     *)
(* keys, and command lines that reach every branch of parse_commandline: *)
(* the defaults, --create-identity-key, -r, a signing key file that is    *)
(* the identity key file, files given in swapped roles, a repeated -i,   *)
(* -m out of range, without argument and not a numeral, -a with an IPv6  *)
(* and an IPv4 address, --passphrase-fd, -h and an unknown option.        *)
(***************************************************************************)
GArgvs ==
    {<<>>, <<"--create-identity-key">>, <<"-r">>,
     <<"--create-identity-key", "-m", "25">>,
     <<"-s", "P1">>, <<"-i", "P2", "-s", "P1", "-r">>,
     <<"-i", "P2", "-i", "P3">>, <<"-m">>,
     <<"-a", "v6addr">>, <<"-r", "-a", "v4addr", "-v">>,
     <<"--passphrase-fd", "3", "-m", "P1">>, <<"-h">>, <<"-x">>}

GC == INSTANCE GenCert WITH
        Paths <- {"P1", "P2", "P3"},
        DefaultId <- "P1", DefaultSk <- "P2", DefaultCert <- "P3",
        Argvs <- GArgvs, MaxKeys <- 3

(***************************************************************************)
(* PtLines: the address:port words as Address reads them: an IPv4        *)
(* address with port 80 or port 0, a bracketed ::1 with port 80, "::1:80" *)
(* (unbracketed, read whole as an IPv6 address with no port), junk with  *)
(* port 80.  The lines reach every branch of handle_proxy_line and every  *)
(* early return of parse_method_line_helper, and include "VERSION-1"     *)
(* (parse_version skips the character after VERSION unread) and a line   *)
(* starting "CMETHODS" that is not "CMETHODS DONE".                       *)
(***************************************************************************)
PtText(b, i, pn) ==
    LET port == [kind |-> "num", n |-> pn] IN
    [bracket |-> b, inner |-> i, port |-> port, whole |-> Whole(b, i, port)]
PtAddrOf ==
    [w \in {"1.2.3.4:80", "1.2.3.4:0", "[::1]:80", "::1:80", "junk:80"} |->
        CASE w = "1.2.3.4:80" -> PtText(FALSE, FromIpv4(<<1, 2, 3, 4>>), 80)
          [] w = "1.2.3.4:0"  -> PtText(FALSE, FromIpv4(<<1, 2, 3, 4>>), 0)
          [] w = "[::1]:80"   -> PtText(TRUE, V6One, 80)
          [] w = "::1:80"     -> PtText(FALSE, V6One, 80)
          [] w = "junk:80"    -> PtText(FALSE, MakeUnspec, 80)]
PtLineSet ==
    {<<"VERSION", "1">>, <<"VERSION", "2">>, <<"VERSION-1">>,
     <<"VERSION-ERROR", "no-version">>, <<"ENV-ERROR", "x">>,
     <<"CMETHOD", "obfs4", "socks5", "1.2.3.4:80">>,
     <<"CMETHOD", "meek", "socks4", "[::1]:80">>,
     <<"CMETHOD", "obfs4", "socks9", "1.2.3.4:80">>,
     <<"CMETHOD", "obfs4", "socks5", "::1:80">>,
     <<"CMETHOD", "obfs4", "socks5", "1.2.3.4:0">>,
     <<"CMETHOD", "obfs4", "socks5">>, <<"CMETHOD", "4x", "socks5", "1.2.3.4:80">>,
     <<"CMETHODS", "obfs4", "socks5", "1.2.3.4:80">>,
     <<"SMETHOD", "obfs4", "1.2.3.4:80", "ARGS:k=v">>,
     <<"SMETHOD", "meek", "[::1]:80">>, <<"SMETHOD", "obfs4", "junk:80">>,
     <<"CMETHODS", "DONE">>, <<"SMETHODS", "DONE">>,
     <<"CMETHOD-ERROR", "obfs4", "x">>, <<"SMETHOD-ERROR", "x">>,
     <<"PROXY", "DONE">>, <<"PROXY-ERROR", "x">>,
     <<"LOG", "x">>, <<"STATUS", "x">>, <<"LOGx">>}

PL == INSTANCE PtLines WITH
        CIdentifiers <- {"obfs4", "meek"}, AddrOf <- PtAddrOf,
        Lines <- PtLineSet, ProxyUris <- {"noproxy", "socks5://p"},
        NoProxy <- "noproxy", MaxMethods <- 2

(***************************************************************************)
(* PtArgs: strings of up to two characters over an alphabet holding the   *)
(* three escaped characters and one plain one, SOCKS argument lists of    *)
(* one and two such strings (the empty string among them), and server    *)
(* proxies launching one or two transports, each with no options or one  *)
(* option of up to two characters over "k", "=", ":", ";" and "\".       *)
(* SIZE_MAX is scaled to 2^16-1: every string fits, as in memory.         *)
(***************************************************************************)
Words(A, n) == UNION {[1..k -> A] : k \in 0..n}
PtStrs == Words({"a", ";", ":", "\\"}, 2)
PtOptions == Words({"k", "=", ":", ";", "\\"}, 2)

CONSTANT NoArgs   \* a model value: a bridge or transport with no arguments

PA == INSTANCE PtArgs WITH
        SizeMax <- 65535,
        ArgLists <- {<<s>> : s \in PtStrs} \cup {<<s, t>> : s, t \in PtStrs},
        Transports <- {"obfs4", "meek"},
        LaunchLists <- {<<"obfs4">>, <<"obfs4", "meek">>},
        OptionMaps <- [{"obfs4", "meek"} -> {NoArgs} \cup {<<x>> : x \in PtOptions}]

(***************************************************************************)
(* PtEnv: client and server proxies launching one or two transports, with *)
(* and without options and an outgoing proxy; an OR listener or none; no *)
(* ExtORPort, one with its listener and cookie, and one configured but    *)
(* with no listener open; outbound addresses unset, set for any traffic, *)
(* and set for PTs as well.  Tor's own environment: empty, PATH only,     *)
(* PATH between two stale copies of TOR_PT_SERVER_BINDADDR, and one       *)
(* holding TOR_PT_CLIENT_TRANSPORTS and TOR_PT_PROXY (a tor started by    *)
(* another program that configures transports).  The published lists     *)
(* mix a COMPLETED server proxy on 0.0.0.0 and on a real address, one     *)
(* still accepting methods, one with no transports, and a client proxy;  *)
(* the address to publish is IPv4, IPv6 only, or unknown.                 *)
(***************************************************************************)
CONSTANT NoCall   \* a model value: no call made yet

PtEnvVar(n, v) == [name |-> n, value |-> v]
PtT(n, a, p, x) == [name |-> n, addr |-> a, port |-> p, args |-> x]
PtS1 == [isServer |-> TRUE, state |-> "COMPLETED",
         transports |-> <<PtT("obfs4", "0.0.0.0", 443, "cert=x"),
                          PtT("meek", "198.51.100.7", 80, "")>>]
PtS2 == [isServer |-> TRUE, state |-> "ACCEPTING_METHODS",
         transports |-> <<PtT("obfs4", "203.0.113.9", 444, "")>>]
PtS3 == [isServer |-> TRUE, state |-> "COMPLETED", transports |-> <<>>]
PtC1 == [isServer |-> FALSE, state |-> "COMPLETED",
         transports |-> <<PtT("obfs4", "127.0.0.1", 1080, "")>>]
PtNone == [f \in {4, 6} |-> ""]

PE == INSTANCE PtEnv WITH
        SizeMax <- 65535, Transports <- {"obfs4", "meek"},
        LaunchLists <- {<<"obfs4">>, <<"obfs4", "meek">>},
        OptionMaps <- {[t \in {"obfs4", "meek"} |-> NoArgs],
                       [t \in {"obfs4", "meek"} |-> IF t = "obfs4" THEN <<<<"k", "=", "v">>>>
                                                                    ELSE NoArgs]},
        StoredBindaddr <- [t \in {"obfs4", "meek"} |->
                             IF t = "obfs4" THEN "127.0.0.1:0" ELSE "[::1]:4430"],
        ProxyUris <- {"noproxy", "socks5://p"}, NoProxy <- "noproxy",
        OrListeners <- {"nolistener", "0.0.0.0:9001"},
        ExtOrConfs <- {[lines |-> FALSE, listener |-> "nolistener", cookie |-> "nocookie"],
                       [lines |-> TRUE, listener |-> "127.0.0.1:6000",
                        cookie |-> "DataDirectory/extended_orport_auth_cookie"],
                       [lines |-> TRUE, listener |-> "nolistener", cookie |-> "nocookie"]},
        NoListener <- "nolistener", NoCookie <- "nocookie",
        OutboundConfs <- {[k \in {"PT", "ANY"} |-> PtNone],
                          [k \in {"PT", "ANY"} |-> IF k = "PT" THEN PtNone
                                                  ELSE [f \in {4, 6} |-> IF f = 4 THEN "192.0.2.1" ELSE ""]],
                          [k \in {"PT", "ANY"} |->
                             IF k = "PT" THEN [f \in {4, 6} |-> IF f = 4 THEN "192.0.2.2" ELSE ""]
                             ELSE [f \in {4, 6} |-> IF f = 4 THEN "192.0.2.1" ELSE "2001:db8::1"]]},
        ParentEnvs <- {<<>>, <<PtEnvVar("PATH", <<"/usr/bin">>)>>,
                       <<PtEnvVar("TOR_PT_SERVER_BINDADDR", <<"obfs4", "-", "1.1.1.1:1">>),
                         PtEnvVar("PATH", <<"/usr/bin">>),
                         PtEnvVar("TOR_PT_SERVER_BINDADDR", <<"meek", "-", "1.1.1.1:2">>)>>,
                       <<PtEnvVar("TOR_PT_CLIENT_TRANSPORTS", <<"meek">>),
                         PtEnvVar("TOR_PT_PROXY", <<"http://q">>)>>},
        NullAddrs <- {"0.0.0.0", "[::]"},
        ProxyLists <- {<<>>, <<PtS1>>, <<PtC1, PtS2>>, <<PtS2, PtS1>>, <<PtS3>>,
                       <<PtC1, PtS1, PtS3>>},
        PublishAddrs <- {PtNone, [f \in {4, 6} |-> IF f = 4 THEN "203.0.113.5" ELSE ""],
                         [f \in {4, 6} |-> IF f = 4 THEN "" ELSE "2001:db8::5"]}

MemVars == <<chunks, allocs>>
TFVars == <<file, last, got>>
GCVars == <<disk, pc, opts, idKey, sigKey, nextKey, exit, created, roles>>
PLVars == <<conf, line, aborted>>
PAVars == <<ptCall, ptOut, overrun>>
PEVars == <<envIn, envOut, pubIn, pubOut>>

Parts == {"address", "memarea", "tagged", "gencert", "ptlines", "ptargs", "ptenv"}

(* An initial state of AddressCalls, the one its variables keep in the    *)
(* behaviours of the other parts.                                         *)
AddressIdle ==
    /\ mode = "parse" /\ held = {CHOOSE a \in Addrs : TRUE}
    /\ call = (CHOOSE c \in Calls : TRUE)
    /\ text = (CHOOSE t \in Texts : TRUE) /\ dflt = (CHOOSE d \in Defaults : TRUE)
    /\ result = ParseError /\ apresult = APFail /\ parsed = FALSE

LibInit ==
    /\ part \in Parts
    /\ IF part = "address" THEN Init ELSE AddressIdle
    /\ Mem!Init /\ TF!Init /\ GC!Init
    /\ IF part = "ptlines" THEN PL!Init ELSE PL!Init /\ conf.uri = "noproxy"
    /\ PA!Init
    /\ PE!Init

(* A caller of tor_addr_parse_mask_ports or tor_addr_port_parse has made *)
(* its one call and stops.                                                *)
CallerStops ==
    /\ mode \in {"parse", "addrport"} /\ parsed
    /\ UNCHANGED vars

LibNext ==
    \/ part = "address" /\ (Next \/ CallerStops)
       /\ UNCHANGED <<part, MemVars, TFVars, GCVars, PLVars, PAVars, PEVars>>
    \/ part = "memarea" /\ Mem!Next
       /\ UNCHANGED <<part, vars, TFVars, GCVars, PLVars, PAVars, PEVars>>
    \/ part = "tagged" /\ TF!Next
       /\ UNCHANGED <<part, vars, MemVars, GCVars, PLVars, PAVars, PEVars>>
    \/ part = "gencert" /\ GC!Next
       /\ UNCHANGED <<part, vars, MemVars, TFVars, PLVars, PAVars, PEVars>>
    \/ part = "ptlines" /\ PL!Next
       /\ UNCHANGED <<part, vars, MemVars, TFVars, GCVars, PAVars, PEVars>>
    \/ part = "ptargs" /\ PA!Next
       /\ UNCHANGED <<part, vars, MemVars, TFVars, GCVars, PLVars, PEVars>>
    \/ part = "ptenv" /\ PE!Next
       /\ UNCHANGED <<part, vars, MemVars, TFVars, GCVars, PLVars, PAVars>>

LibVars == <<part, vars, MemVars, TFVars, GCVars, PLVars, PAVars, PEVars>>

LibSpec == LibInit /\ [][LibNext]_LibVars
-----------------------------------------------------------------------------
(* The type invariants of the parts. *)
LibTypeOK == TypeOK /\ Mem!TypeOK /\ TF!TypeOK /\ GC!TypeOK /\ PL!TypeOK /\ PA!TypeOK
              /\ PE!TypeOK

(* memarea_alloc keeps every live allocation inside its chunk (Memarea). *)
AllocsInsideChunk == Mem!AllocsInsideChunk

(* memarea_alloc never hands out a byte twice (Memarea). *)
AllocsDisjoint == Mem!AllocsDisjoint

(* memarea_owns_ptr recognises every live pointer (Memarea). *)
OwnsLivePointers == Mem!OwnsLivePointers

(* The assertions of memarea_alloc and memarea_assert_ok hold (Memarea). *)
AssertionsHold == Mem!AssertionsHold

(* crypto_read_tagged_contents_from_file returns what                    *)
(* crypto_write_tagged_contents_to_file last wrote (TaggedFile).          *)
ReadReturnsLastWrite == TF!ReadReturnsLastWrite

(* The tag length of an accepted header does not wrap (TaggedFile). *)
TagInsideHeader == TF!TagInsideHeader

(* tor-gencert never loses an installed identity key (GenCert). *)
IdentityNeverLost == GC!IdentityNeverLost

(* A tor-gencert run that exits 0 leaves the certified keys on disk       *)
(* (GenCert).                                                             *)
ExitZeroMeansSaved == GC!ExitZeroMeansSaved

(* Every line handle_proxy_line handles changes the proxy as the         *)
(* abstract line handling of ManagedProxy does (PtLines).                *)
LineRefinesManagedProxy == PL!LineRefinesManagedProxy

(* A transport reads back the bridge's SOCKS arguments from the string   *)
(* pt_stringify_socks_args builds (PtArgs).                               *)
SocksArgsRoundTrip == PA!SocksArgsRoundTrip

(* A server transport reads back its configured options from             *)
(* TOR_PT_SERVER_TRANSPORT_OPTIONS (PtArgs).                              *)
ServerOptionsRoundTrip == PA!ServerOptionsRoundTrip

(* tor_escape_str_for_pt_args stays inside its allocation (PtArgs). *)
EscapeFitsBuffer == PA!EscapeFitsBuffer

(* A managed proxy's child sees every variable tor sets, once, with      *)
(* tor's value, and the rest of tor's environment unchanged (PtEnv).     *)
ChildSeesTorValues == PE!ChildSeesTorValues

(* A proxy reads its transports, bind addresses, Extended ORPort and     *)
(* outgoing proxy back from its environment (PtEnv).                     *)
ChildReadsItsConfiguration == PE!ChildReadsItsConfiguration

(* The extra-info descriptor publishes exactly the reachable transports  *)
(* of COMPLETED server proxies, never a null address, and only forwarded *)
(* ports (PtEnv).                                                         *)
PublishesCompletedServerTransports == PE!PublishesCompletedServerTransports

(* No pluggable-transport variable of tor's own environment reaches a    *)
(* managed proxy (PtEnv).                                                 *)
NoInheritedPtVariable == PE!NoInheritedPtVariable

(* No line of a managed proxy makes tor fail an assertion (PtLines). *)
NoAssertOnProxyLine == PL!NoAssertOnProxyLine
=============================================================================
