------------------------------ MODULE PtLines ------------------------------
(***************************************************************************)
(* The configuration protocol of one managed proxy, line by line:         *)
(* handle_proxy_line of transports.c with the parsers it calls            *)
(* (parse_version, parse_method_line_helper through parse_cmethod_line    *)
(* and parse_smethod_line; the ENV-ERROR, METHOD-ERROR, PROXY-ERROR, LOG  *)
(* and STATUS parsers only log or emit control-port events).              *)
(*                                                                         *)
(* ManagedProxy abstracts a line to what handle_proxy_line tells apart;  *)
(* here a line is what the child wrote: a sequence of words, which        *)
(* smartlist_split_string gives back and whose text, the words joined by  *)
(* single spaces, is what the strcmpstart tests see.  An address:port     *)
(* word is read by tor_addr_port_split and tor_addr_parse of Address,     *)
(* through AddrOf, the host:port text record of that word.                *)
(***************************************************************************)
EXTENDS Integers, Sequences, SequencesExt, FiniteSetsExt

CONSTANTS
    AF_UNSPEC, AF_UNIX, AF_INET, AF_INET6,   \* for Address
    CMP_EXACT, CMP_SEMANTIC,
    CIdentifiers,  \* the words string_is_C_identifier accepts
    AddrOf,        \* address:port word -> its host:port text (Address)
    Lines,         \* the lines a child may write, as sequences of words
    ProxyUris,     \* values of get_pt_proxy_uri() at creation
    NoProxy,       \* get_pt_proxy_uri() == NULL
    MaxMethods     \* bound: transports attached to the proxy

VARIABLES
    conf,     \* the managed_proxy_t fields the protocol changes
    line,     \* the last line handed to handle_proxy_line
    aborted   \* a tor_assert failed and tor stopped

pvars == <<conf, line, aborted>>

A == INSTANCE Address

\* The text of a line: its words joined by single spaces.
Text(l) == FoldLeft(LAMBDA x, w : x \o " " \o w, Head(l), Tail(l))

\* Mutant of ProtoPrefixes: CMETHOD tested before CMETHODS DONE.
ProtoPrefixesMethodFirst ==
    <<"ENV-ERROR", "VERSION-ERROR no-version", "VERSION", "CMETHOD",
      "CMETHODS DONE", "SMETHODS DONE", "CMETHOD-ERROR", "SMETHOD-ERROR",
      "SMETHOD", "PROXY DONE", "PROXY-ERROR", "LOG ", "STATUS ">>

(***************************************************************************)
(* The prefixes of handle_proxy_line's if/else-if chain, in its order;   *)
(* the first one the text starts with picks the branch.                   *)
(***************************************************************************)
ProtoPrefixes == <<"ENV-ERROR", "VERSION-ERROR no-version", "VERSION",
              "CMETHODS DONE", "SMETHODS DONE", "CMETHOD-ERROR",
              "SMETHOD-ERROR", "CMETHOD", "SMETHOD", "PROXY DONE",
              "PROXY-ERROR", "LOG ", "STATUS ">>

Kind(t) ==
    LET I == {i \in 1..Len(ProtoPrefixes) : IsPrefix(ProtoPrefixes[i], t)}
    IN IF I = {} THEN "unknown" ELSE ProtoPrefixes[Min(I)]

\* parse_version: the text after "VERSION" and one more character is "1".
ParseVersion(t) == Len(t) >= 9 /\ SubSeq(t, 9, Len(t)) = "1"

(***************************************************************************)
(* parse_method_line_helper.  Too few items give -1; an item 0 that is   *)
(* not exactly CMETHOD or SMETHOD fails its tor_assert (assertFails).    *)
(* the transport name, for CMETHOD the SOCKS version (socks4 or socks5), *)
(* the address:port split, a nonzero port and the address are checked;  *)
(* for SMETHOD an ARGS: item after the address is kept.                   *)
(***************************************************************************)
ParseMethodLine(l, isSmethod) ==
    LET method == IF isSmethod THEN "SMETHOD" ELSE "CMETHOD"
        minArgs == IF isSmethod THEN 3 ELSE 4
        socks == IF isSmethod THEN "none" ELSE l[3]
        sp == A!AddrPortSplit(AddrOf[l[minArgs]])
        addr == A!AddrParse(sp.atext)
        opt == IF Len(l) > minArgs THEN l[minArgs + 1] ELSE ""
        args == IF isSmethod /\ IsPrefix("ARGS:", opt)
                THEN SubSeq(opt, 6, Len(opt)) ELSE ""
        Err == [r |-> -1, assertFails |-> FALSE]
    IN IF Len(l) < minArgs THEN Err
       ELSE IF l[1] # method THEN [Err EXCEPT !.assertFails = TRUE]
       ELSE IF \/ l[2] \notin CIdentifiers
               \/ (~isSmethod /\ socks \notin {"socks4", "socks5"})
               \/ ~sp.ok \/ sp.port = 0 \/ addr.ret = -1
       THEN Err
       ELSE [r |-> 0, assertFails |-> FALSE,
             t |-> [name |-> l[2], socks |-> socks, addr |-> addr.addr,
                    port |-> sp.port, args |-> args]]

Broken(c) == [c EXCEPT !.state = "BROKEN"]

\* The state each branch of handle_proxy_line checks before anything else.
ExpectedState(k) ==
    IF k \in {"ENV-ERROR", "VERSION-ERROR no-version", "VERSION"}
    THEN "LAUNCHED" ELSE "ACCEPTING_METHODS"

\* Mutant of StateOk: the METHOD-ERROR branches skip their state check.
StateOkErrorLenient(c, k) ==
    k \in {"CMETHOD-ERROR", "SMETHOD-ERROR"} \/ c.state = ExpectedState(k)

StateOk(c, k) == c.state = ExpectedState(k)

(***************************************************************************)
(* handle_proxy_line: the proxy after the line, and whether a tor_assert  *)
(* failed.  Every branch but LOG, STATUS and an unknown line checks the  *)
(* state first and goes to err (BROKEN) in the wrong one; ENV-ERROR,     *)
(* VERSION-ERROR and PROXY-ERROR always end in err; PROXY DONE without   *)
(* a proxy URI falls through to the "unknown line" notice.               *)
(***************************************************************************)
HandleProxyLine(c, l) ==
    LET k == Kind(Text(l))
        Ok(x) == [conf |-> x, abort |-> FALSE]
        p == ParseMethodLine(l, k = "SMETHOD")
    IN IF k \in {"LOG ", "STATUS ", "unknown"} THEN Ok(c)
       ELSE IF ~StateOk(c, k) THEN Ok(Broken(c))
       ELSE CASE k \in {"ENV-ERROR", "VERSION-ERROR no-version", "PROXY-ERROR"} ->
                   Ok(Broken(c))
              [] k = "VERSION" ->
                   Ok(IF ParseVersion(Text(l))
                      THEN [c EXCEPT !.state = "ACCEPTING_METHODS", !.protocol = 1]
                      ELSE Broken(c))
              [] k \in {"CMETHODS DONE", "SMETHODS DONE"} ->
                   Ok([c EXCEPT !.state = "CONFIGURED"])
              [] k \in {"CMETHOD-ERROR", "SMETHOD-ERROR"} -> Ok(c)
              [] k \in {"CMETHOD", "SMETHOD"} ->
                   IF p.assertFails THEN [conf |-> c, abort |-> TRUE]
                   ELSE IF p.r = -1 THEN Ok(Broken(c))
                   ELSE Ok([c EXCEPT !.transports = Append(@, p.t)])
              [] k = "PROXY DONE" ->
                   Ok(IF c.uri # NoProxy THEN [c EXCEPT !.supported = TRUE] ELSE c)

(***************************************************************************)
(* managed_proxy_stdout_callback hands a line of a launched proxy to      *)
(* handle_proxy_line while the configuration runs (LAUNCHED or           *)
(* ACCEPTING_METHODS).  What follows a finished configuration,           *)
(* handle_finished_proxy, is modelled in ManagedProxy.                    *)
(***************************************************************************)
Receive(l) ==
    /\ ~aborted
    /\ conf.state \in {"LAUNCHED", "ACCEPTING_METHODS"}
    /\ LET h == HandleProxyLine(conf, l) IN
       /\ Len(h.conf.transports) <= MaxMethods
       /\ conf' = h.conf /\ aborted' = h.abort
    /\ line' = l

\* The configuration is over (or tor stopped): no more lines here.
ProtocolOver ==
    /\ aborted \/ conf.state \in {"CONFIGURED", "BROKEN"}
    /\ UNCHANGED pvars

\* launch_managed_proxy: a LAUNCHED proxy with no transports yet.
Init ==
    /\ conf \in [state : {"LAUNCHED"}, protocol : {0}, transports : {<<>>},
                 uri : ProxyUris, supported : {FALSE}]
    /\ line = <<>>
    /\ aborted = FALSE

Next == (\E l \in Lines : Receive(l)) \/ ProtocolOver

Spec == Init /\ [][Next]_pvars
-----------------------------------------------------------------------------
TypeOK ==
    /\ conf.state \in {"LAUNCHED", "ACCEPTING_METHODS", "CONFIGURED", "BROKEN"}
    /\ conf.protocol \in {0, 1} /\ conf.uri \in ProxyUris
    /\ Len(conf.transports) <= MaxMethods
    /\ \A i \in 1..Len(conf.transports) : conf.transports[i].name \in CIdentifiers
    /\ aborted \in BOOLEAN

(***************************************************************************)
(* A reference reader of the configuration protocol, written from the     *)
(* pluggable-transport specification and not from handle_proxy_line: a    *)
(* line is picked by its first word, compared whole, and a method line   *)
(* is good when it has its words (CMETHOD name socks addr:port, SMETHOD  *)
(* name addr:port), a C-identifier name, a SOCKS version the protocol    *)
(* names and an address:port with a nonzero port; a malformed line of a  *)
(* keyword is an error.  It gives ManagedProxy's class of the line.      *)
(***************************************************************************)
SpecKeywords == {"VERSION", "VERSION-ERROR", "ENV-ERROR", "CMETHOD", "SMETHOD",
                 "CMETHODS", "SMETHODS", "CMETHOD-ERROR", "SMETHOD-ERROR",
                 "PROXY", "PROXY-ERROR", "LOG", "STATUS"}

SpecMethodOk(l) ==
    LET n == IF l[1] = "CMETHOD" THEN 4 ELSE 3
        sp == A!AddrPortSplit(AddrOf[l[n]])
    IN /\ Len(l) >= n
       /\ l[2] \in CIdentifiers
       /\ l[1] = "SMETHOD" \/ l[3] \in {"socks4", "socks5"}
       /\ sp.ok /\ sp.port # 0 /\ A!AddrParse(sp.atext).ret # -1

SpecClass(l) ==
    CASE l[1] \in {"ENV-ERROR", "VERSION-ERROR", "PROXY-ERROR"} -> "ERROR"
      [] l[1] = "VERSION" -> IF l = <<"VERSION", "1">> THEN "VERSION" ELSE "VERSION_BAD"
      [] l[1] \in {"CMETHODS", "SMETHODS"} ->
            IF l = <<l[1], "DONE">> THEN "DONE" ELSE "METHOD_BAD"
      [] l[1] \in {"CMETHOD-ERROR", "SMETHOD-ERROR"} -> "METHOD_ERROR"
      [] l[1] \in {"CMETHOD", "SMETHOD"} -> IF SpecMethodOk(l) THEN l[2] ELSE "METHOD_BAD"
      [] l = <<"PROXY", "DONE">> -> "PROXY_DONE"
      [] OTHER -> "LOG"

Names(c) == [i \in 1..Len(c.transports) |-> c.transports[i].name]

MP == INSTANCE ManagedProxy WITH
        NArgv <- 1, Transports <- CIdentifiers, MaxMps <- 1,
        mp <- <<>>, list <- <<>>, proc <- <<>>, unconf <- 0, check <- FALSE,
        ptProxy <- NoProxy, reg <- <<>>, nextId <- 1, uaf <- {}

Abs(c) == [MP!NoMp EXCEPT !.argv = 1, !.state = c.state,
                          !.transports = Names(c), !.uri = c.uri,
                          !.supported = c.supported]

(***************************************************************************)
(* handle_proxy_line implements the protocol: every line that starts with *)
(* a keyword of the protocol and is handled without a failed assertion    *)
(* changes the proxy exactly as ManagedProxy's HandleProxyLine changes it *)
(* for the class the reference reader gives the line.  The order of the  *)
(* strcmpstart prefix tests, the state check of each branch and the      *)
(* parsers must all agree with the protocol for this to hold.  A first    *)
(* word that is no keyword (VERSION-1, which parse_version accepts) is   *)
(* left out; see NoAssertOnProxyLine.                                     *)
(***************************************************************************)
LineRefinesManagedProxy ==
    [][line' # <<>> /\ line'[1] \in SpecKeywords /\ ~aborted' =>
          Abs(conf') = MP!HandleProxyLine(Abs(conf), SpecClass(line'))]_pvars

(***************************************************************************)
(* No line a proxy writes makes tor fail an assertion: a misbehaving      *)
(* transport binary is handled by marking its proxy BROKEN.               *)
(***************************************************************************)
NoAssertOnProxyLine == ~aborted
=============================================================================
