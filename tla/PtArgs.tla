------------------------------- MODULE PtArgs -------------------------------
(***************************************************************************)
(* The strings tor hands to a pluggable transport: the SOCKS arguments of *)
(* a bridge (pt_get_socks_args_for_proxy_addrport, pt_stringify_socks_args*)
(* of transports.c) and TOR_PT_SERVER_TRANSPORT_OPTIONS                   *)
(* (get_transport_options_for_server_proxy), both escaped by              *)
(* tor_escape_str_for_pt_args.  A caller makes one call and keeps what it *)
(* returned; the functions keep no state between calls, so one call per  *)
(* behaviour covers them.  A string is a sequence of                       *)
(* one-character strings; NULL is a result of kind "null".               *)
(***************************************************************************)
EXTENDS Integers, Sequences, SequencesExt

CONSTANTS
    SizeMax,      \* SIZE_MAX, scaled
    ArgLists,     \* a bridge's socks_args, or NoArgs for a bridge without
    NoArgs,
    Transports,   \* transport names (C identifiers, so no ':' ';' '\')
    LaunchLists,  \* transports_to_launch of a server proxy
    OptionMaps    \* pt_get_options_for_server_transport: name -> options or NoArgs

\* Every string fits in memory: no argument or option reaches (SIZE_MAX-1)/2.
ASSUME \A l \in ArgLists : \A i \in 1..Len(l) : Len(l[i]) <= (SizeMax - 1) \div 2

VARIABLES
    ptCall,   \* the last call and its input
    ptOut,    \* what it returned
    overrun   \* tor_escape_str_for_pt_args wrote past its allocation

avars == <<ptCall, ptOut, overrun>>

Null == [kind |-> "null", text |-> <<>>]
Str(t) == [kind |-> "str", text |-> t]

Chr(w) == [i \in 1..Len(w) |-> SubSeq(w, i, i)]

\* smartlist_join_strings(sl, sep, 0, NULL)
Join(l, sep) == IF l = <<>> THEN <<>>
                ELSE FoldLeft(LAMBDA a, x : a \o sep \o x, Head(l), Tail(l))

\* Mutant of NewLength: no byte for the NUL.
NewLengthNoNul(n) == n * 2

\* new_length of tor_escape_str_for_pt_args: room for every character
\* escaped, and the NUL.
NewLength(n) == n * 2 + 1

(***************************************************************************)
(* tor_escape_str_for_pt_args(string, chars_to_escape): the empty string  *)
(* is returned as is; a length above (SIZE_MAX-1)/2 gives NULL; otherwise *)
(* every character in chars_to_escape gets a backslash before it.  ok     *)
(* says whether the result and its NUL fit in the new_length bytes        *)
(* malloc'd.                                                              *)
(***************************************************************************)
EscapeStr(s, E) ==
    LET out == FoldLeft(LAMBDA a, c : a \o (IF c \in E THEN <<"\\">> ELSE <<>>) \o <<c>>,
                        <<>>, s)
    IN CASE Len(s) = 0 -> [r |-> Str(<<>>), ok |-> TRUE]
         [] Len(s) > (SizeMax - 1) \div 2 -> [r |-> Null, ok |-> TRUE]
         [] OTHER -> [r |-> Str(out), ok |-> Len(out) + 1 <= NewLength(Len(s))]

\* pt_stringify_socks_args: every argument escaped for ';' and '\', the
\* results joined with ';'; a NULL escape makes the whole result NULL.
\* Mutant of SocksEscapes: only the separator escaped.
SocksEscapesSeparatorOnly == {";"}

SocksEscapes == {";", "\\"}

StringifySocksArgs(args) ==
    LET e == [i \in 1..Len(args) |-> EscapeStr(args[i], SocksEscapes)]
        fits == \A i \in 1..Len(args) : e[i].ok
    IN IF \E i \in 1..Len(args) : e[i].r = Null THEN [r |-> Null, ok |-> fits]
       ELSE [r |-> Str(Join([i \in 1..Len(args) |-> e[i].r.text], <<";">>)),
             ok |-> fits]

(***************************************************************************)
(* get_transport_options_for_server_proxy: for each transport to launch   *)
(* with options, one "transport:escaped-option" per option, escaped for  *)
(* ':', ';' and '\'; all joined with ';'; NULL when there are none.      *)
(***************************************************************************)
\* Mutant of ServerEscapes: the backslash itself not escaped.
ServerEscapesNoBackslash == {":", ";"}

ServerEscapes == {":", ";", "\\"}

OptionItems(ts, o) ==
    LET Items(t) == IF o[t] = NoArgs THEN <<>>
                    ELSE [j \in 1..Len(o[t]) |-> <<t, o[t][j]>>]
    IN FoldLeft(LAMBDA a, t : a \o Items(t), <<>>, ts)

TransportOptions(ts, o) ==
    LET its == OptionItems(ts, o)
        e == [i \in 1..Len(its) |-> EscapeStr(its[i][2], ServerEscapes)]
        chunk == [i \in 1..Len(its) |-> Chr(its[i][1]) \o <<":">> \o e[i].r.text]
    IN [r |-> IF its = <<>> THEN Null ELSE Str(Join(chunk, <<";">>)),
        ok |-> \A i \in 1..Len(its) : e[i].ok]

(***************************************************************************)
(* pt_get_socks_args_for_proxy_addrport for a bridge whose socks_args are *)
(* args: NULL when it has none, else pt_stringify_socks_args.             *)
(***************************************************************************)
SocksArgsForProxy(args) ==
    LET s == IF args = NoArgs THEN [r |-> Null, ok |-> TRUE]
             ELSE StringifySocksArgs(args)
    IN /\ ptCall' = [fn |-> "socks", args |-> args, ts |-> <<>>, o |-> <<>>]
       /\ ptOut' = s.r
       /\ overrun' = (overrun \/ ~s.ok)

\* get_transport_options_for_server_proxy for a server proxy.
ServerTransportOptions(ts, o) ==
    LET s == TransportOptions(ts, o) IN
    /\ ptCall' = [fn |-> "server", args |-> NoArgs, ts |-> ts, o |-> o]
    /\ ptOut' = s.r
    /\ overrun' = (overrun \/ ~s.ok)

Init ==
    /\ ptCall = [fn |-> "none", args |-> NoArgs, ts |-> <<>>, o |-> <<>>]
    /\ ptOut = Null
    /\ overrun = FALSE

\* The caller has made its call and uses the result.
CallerDone == ptCall.fn # "none" /\ UNCHANGED avars

Next ==
    \/ ptCall.fn = "none" /\
       \/ \E a \in ArgLists \cup {NoArgs} : SocksArgsForProxy(a)
       \/ \E ts \in LaunchLists, o \in OptionMaps : ServerTransportOptions(ts, o)
    \/ CallerDone

Spec == Init /\ [][Next]_avars
-----------------------------------------------------------------------------
TypeOK ==
    /\ ptCall.fn \in {"none", "socks", "server"}
    /\ ptOut.kind \in {"null", "str"}
    /\ overrun \in BOOLEAN

(***************************************************************************)
(* A reference reader, from the escaping rules of the pluggable-transport *)
(* specification: split at every separator not escaped by a backslash,   *)
(* then drop the escaping backslashes.  SplitFrom keeps the fields raw.  *)
(***************************************************************************)
RECURSIVE SplitFrom(_, _, _, _, _)
SplitFrom(done, cur, s, esc, sep) ==
    IF s = <<>> THEN Append(done, cur)
    ELSE IF ~esc /\ Head(s) = sep
    THEN SplitFrom(Append(done, cur), <<>>, Tail(s), FALSE, sep)
    ELSE SplitFrom(done, Append(cur, Head(s)), Tail(s), ~esc /\ Head(s) = "\\", sep)

SplitUnescaped(s, sep) == SplitFrom(<<>>, <<>>, s, FALSE, sep)

RECURSIVE Unescape(_)
Unescape(s) ==
    IF s = <<>> THEN <<>>
    ELSE IF Head(s) = "\\" /\ Len(s) >= 2 THEN <<s[2]>> \o Unescape(Tail(Tail(s)))
    ELSE <<Head(s)>> \o Unescape(Tail(s))

\* What a transport reads from TOR_PT_SERVER_TRANSPORT_OPTIONS: the pairs
\* of a transport name and the text after its first unescaped ':'.
ReadServerOptions(t) ==
    LET f == SplitUnescaped(t, ";")
        P(x) == LET p == SplitUnescaped(x, ":") IN
                <<Unescape(p[1]), Unescape(Join(Tail(p), <<":">>))>>
    IN [i \in 1..Len(f) |-> P(f[i])]

(***************************************************************************)
(* The transport reads back the bridge's SOCKS arguments: splitting the   *)
(* string pt_stringify_socks_args built at unescaped ';' and unescaping   *)
(* gives exactly the bridge's list, however its arguments mix ';', '\',   *)
(* ':' and empty strings.                                                 *)
(***************************************************************************)
SocksArgsRoundTrip ==
    ptCall.fn = "socks" /\ ptCall.args # NoArgs =>
        /\ ptOut.kind = "str"
        /\ [i \in 1..Len(SplitUnescaped(ptOut.text, ";")) |->
               Unescape(SplitUnescaped(ptOut.text, ";")[i])] = ptCall.args

(***************************************************************************)
(* A server transport reads back the options tor configured for it, in    *)
(* order: TOR_PT_SERVER_TRANSPORT_OPTIONS parses into the (transport,      *)
(* option) pairs of the transports to launch, and is NULL exactly when    *)
(* there are none.                                                        *)
(***************************************************************************)
ServerOptionsRoundTrip ==
    ptCall.fn = "server" =>
        LET its == OptionItems(ptCall.ts, ptCall.o)
            want == [i \in 1..Len(its) |-> <<Chr(its[i][1]), its[i][2]>>]
        IN IF its = <<>> THEN ptOut = Null
           ELSE ptOut.kind = "str" /\ ReadServerOptions(ptOut.text) = want

(***************************************************************************)
(* tor_escape_str_for_pt_args never writes past the buffer it allocates:  *)
(* the escaped string and its NUL fit in new_length bytes, even when     *)
(* every character needs a backslash.                                     *)
(***************************************************************************)
EscapeFitsBuffer == ~overrun
=============================================================================
