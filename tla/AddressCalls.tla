---------------------------- MODULE AddressCalls ----------------------------
(***************************************************************************)
(* The callers of address.c.  A behaviour is one of three kinds (mode),   *)
(* chosen at the start:                                                    *)
(*  - "order": a caller holds up to three addresses, as a policy or a     *)
(*    connection table holds the addresses it compares, and replaces one  *)
(*    at each step; the comparison properties are checked over them;       *)
(*  - "parse": one call of tor_addr_parse_mask_ports, then the caller     *)
(*    stops;                                                               *)
(*  - "addrport": one call of tor_addr_port_parse, as a configuration     *)
(*    option reader turning "host[:port]" into an address and a port with *)
(*    a default, then the caller stops.                                    *)
(***************************************************************************)
EXTENDS Address, FiniteSets

CONSTANTS
    Addrs,      \* sample addresses: v4, v6, v4-mapped, AF_UNIX, AF_UNSPEC
    MaskBits,   \* the mbits the comparisons are checked at
    Calls,      \* the tor_addr_parse_mask_ports calls tried
    Texts,      \* the tor_addr_port_parse texts tried
    Defaults    \* the default_port values tried

VARIABLES mode, held, call, result, text, dflt, apresult, parsed

vars == <<mode, held, call, result, text, dflt, apresult, parsed>>

Slots == held

APFail == [ret |-> -1, addr |-> MakeUnspec, port |-> 0]

(* The caller takes one more address, holding at most three. *)
Take(a) ==
    /\ mode = "order"
    /\ Cardinality(held) < 3
    /\ held' = held \cup {a}
    /\ UNCHANGED <<mode, call, result, text, dflt, apresult, parsed>>

(* The caller replaces an address it holds by another. *)
Hold(x, a) ==
    /\ mode = "order"
    /\ x \in held
    /\ held' = (held \ {x}) \cup {a}
    /\ UNCHANGED <<mode, call, result, text, dflt, apresult, parsed>>

(* The caller makes its call: tor_addr_parse_mask_ports returns. *)
Parse ==
    /\ mode = "parse"
    /\ ~parsed
    /\ result' = ParseMaskPorts(call)
    /\ parsed' = TRUE
    /\ UNCHANGED <<mode, held, call, text, dflt, apresult>>

(* The caller makes its call: tor_addr_port_parse returns. *)
ParseAddrPort ==
    /\ mode = "addrport"
    /\ ~parsed
    /\ apresult' = AddrPortParse(text, dflt)
    /\ parsed' = TRUE
    /\ UNCHANGED <<mode, held, call, result, text, dflt>>

(* The arguments of the calls a behaviour does not make are fixed. *)
Init ==
    /\ mode \in {"order", "parse", "addrport"}
    /\ IF mode = "order"
       THEN held \in {{a} : a \in Addrs}
       ELSE held = {CHOOSE a \in Addrs : TRUE}
    /\ IF mode = "parse" THEN call \in Calls ELSE call = CHOOSE c \in Calls : TRUE
    /\ IF mode = "addrport" THEN text \in Texts /\ dflt \in Defaults
       ELSE /\ text = (CHOOSE t \in Texts : TRUE)
            /\ dflt = (CHOOSE d \in Defaults : TRUE)
    /\ result = ParseError
    /\ apresult = APFail
    /\ parsed = FALSE

Next ==
    \/ \E a \in Addrs : Take(a)
    \/ \E x \in held, a \in Addrs : Hold(x, a)
    \/ Parse
    \/ ParseAddrPort

Spec == Init /\ [][Next]_vars
-----------------------------------------------------------------------------
(* The bit-level reference: bit k (from the most significant) of an       *)
(* octet sequence, and the order of the first m bits.                     *)
Bit(o, k) == (o[(k - 1) \div 8 + 1] \div 2^(7 - ((k - 1) % 8))) % 2
RefPrefixOrder(o1, o2, m) ==
    LET d == {k \in 1..m : Bit(o1, k) # Bit(o2, k)}
    IN IF d = {} THEN 0
       ELSE LET k == CHOOSE k \in d : \A j \in d : k <= j
            IN IF Bit(o1, k) < Bit(o2, k) THEN -1 ELSE 1
Width(a) == 8 * Len(a.bytes)

(* The mask the caller of a v4-mapped pattern means: n bits of the IPv4  *)
(* address are 96 + n bits of the mapped one; more than 32 are v6 bits.   *)
MeantMappedBits(n) == IF n <= 32 THEN 96 + n ELSE n

TypeOK ==
    /\ mode \in {"order", "parse", "addrport"}
    /\ held \subseteq Addrs /\ held # {} /\ Cardinality(held) <= 3
    /\ call \in Calls
    /\ result.ret \in {-1, AF_UNSPEC, AF_INET, AF_INET6}
    /\ result.bits \in 0..128
    /\ result.pmin \in 0..65535 /\ result.pmax \in 0..65535
    /\ text \in Texts /\ dflt \in Defaults
    /\ apresult.ret \in {-1, 0}
    /\ apresult.addr.family \in {AF_UNSPEC, AF_INET, AF_INET6}
    /\ apresult.port \in 0..65535
    /\ parsed \in BOOLEAN

(* tor_addr_compare_masked with CMP_EXACT is a total preorder at every    *)
(* mask: swapping the arguments negates the result, and "not greater"     *)
(* is transitive, across families, AF_UNIX pointers and AF_UNSPEC.        *)
CompareExactTotalPreorder ==
    \A m \in MaskBits, p, q, r \in Slots :
        /\ CompareMasked(p, q, m, CMP_EXACT) = -CompareMasked(q, p, m, CMP_EXACT)
        /\ (CompareMasked(p, q, m, CMP_EXACT) <= 0
            /\ CompareMasked(q, r, m, CMP_EXACT) <= 0)
              => CompareMasked(p, r, m, CMP_EXACT) <= 0

(* Within one IP family, tor_addr_compare_masked orders two addresses as  *)
(* their first mbits bits (capped at the family's width), both for the    *)
(* shifted 32-bit words of IPv4 and the memcmp and leftover bits of IPv6. *)
CompareMatchesBitPrefix ==
    \A m \in MaskBits, p, q \in Slots, how \in {CMP_EXACT, CMP_SEMANTIC} :
        (p.family = q.family /\ p.family \in {AF_INET, AF_INET6}) =>
            CompareMasked(p, q, m, how) =
                RefPrefixOrder(p.bytes, q.bytes,
                               IF m > Width(p) THEN Width(p) ELSE m)

(* The mask is read relative to addr1 (the comment of                     *)
(* tor_addr_compare_masked): for a v4-mapped a and an IPv4 b,             *)
(* compare_masked(a, b, m) = -compare_masked(b, a, m - 96) semantically.  *)
MaskRelativeToFirst ==
    \A m \in MaskBits, p, q \in Slots :
        (p.family = AF_INET6 /\ IsV4(p) /\ q.family = AF_INET /\ 96 < m /\ m <= 128)
            => CompareMasked(p, q, m, CMP_SEMANTIC)
                 = -CompareMasked(q, p, m - 96, CMP_SEMANTIC)

(* tor_addr_is_internal_ classifies addresses that tor_addr_compare finds *)
(* semantically equal alike: a v4-mapped address like its IPv4 address.  *)
InternalAgreesWithSemanticEquality ==
    \A p, q \in Slots, fl \in BOOLEAN :
        Compare(p, q, CMP_SEMANTIC) = 0 => IsInternal(p, fl) = IsInternal(q, fl)

(* The comment of tor_addr_compare_masked guarantees a total order, also  *)
(* for CMP_SEMANTIC: tor_addr_compare(.., CMP_SEMANTIC) is transitive.    *)
SemanticTotalOrder ==
    \A p, q, r \in Slots :
        (Compare(p, q, CMP_SEMANTIC) <= 0 /\ Compare(q, r, CMP_SEMANTIC) <= 0)
            => Compare(p, r, CMP_SEMANTIC) <= 0

(* An accepted pattern means what the grammar in the comment of           *)
(* tor_addr_parse_mask_ports says: the literal address; the default mask  *)
(* /32, /128 or /0 for a wildcard; no more than 32 bits for IPv4; a mask  *)
(* or ports only where the caller asked for them; ports 1-65535 when none *)
(* are given; and a written range within 1..65535 with min <= max.        *)
ParseFollowsGrammar ==
    (parsed /\ mode = "parse" /\ result.ret # -1) =>
        /\ call.s.addr.kind = "lit" => result.addr = call.s.addr.lit
        /\ (call.wantMask /\ call.s.mask.kind = "none") =>
              result.bits = CASE call.s.addr.kind # "lit" -> 0
                              [] result.ret = AF_INET -> 32
                              [] OTHER -> 128
        /\ result.ret = AF_INET => result.bits <= 32
        /\ ~call.wantMask => call.s.mask.kind = "none"
        /\ ~call.wantMin => call.s.port.kind = "none"
        /\ (call.wantMin /\ call.s.port.kind \in {"none", "empty", "*"}) =>
              result.pmin = 1 /\ (call.wantMax => result.pmax = 65535)
        /\ (call.wantMin /\ call.wantMax /\ call.s.port.kind = "range") =>
              1 <= result.pmin /\ result.pmin <= result.pmax

(* A v4-mapped pattern with a written mask of n bits matches, under       *)
(* tor_addr_compare_masked, exactly the IPv6 addresses that share the     *)
(* first 96 + n bits (n <= 32) or n bits (n >= 96) with it.               *)
MappedMaskMeaning ==
    (parsed /\ mode = "parse" /\ result.ret = AF_INET6 /\ call.wantMask /\ call.s.mask.kind = "int"
     /\ IsV4(result.addr)) =>
        \A b \in Addrs :
            (CompareMasked(result.addr, b, result.bits, CMP_EXACT) = 0)
              <=> (b.family = AF_INET6
                   /\ RefPrefixOrder(result.addr.bytes, b.bytes,
                                     MeantMappedBits(call.s.mask.n)) = 0)

(* The grammar allows "/" only before an integer: a pattern whose mask    *)
(* is empty, as in "1.2.3.4/:80", is rejected.                            *)
EmptyMaskRejected ==
    (parsed /\ mode = "parse" /\ call.s.mask.kind = "empty") => result.ret = -1

(* One port is placed in both min and max (the comment of                 *)
(* tor_addr_parse_mask_ports), so the range it gives is that port alone.  *)
SinglePortInBoth ==
    (parsed /\ mode = "parse" /\ result.ret # -1 /\ call.wantMin /\ call.wantMax /\ call.s.port.kind = "one")
        => result.pmin = call.s.port.lo /\ result.pmax = call.s.port.lo

(* The text reads as one IPv6 address, port digits included.              *)
Absorbed(t) == t.whole.family = AF_INET6

(* tor_addr_port_parse accepts what its comment lists and nothing else:   *)
(* an IPv4 address without brackets, an IPv6 address in brackets, with or *)
(* without a port, and an IPv6 address without brackets and without a    *)
(* port (an ambiguous "v6:digits" being read as an address, as the        *)
(* comment of tor_addr_port_split says); a port of 1..65535, or none and *)
(* default_port >= 0.  It returns the address and the port written, or   *)
(* the default, and clears both outputs on error.  ":0" is left to        *)
(* PortZeroTakesDefault.                                                  *)
AddrPortFollowsDoc ==
    LET t == text
        noPort == t.port.kind = "none" \/ Absorbed(t)
        portOk == IF noPort THEN dflt >= 0
                  ELSE t.port.kind = "num" /\ 1 <= t.port.n /\ t.port.n <= 65535
        form == CASE Absorbed(t) -> TRUE
                  [] t.inner.family = AF_INET -> ~t.bracket
                  [] t.inner.family = AF_INET6 -> t.bracket \/ t.port.kind = "none"
                  [] OTHER -> FALSE
    IN (parsed /\ mode = "addrport" /\ t.port # [kind |-> "num", n |-> 0]) =>
         /\ (apresult.ret = 0) <=> (form /\ portOk)
         /\ apresult.ret = 0 =>
              /\ apresult.addr = IF Absorbed(t) THEN t.whole ELSE t.inner
              /\ apresult.port = IF noPort THEN dflt ELSE t.port.n
         /\ apresult.ret = -1 => apresult.addr = MakeUnspec /\ apresult.port = 0

(* The comment of tor_addr_port_parse: with default_port >= 0, "ip:0" is  *)
(* accepted and the port set to default_port.                             *)
PortZeroTakesDefault ==
    (parsed /\ mode = "addrport" /\ dflt >= 0 /\ text.port = [kind |-> "num", n |-> 0]
     /\ ~Absorbed(text) /\ text.inner.family = AF_INET /\ ~text.bracket)
        => apresult.ret = 0 /\ apresult.port = dflt
=============================================================================
