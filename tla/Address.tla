------------------------------ MODULE Address ------------------------------
(***************************************************************************)
(* The address functions of address.c as pure operators: the address     *)
(* constructors, tor_addr_is_v4, tor_addr_is_internal_, tor_addr_is_null, *)
(* tor_addr_is_loopback, tor_addr_is_valid, tor_addr_is_multicast,        *)
(* tor_addr_compare_masked, addr_mask_get_bits, parse_port_range and      *)
(* tor_addr_parse_mask_ports.                                              *)
(*                                                                         *)
(* A tor_addr_t is a record: its family, its address as a sequence of     *)
(* octets in network order (4 for AF_INET, 16 for AF_INET6, none          *)
(* otherwise) and, for AF_UNIX, the identity of the object, which is all  *)
(* tor_addr_compare_masked can compare.  32-bit words of the code are     *)
(* read as their four octets, so every mask of the code is written as     *)
(* octets and tested with the bitwise and of Bitwise.                      *)
(***************************************************************************)
EXTENDS Integers, Sequences, FiniteSets, Bitwise

CONSTANTS
    AF_UNSPEC, AF_UNIX, AF_INET, AF_INET6,   \* the platform's values
    CMP_EXACT, CMP_SEMANTIC                  \* tor_addr_comparison_t

ASSUME AF_UNSPEC = 0 /\ {AF_UNIX, AF_INET, AF_INET6} \subseteq Nat \ {0}

Zeros(n) == [i \in 1..n |-> 0]

(* tor_addr_make_unspec, tor_addr_make_null, tor_addr_from_ipv4h and       *)
(* tor_addr_from_ipv6_bytes: memset to zero, then the family and bytes.    *)
MakeUnspec == [family |-> AF_UNSPEC, bytes |-> <<>>, obj |-> 0]
MakeNull(family) ==
    [family |-> family,
     bytes |-> CASE family = AF_INET -> Zeros(4)
                 [] family = AF_INET6 -> Zeros(16)
                 [] OTHER -> <<>>,
     obj |-> 0]
FromIpv4(o) == [family |-> AF_INET, bytes |-> o, obj |-> 0]
FromIpv6Bytes(o) == [family |-> AF_INET6, bytes |-> o, obj |-> 0]
MakeAfUnix(id) == [family |-> AF_UNIX, bytes |-> <<>>, obj |-> id]

(* Mask test of a 32-bit word given as octets: (w & mask) == value. *)
Masked(w, mask, value) ==
    \A i \in 1..Len(mask) : (w[i] & mask[i]) = value[i]

(* The k-th 32-bit word of a v6 address, as octets (a32[k-1]). *)
Word(o, k) == SubSeq(o, 4 * k - 3, 4 * k)

(* tor_addr_is_v4: AF_INET, or AF_INET6 of the form ::ffff:a.b.c.d. *)
IsV4(a) ==
    \/ a.family = AF_INET
    \/ /\ a.family = AF_INET6
       /\ Word(a.bytes, 1) = Zeros(4) /\ Word(a.bytes, 2) = Zeros(4)
       /\ Word(a.bytes, 3) = <<0, 0, \hff, \hff>>

(* tor_addr_to_mapped_ipv4h: the last word of a v6 address. *)
MappedIpv4(a) == Word(a.bytes, 4)

(* tor_addr_is_internal_ *)
InternalV6(w, forListening) ==
    IF forListening /\ \A k \in 1..4 : w[k] = Zeros(4) THEN FALSE
    ELSE \/ Masked(w[1], <<\hfe, 0, 0, 0>>, <<\hfc, 0, 0, 0>>)
         \/ Masked(w[1], <<\hff, \hc0, 0, 0>>, <<\hfe, \h80, 0, 0>>)
         \/ Masked(w[1], <<\hff, \hc0, 0, 0>>, <<\hfe, \hc0, 0, 0>>)
         \/ /\ w[1] = Zeros(4) /\ w[2] = Zeros(4) /\ w[3] = Zeros(4)
            /\ Masked(w[4], <<\hff, \hff, \hff, \hfe>>, Zeros(4))
InternalV4(iph4, forListening) ==
    IF forListening /\ (iph4 = Zeros(4)
                        \/ Masked(iph4, <<\hff, \hc0, 0, 0>>, <<\h64, \h40, 0, 0>>))
    THEN FALSE
    ELSE \/ Masked(iph4, <<\hff, 0, 0, 0>>, <<\h0a, 0, 0, 0>>)
         \/ Masked(iph4, <<\hff, 0, 0, 0>>, <<0, 0, 0, 0>>)
         \/ Masked(iph4, <<\hff, 0, 0, 0>>, <<\h7f, 0, 0, 0>>)
         \/ Masked(iph4, <<\hff, \hc0, 0, 0>>, <<\h64, \h40, 0, 0>>)
         \/ Masked(iph4, <<\hff, \hff, 0, 0>>, <<\ha9, \hfe, 0, 0>>)
         \/ Masked(iph4, <<\hff, \hf0, 0, 0>>, <<\hac, \h10, 0, 0>>)
         \/ Masked(iph4, <<\hff, \hff, 0, 0>>, <<\hc0, \ha8, 0, 0>>)
(* v_family and iph4 of tor_addr_is_internal_: a v4-mapped address is    *)
(* looked at as the IPv4 address in its last word.                        *)
InternalFamilyUnmapped(a) == a.family
InternalFamily(a) ==
    IF a.family = AF_INET6 /\ IsV4(a) THEN AF_INET ELSE a.family
InternalIpv4(a) == IF a.family = AF_INET THEN a.bytes ELSE MappedIpv4(a)
IsInternal(a, forListening) ==
    CASE InternalFamily(a) = AF_INET -> InternalV4(InternalIpv4(a), forListening)
      [] InternalFamily(a) = AF_INET6 ->
            InternalV6([k \in 1..4 |-> Word(a.bytes, k)], forListening)
      [] OTHER -> TRUE   \* unknown family: logged as a bug, "not safe"

(* tor_addr_is_null, tor_addr_is_loopback, tor_addr_is_valid,              *)
(* tor_port_is_valid and tor_addr_is_multicast.                            *)
IsNull(a) ==
    CASE a.family \in {AF_INET, AF_INET6} -> a.bytes = Zeros(Len(a.bytes))
      [] a.family \in {AF_UNIX, AF_UNSPEC} -> TRUE
IsLoopback(a) ==
    CASE a.family = AF_INET6 -> a.bytes = Zeros(15) \o <<1>>
      [] a.family = AF_INET -> a.bytes[1] = \h7f
      [] OTHER -> FALSE
IsValid(a, forListening) ==
    (forListening /\ a.family \in {AF_INET, AF_INET6}) \/ ~IsNull(a)
PortIsValid(port, forListening) == forListening \/ port # 0
IsMulticast(a) ==
    \/ a.family = AF_INET /\ a.bytes[1] = \he0
    \/ a.family = AF_INET6 /\ a.bytes[1] = \hff
-----------------------------------------------------------------------------
(* TRISTATE(a,b) of tor_addr_compare_masked. *)
Tristate(x, y) == IF x < y THEN -1 ELSE IF x = y THEN 0 ELSE 1

(* tor_memcmp over the first n octets: the sign of the first difference. *)
TorMemcmp(o1, o2, n) ==
    LET d == {i \in 1..n : o1[i] # o2[i]}
    IN IF d = {} THEN 0
       ELSE LET i == CHOOSE i \in d : \A j \in d : i <= j
            IN Tristate(o1[i], o2[i])

(* The byte-wise prefix comparison of the AF_INET6 case: memcmp of        *)
(* mbits >> 3 octets, then the leftover high bits of the next octet.      *)
PrefixCompareLeftShift(o1, o2, mbits) ==
    LET bytes == mbits \div 8
        leftover == mbits % 8
    IN IF bytes > 0 /\ TorMemcmp(o1, o2, bytes) # 0 THEN TorMemcmp(o1, o2, bytes)
       ELSE IF leftover > 0
            THEN Tristate(o1[bytes + 1] \div 2^leftover,
                          o2[bytes + 1] \div 2^leftover)
       ELSE 0
PrefixCompare(o1, o2, mbits) ==
    LET bytes == mbits \div 8
        leftover == mbits % 8
    IN IF bytes > 0 /\ TorMemcmp(o1, o2, bytes) # 0 THEN TorMemcmp(o1, o2, bytes)
       ELSE IF leftover > 0
            THEN Tristate(o1[bytes + 1] \div 2^(8 - leftover),
                          o2[bytes + 1] \div 2^(8 - leftover))
       ELSE 0

(* tor_addr_to_ipv4h: the host-order uint32_t, held as its high and low  *)
(* 16 bits, since a 32-bit word does not fit TLC's integers.             *)
Ipv4h(o) == <<o[1] * 256 + o[2], o[3] * 256 + o[4]>>

(* w >>= s for such a word and 0 <= s <= 31. *)
Shr32(w, s) ==
    IF s >= 16 THEN <<0, shiftR(w[1], s - 16)>>
    ELSE <<shiftR(w[1], s), (w[1] % 2^s) * 2^(16 - s) + shiftR(w[2], s)>>

(* TRISTATE of two such words. *)
Tristate32(x, y) == IF x[1] # y[1] THEN Tristate(x[1], y[1]) ELSE Tristate(x[2], y[2])

(* The AF_INET case: a1 >>= (32-mbits), a2 >>= (32-mbits), TRISTATE.      *)
ShiftCompare(o1, o2, mbits) ==
    Tristate32(Shr32(Ipv4h(o1), 32 - mbits), Shr32(Ipv4h(o2), 32 - mbits))

Cap(m, top) == IF m > top THEN top ELSE m

(* The same-family cases of tor_addr_compare_masked. *)
SameFamilyCompareUnixLe(a1, a2, mbits) ==
    CASE a1.family = AF_UNSPEC -> 0
      [] a1.family = AF_INET ->
            IF mbits <= 0 THEN 0 ELSE ShiftCompare(a1.bytes, a2.bytes, Cap(mbits, 32))
      [] a1.family = AF_INET6 -> PrefixCompare(a1.bytes, a2.bytes, Cap(mbits, 128))
      [] a1.family = AF_UNIX -> IF a1.obj <= a2.obj THEN -1 ELSE 1
SameFamilyCompare(a1, a2, mbits) ==
    CASE a1.family = AF_UNSPEC -> 0
      [] a1.family = AF_INET ->
            IF mbits <= 0 THEN 0 ELSE ShiftCompare(a1.bytes, a2.bytes, Cap(mbits, 32))
      [] a1.family = AF_INET6 -> PrefixCompare(a1.bytes, a2.bytes, Cap(mbits, 128))
      [] a1.family = AF_UNIX -> Tristate(a1.obj, a2.obj)   \* pointer-wise

(* The semantic comparison of an IPv4 address with a v4-mapped one: the   *)
(* mask is read relative to addr1, so a mapped addr1 spends 96 bits on    *)
(* the ::ffff: prefix.                                                     *)
MappedCompareUnadjusted(a1, a2, mbits) ==
    LET a1h == IF a1.family = AF_INET6 THEN MappedIpv4(a1) ELSE a1.bytes
        a2h == IF a2.family = AF_INET6 THEN MappedIpv4(a2) ELSE a2.bytes
    IN IF a1.family = AF_INET6 /\ mbits <= 96 THEN 0
       ELSE ShiftCompare(a1h, a2h, Cap(mbits, 32))
MappedCompare(a1, a2, mbits) ==
    LET a1h == IF a1.family = AF_INET6 THEN MappedIpv4(a1) ELSE a1.bytes
        a2h == IF a2.family = AF_INET6 THEN MappedIpv4(a2) ELSE a2.bytes
        m == IF a1.family = AF_INET6 THEN mbits - 96 ELSE mbits
    IN IF a1.family = AF_INET6 /\ mbits <= 96 THEN 0
       ELSE ShiftCompare(a1h, a2h, Cap(m, 32))

VFamily(a) == IF a.family = AF_INET6 /\ IsV4(a) THEN AF_INET ELSE a.family

(* tor_addr_compare_masked(addr1, addr2, mbits, how) *)
CompareMasked(a1, a2, mbits, how) ==
    IF a1.family = a2.family THEN SameFamilyCompare(a1, a2, mbits)
    ELSE IF how = CMP_EXACT THEN Tristate(a1.family, a2.family)
    ELSE IF mbits = 0 THEN 0
    ELSE IF VFamily(a1) = VFamily(a2) THEN MappedCompare(a1, a2, mbits)
    ELSE Tristate(a1.family, a2.family)

(* tor_addr_compare *)
Compare(a1, a2, how) == CompareMasked(a1, a2, 128, how)
-----------------------------------------------------------------------------
(* addr_mask_get_bits: (uint32_t) ~((1u << (32-i)) - 1) as octets. *)
PrefixMask(i) ==
    [k \in 1..4 |-> IF i >= 8 * k THEN \hff
                    ELSE IF i <= 8 * (k - 1) THEN 0
                    ELSE 256 - 2^(8 - (i - 8 * (k - 1)))]
AddrMaskGetBits(mask) ==
    IF mask = Zeros(4) THEN 0
    ELSE IF mask = <<\hff, \hff, \hff, \hff>> THEN 32
    ELSE IF \E i \in 1..32 : mask = PrefixMask(i)
         THEN CHOOSE i \in 1..32 : mask = PrefixMask(i)
    ELSE -1

(* A pattern text, cut at '[', ']', '/' and ':' as the code cuts it.      *)
(* addr.kind is "*", "*4", "*6", "lit" (a literal that tor_inet_pton      *)
(* reads as addr.lit) or "junk"; mask.kind is "none" (no '/'), "int"      *)
(* (digits read by strtol as mask.n), "empty" (nothing after the '/'),    *)
(* "v4" (a dotted mask mask.o) or "junk"; port.kind is "none" (no ':'),   *)
(* "empty", "*", "one" (port.lo), "range" (port.lo, '-', port.hi) or      *)
(* "junk".  A literal IPv6 address is written inside brackets.            *)
Ok(r) == r.ok

(* tor_parse_long(s, 10, min, max, &ok, &endptr) on a number n. *)
ParseLongOk(n, lo, hi) == lo <= n /\ n <= hi

(* parse_port_range *)
ParsePortRange(port) ==
    CASE port.kind \in {"none", "empty", "*"} -> [ok |-> TRUE, min |-> 1, max |-> 65535]
      [] port.kind = "one" /\ ParseLongOk(port.lo, 0, 65535) ->
            [ok |-> TRUE, min |-> IF port.lo < 1 THEN 1 ELSE port.lo,
             max |-> port.lo]
      [] port.kind = "range" /\ ParseLongOk(port.lo, 0, 65535)
                             /\ ParseLongOk(port.hi, 1, 65535)
                             /\ port.lo <= port.hi ->
            [ok |-> TRUE, min |-> IF port.lo < 1 THEN 1 ELSE port.lo,
             max |-> port.hi]
      [] OTHER -> [ok |-> FALSE, min |-> 0, max |-> 0]

(* The address portion of tor_addr_parse_mask_ports: the wildcards and    *)
(* the literal, with any_flag.                                             *)
ParseAddressPart(t, flags) ==
    LET ext == "EXTENDED_STAR" \in flags
        v4zero == FromIpv4(Zeros(4))
        v6zero == FromIpv6Bytes(Zeros(16))
    IN CASE t.kind = "*" /\ ext /\ "STAR_IPV4_ONLY" \in flags ->
              [ok |-> TRUE, addr |-> v4zero, any |-> TRUE]
         [] t.kind = "*" /\ ext /\ "STAR_IPV6_ONLY" \in flags ->
              [ok |-> TRUE, addr |-> v6zero, any |-> TRUE]
         [] t.kind = "*" /\ ext -> [ok |-> TRUE, addr |-> MakeUnspec, any |-> TRUE]
         [] t.kind = "*" -> [ok |-> TRUE, addr |-> v4zero, any |-> TRUE]
         [] t.kind = "*4" /\ ext -> [ok |-> TRUE, addr |-> v4zero, any |-> TRUE]
         [] t.kind = "*6" /\ ext -> [ok |-> TRUE, addr |-> v6zero, any |-> TRUE]
         [] t.kind = "lit" -> [ok |-> TRUE, addr |-> t.lit, any |-> FALSE]
         [] OTHER -> [ok |-> FALSE, addr |-> MakeUnspec, any |-> FALSE]

(* The bits a written mask gives, before the v4-mapped adjustment. *)
WrittenMaskBitsUnbounded(mask, family) ==
    CASE mask.kind = "int" ->
            IF family = AF_INET /\ mask.n > 32
            THEN [ok |-> FALSE, bits |-> 0] ELSE [ok |-> TRUE, bits |-> mask.n]
      [] mask.kind = "empty" -> [ok |-> TRUE, bits |-> 0]
      [] mask.kind = "v4" /\ AddrMaskGetBits(mask.o) >= 0 ->
            [ok |-> TRUE, bits |-> AddrMaskGetBits(mask.o)]
      [] OTHER -> [ok |-> FALSE, bits |-> 0]
WrittenMaskBitsAnyFamily(mask, family) ==
    CASE mask.kind = "int" ->
            IF mask.n < 0 \/ mask.n > 128
            THEN [ok |-> FALSE, bits |-> 0] ELSE [ok |-> TRUE, bits |-> mask.n]
      [] mask.kind = "empty" -> [ok |-> TRUE, bits |-> 0]
      [] mask.kind = "v4" /\ AddrMaskGetBits(mask.o) >= 0 ->
            [ok |-> TRUE, bits |-> AddrMaskGetBits(mask.o)]
      [] OTHER -> [ok |-> FALSE, bits |-> 0]
WrittenMaskBits(mask, family) ==
    CASE mask.kind = "int" ->
            IF mask.n < 0 \/ mask.n > 128 \/ (family = AF_INET /\ mask.n > 32)
            THEN [ok |-> FALSE, bits |-> 0] ELSE [ok |-> TRUE, bits |-> mask.n]
      [] mask.kind = "empty" -> [ok |-> TRUE, bits |-> 0]   \* strtol of ""
      [] mask.kind = "v4" /\ AddrMaskGetBits(mask.o) >= 0 ->
            [ok |-> TRUE, bits |-> AddrMaskGetBits(mask.o)]
      [] OTHER -> [ok |-> FALSE, bits |-> 0]

(* The mask portion: a written mask, adjusted for v4-mapped addresses and *)
(* refused on a wildcard, or the default of the family.                   *)
ParseMaskPart(mask, a, any) ==
    IF mask.kind # "none" THEN
        LET w == WrittenMaskBits(mask, a.family)
            mapped == a.family = AF_INET6 /\ IsV4(a)
        IN IF ~w.ok THEN w
           ELSE IF mapped /\ w.bits > 32 /\ w.bits < 96 THEN [ok |-> FALSE, bits |-> 0]
           ELSE IF any THEN [ok |-> FALSE, bits |-> 0]
           ELSE [ok |-> TRUE, bits |-> IF mapped THEN 96 + (w.bits % 32) ELSE w.bits]
    ELSE [ok |-> TRUE,
          bits |-> CASE any -> 0
                     [] a.family = AF_INET -> 32
                     [] a.family = AF_INET6 -> 128
                     [] OTHER -> 0]

(* The port portion: a range, or one port when the caller wants one. *)
ParsePortsPart(port, wantMax) ==
    LET r == ParsePortRange(port)
    IN IF r.ok /\ ~wantMax /\ r.min # r.max THEN [r EXCEPT !.ok = FALSE] ELSE r

ParseError == [ret |-> -1, addr |-> MakeUnspec, bits |-> 0, pmin |-> 0, pmax |-> 0]

(* tor_addr_parse_mask_ports(s, flags, addr_out, maskbits_out,            *)
(* port_min_out, port_max_out); call.wantMask etc. say which out          *)
(* pointers are non-NULL.                                                  *)
ParseWithParts(call, ap) ==
    LET s == call.s
        mp == ParseMaskPart(s.mask, ap.addr, ap.any)
        pp == ParsePortsPart(s.port, call.wantMax)
    IN IF call.wantMask /\ ~mp.ok THEN ParseError
       ELSE IF ~call.wantMask /\ s.mask.kind # "none" THEN ParseError
       ELSE IF call.wantMin /\ ~pp.ok THEN ParseError
       ELSE IF ~call.wantMin /\ s.port.kind # "none" THEN ParseError
       ELSE [ret |-> ap.addr.family, addr |-> ap.addr,
             bits |-> IF call.wantMask THEN mp.bits ELSE 0,
             pmin |-> IF call.wantMin THEN pp.min ELSE 0,
             pmax |-> IF call.wantMin /\ call.wantMax THEN pp.max ELSE 0]
ParseMaskPorts(call) ==
    IF call.s.bracket /\ ~call.s.closed THEN ParseError
    ELSE LET ap == ParseAddressPart(call.s.addr, call.flags)
         IN IF ~ap.ok THEN ParseError ELSE ParseWithParts(call, ap)
-----------------------------------------------------------------------------
(* An "host[:port]" text, as the functions below see it: bracket says the *)
(* address is written inside '[' and ']'; inner is what tor_inet_pton     *)
(* reads from the address (MakeUnspec when it reads nothing); port is the *)
(* text after the last ':' (kind "none" when there is no ':', "empty",    *)
(* "junk", or "num" with the value n); whole is what tor_inet_pton        *)
(* AF_INET6 reads from the unbracketed text with its port, as "::1:80"    *)
(* reads as ::1:80 (MakeUnspec when it reads nothing).  An address text   *)
(* holds a ':' only where it is IPv6.                                     *)
NoPort == [kind |-> "none", n |-> 0]

(* tor_addr_parse_impl(addr, src, allow_ipv6_without_brackets) *)
ParseImplV4Bracketed(bracket, inner, allowNoBrackets) ==
    CASE inner.family = AF_INET6 /\ (bracket \/ allowNoBrackets) ->
            [ret |-> AF_INET6, addr |-> inner]
      [] inner.family = AF_INET -> [ret |-> AF_INET, addr |-> inner]
      [] OTHER -> [ret |-> -1, addr |-> MakeUnspec]
ParseImpl(bracket, inner, allowNoBrackets) ==
    CASE inner.family = AF_INET6 /\ (bracket \/ allowNoBrackets) ->
            [ret |-> AF_INET6, addr |-> inner]
      [] inner.family = AF_INET /\ ~bracket -> [ret |-> AF_INET, addr |-> inner]
      [] OTHER -> [ret |-> -1, addr |-> MakeUnspec]

(* tor_addr_parse: brackets are detected only when the text ends in ']'. *)
AddrParse(t) ==
    IF t.port.kind = "none" THEN ParseImpl(t.bracket, t.inner, TRUE)
    ELSE ParseImpl(FALSE, t.whole, TRUE)

(* tor_addr_port_split: atext is the address text it hands back. *)
AddrPortSplit(t) ==
    IF AddrParse(t).ret = AF_INET6
    THEN [ok |-> TRUE, port |-> 0,
          atext |-> IF t.port.kind = "none" THEN t
                    ELSE [t EXCEPT !.bracket = FALSE, !.inner = t.whole,
                                   !.port = NoPort]]
    ELSE IF t.port.kind = "none" THEN [ok |-> TRUE, port |-> 0, atext |-> t]
    ELSE LET ok == t.port.kind = "num" /\ ParseLongOk(t.port.n, 1, 65535)
         IN [ok |-> ok, port |-> IF ok THEN t.port.n ELSE 0,
             atext |-> [t EXCEPT !.port = NoPort, !.whole = MakeUnspec]]

(* tor_addr_port_parse(severity, addrport, address_out, port_out,         *)
(* default_port): on error both outputs are cleared.                      *)
AddrPortParse(t, defaultPort) ==
    LET sp == AddrPortSplit(t)
        hasPort == sp.port # 0
        fail == [ret |-> -1, addr |-> MakeUnspec, port |-> 0]
    IN IF ~sp.ok \/ (~hasPort /\ defaultPort < 0) THEN fail
       ELSE LET p == ParseImpl(sp.atext.bracket, sp.atext.inner, ~hasPort)
            IN IF p.ret = -1 THEN fail
               ELSE [ret |-> 0, addr |-> p.addr,
                     port |-> IF hasPort THEN sp.port ELSE defaultPort]
=============================================================================
