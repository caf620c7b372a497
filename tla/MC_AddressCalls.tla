--------------------------- MODULE MC_AddressCalls ---------------------------
(***************************************************************************)
(* Linux's address family numbers, and small samples that reach every     *)
(* branch of address.c:                                                    *)
(*  - addresses: private, public, loopback and null IPv4; IPv6 loopback,  *)
(*    null, link-local and global; v4-mapped forms of a private and a     *)
(*    public IPv4 address, and a neighbour of the public one that differs  *)
(*    in its last bit; two AF_UNIX objects; AF_UNSPEC;                     *)
(*  - masks around the byte, word and ::ffff: boundaries, and above 128;  *)
(*  - patterns: the wildcards, an IPv4, an IPv6 and a v4-mapped literal,  *)
(*    bracketed or not and with a missing ']'; integer masks around 0,    *)
(*    32, 96 and 128, an empty mask, prefix and non-prefix dotted masks   *)
(*    and junk; no port, ":", ":*", one port (0, 80, 65536), ranges in    *)
(*    and out of order and junk; every allowed flag set and every choice  *)
(*    of out pointers.                                                     *)
(***************************************************************************)
EXTENDS AddressCalls

MC_AF_UNSPEC == 0
MC_AF_UNIX == 1
MC_AF_INET == 2
MC_AF_INET6 == 10

V4(a, b, c, d) == FromIpv4(<<a, b, c, d>>)
V6(head, tail) == FromIpv6Bytes(head \o Zeros(16 - Len(head) - Len(tail)) \o tail)
Mapped(a, b, c, d) == V6(<<>>, <<\hff, \hff, a, b, c, d>>)

MC_Addrs ==
    { V4(10, 1, 2, 3), V4(1, 2, 3, 4), V4(127, 0, 0, 1), V4(0, 0, 0, 0),
      V6(<<>>, <<1>>), V6(<<>>, <<>>), V6(<<\hfe, \h80>>, <<1>>),
      V6(<<\h20, \h01, \h0d, \hb8>>, <<1>>),
      Mapped(10, 1, 2, 3), Mapped(1, 2, 3, 4), Mapped(1, 2, 3, 5),
      MakeAfUnix(1), MakeAfUnix(2), MakeUnspec }

MC_MaskBits == {0, 1, 4, 9, 31, 32, 100, 127, 128, 200}

NoLit == MakeUnspec
Lits == {V4(1, 2, 3, 4), V6(<<>>, <<1>>), Mapped(1, 2, 3, 4)}
AddrTexts ==
    {[kind |-> k, lit |-> NoLit] : k \in {"*", "*4", "*6", "junk"}}
      \cup {[kind |-> "lit", lit |-> a] : a \in Lits}
MaskTexts ==
    {[kind |-> k, n |-> 0, o |-> Zeros(4)] : k \in {"none", "empty", "junk"}}
      \cup {[kind |-> "int", n |-> n, o |-> Zeros(4)] :
              n \in {-1, 0, 24, 32, 33, 100, 128, 129}}
      \cup {[kind |-> "v4", n |-> 0, o |-> o] :
              o \in {<<\hff, \hff, \hff, 0>>, <<\hff, 0, \hff, 0>>}}
PortTexts ==
    {[kind |-> k, lo |-> 0, hi |-> 0] : k \in {"none", "empty", "*", "junk"}}
      \cup {[kind |-> "one", lo |-> n, hi |-> 0] : n \in {0, 80, 65536}}
      \cup {[kind |-> "range", lo |-> r[1], hi |-> r[2]] :
              r \in {<<0, 80>>, <<80, 80>>, <<80, 22>>, <<1, 65535>>}}
Patterns ==
    {p \in [bracket : BOOLEAN, closed : BOOLEAN, addr : AddrTexts,
            mask : MaskTexts, port : PortTexts] :
        /\ p.addr.lit.family = AF_INET6 => p.bracket
        /\ ~p.bracket => ~p.closed}
FlagSets ==
    {{}, {"EXTENDED_STAR"}, {"EXTENDED_STAR", "STAR_IPV4_ONLY"},
     {"EXTENDED_STAR", "STAR_IPV6_ONLY"}, {"STAR_IPV4_ONLY"}}
MC_Calls ==
    {c \in [s : Patterns, flags : FlagSets, wantMask : BOOLEAN,
            wantMin : BOOLEAN, wantMax : BOOLEAN] : c.wantMax => c.wantMin}

(* Texts of "host[:port]": an IPv4 address, an IPv6 address with "::"   *)
(* (::1), one with all eight groups (1:2:3:4:5:6:7:8) and junk, each   *)
(* bracketed or not, followed by no port, ":", a junk port or the ports *)
(* 0, 80, 65535 and 65536; default_port -1, 0 and 9050.                 *)
V6One == FromIpv6Bytes(Zeros(15) \o <<1>>)
V6Full == FromIpv6Bytes(<<0, 1, 0, 2, 0, 3, 0, 4, 0, 5, 0, 6, 0, 7, 0, 8>>)
Inners == {FromIpv4(<<1, 2, 3, 4>>), V6One, V6Full, MakeUnspec}

Ports ==
    {[kind |-> k, n |-> 0] : k \in {"none", "empty", "junk"}}
    \cup {[kind |-> "num", n |-> n] : n \in {0, 80, 65535, 65536}}

(* What tor_inet_pton AF_INET6 reads from "::1:<digits>": the decimal    *)
(* digits, at most four, are one more hexadecimal group after ::1.        *)
HexGroup(n) ==
    <<(n \div 1000) * 16 + ((n \div 100) % 10), ((n \div 10) % 10) * 16 + (n % 10)>>
Whole(bracket, inner, port) ==
    IF ~bracket /\ inner = V6One /\ port.kind = "num" /\ port.n < 10000
    THEN FromIpv6Bytes(Zeros(12) \o <<0, 1>> \o HexGroup(port.n))
    ELSE MakeUnspec

MC_Texts ==
    {[bracket |-> b, inner |-> i, port |-> p, whole |-> Whole(b, i, p)] :
        b \in BOOLEAN, i \in Inners, p \in Ports}
MC_Defaults == {-1, 0, 9050}
=============================================================================
