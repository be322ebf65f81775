-------------------------------- MODULE IpAcl --------------------------------
(***************************************************************************)
(* The block and allow lists of a worker (ip_acl.c): how worker_main loads *)
(* them from files of lines, and what ip_acl_check then says of a client.  *)
(*                                                                         *)
(* An address is AddrBytes bytes of ByteBits bits, 16 of 8 in the code.    *)
(* Its last V4Bytes bytes (4 in the code) hold an IPv4 address when the    *)
(* bytes before them are the mapped prefix.  A line is what the parser     *)
(* makes of its text: the kind of address, the address, and the number     *)
(* after the slash.                                                        *)
(***************************************************************************)
EXTENDS Integers

CONSTANTS AddrBytes, ByteBits, V4Bytes,
          V4Prefix,                       \* the bytes before an IPv4 address
          MaxLines                        \* bound on the lines of both files

(* 1 << n.                                                                 *)
Pow2[n \in Nat] == IF n = 0 THEN 1 ELSE 2 * Pow2[n - 1]

Byte == 0..(Pow2[ByteBits] - 1)

ASSUME IpAclAssumption ==
    /\ AddrBytes \in Nat \ {0}
    /\ ByteBits \in Nat \ {0}
    /\ V4Bytes \in 1..(AddrBytes - 1)
    /\ V4Prefix \in [1..(AddrBytes - V4Bytes) -> Byte]
    /\ MaxLines \in Nat

Addr == [1..AddrBytes -> Byte]

(* The bits of an address that precede the IPv4 part: 96 in the code.      *)
V4Offset == (AddrBytes - V4Bytes) * ByteBits

(* ::ffff:0:0/96 in the code.                                              *)
Mapped == {a \in Addr : \A i \in 1..(AddrBytes - V4Bytes) : a[i] = V4Prefix[i]}

(* Lines.  "ip4" and "ip6" have no slash.  A prefix that is not a number   *)
(* has numeric = FALSE.  "skipped" stands for empty lines, comments, and   *)
(* lines whose address inet_pton refuses.                                  *)
PrefixText == [numeric : {TRUE}, value : -1..(AddrBytes * ByteBits + 1)]
              \cup [numeric : {FALSE}, value : {0}]

NoPrefix == [numeric |-> FALSE, value |-> 0]
NoAddr == [i \in 1..AddrBytes |-> 0]

Line ==
    [kind : {"ip4"}, addr : Mapped, prefix : {NoPrefix}]
    \cup [kind : {"ip6"}, addr : Addr, prefix : {NoPrefix}]
    \cup [kind : {"cidr4"}, addr : Mapped, prefix : PrefixText]
    \cup [kind : {"cidr6"}, addr : Addr, prefix : PrefixText]
    \cup [kind : {"skipped"}, addr : {NoAddr}, prefix : {NoPrefix}]

VARIABLES ip_acl,                         \* the IpACLContext
          phase,                          \* what worker_main is doing
          line_num,                       \* lines read, of both files
          lines                           \* history: the lines taken, by list

acl_vars == <<ip_acl, phase, line_num, lines>>

Lists == {"blocklist", "allowlist"}

AclTypeOK ==
    /\ ip_acl \in [Lists -> [exact : SUBSET Addr,
                            cidr : SUBSET (Addr \X (0..(AddrBytes * ByteBits)))]]
    /\ lines \in [Lists -> SUBSET Line]
    /\ phase \in Lists \cup {"serving"}
    /\ line_num \in 0..MaxLines

(* ip_acl_context_init.                                                    *)
AclInit ==
    /\ ip_acl = [l \in Lists |-> [exact |-> {}, cidr |-> {}]]
    /\ phase = "blocklist"
    /\ line_num = 0
    /\ lines = [l \in Lists |-> {}]
-----------------------------------------------------------------------------
(* atoi gives 0 for what is not a number.                                  *)
atoi(prefix) == IF prefix.numeric THEN prefix.value ELSE 0

(* Faulty variant: the upper end of the range is not checked.              *)
FaultyPrefixOk(line) == atoi(line.prefix) >= 0

prefix_ok(line) ==
    /\ atoi(line.prefix) >= 0
    /\ line.kind = "cidr4" => atoi(line.prefix) <= V4Bytes * ByteBits
    /\ line.kind = "cidr6" => atoi(line.prefix) <= AddrBytes * ByteBits

(* Faulty variant: the prefix of an IPv4 range is not converted.           *)
FaultyParseCidr(line) == atoi(line.prefix)

parse_cidr(line) ==
    IF line.kind = "cidr4" THEN V4Offset + atoi(line.prefix) ELSE atoi(line.prefix)

(* x & (0xff << (8 - bits)), up to the zeros on its right.                 *)
mask(x, bits) == x \div Pow2[ByteBits - bits]

cidr_match(addr, network, prefix_len) ==
    LET full_bytes == prefix_len \div ByteBits
        remaining_bits == prefix_len % ByteBits
    IN  /\ \A i \in 1..full_bytes : addr[i] = network[i]
        /\ (remaining_bits > 0 /\ full_bytes < AddrBytes)
           => mask(addr[full_bytes + 1], remaining_bits)
              = mask(network[full_bytes + 1], remaining_bits)

ip_acl_contains(acl, addr) ==
    \/ addr \in acl.exact
    \/ \E e \in acl.cidr : cidr_match(addr, e[1], e[2])

(* Faulty variant: the allowlist is looked at first.                       *)
FaultyCheck(ctx, addr) ==
    IF ip_acl_contains(ctx["allowlist"], addr) THEN "ALLOW"
    ELSE IF ip_acl_contains(ctx["blocklist"], addr) THEN "BLOCK"
    ELSE "NEUTRAL"

ip_acl_check(ctx, addr) ==
    IF ip_acl_contains(ctx["blocklist"], addr) THEN "BLOCK"
    ELSE IF ip_acl_contains(ctx["allowlist"], addr) THEN "ALLOW"
    ELSE "NEUTRAL"
-----------------------------------------------------------------------------
(* ip_acl_load_file reads a line into the list being loaded.               *)
fgets == phase \in Lists /\ line_num < MaxLines /\ line_num' = line_num + 1

takes(line, acl) ==
    /\ ip_acl' = [ip_acl EXCEPT ![phase] = acl]
    /\ lines' = [lines EXCEPT ![phase] = @ \cup {line}]
    /\ UNCHANGED phase

(* An exact address; one that is there already is not entered twice.       *)
add_exact_entry(line) ==
    /\ fgets
    /\ line.kind \in {"ip4", "ip6"}
    /\ takes(line, [ip_acl[phase] EXCEPT !.exact = @ \cup {line.addr}])

(* A range.                                                                *)
add_cidr_entry(line) ==
    /\ fgets
    /\ line.kind \in {"cidr4", "cidr6"}
    /\ prefix_ok(line)
    /\ takes(line, [ip_acl[phase] EXCEPT
                       !.cidr = @ \cup {<<line.addr, parse_cidr(line)>>}])

(* Nothing to enter, a prefix out of range, or no memory for a new entry:  *)
(* the line is passed over.                                                *)
skip_line(line) ==
    /\ fgets
    /\ \/ line.kind = "skipped"
       \/ line.kind \in {"cidr4", "cidr6"}
          /\ (prefix_ok(line) => <<line.addr, parse_cidr(line)>> \notin ip_acl[phase].cidr)
       \/ line.kind \in {"ip4", "ip6"} /\ line.addr \notin ip_acl[phase].exact
    /\ UNCHANGED <<ip_acl, phase, lines>>

(* The end of a file, one that cannot be opened, or one not configured:    *)
(* worker_main goes on, in the last two cases with an empty list.          *)
load_ends ==
    /\ phase \in Lists
    /\ phase' = IF phase = "blocklist" THEN "allowlist" ELSE "serving"
    /\ UNCHANGED <<ip_acl, lines, line_num>>

AclNext ==
    \/ \E line \in Line : \/ add_exact_entry(line)
                          \/ add_cidr_entry(line)
                          \/ skip_line(line)
    \/ load_ends

AclSpec == AclInit /\ [][AclNext]_acl_vars
-----------------------------------------------------------------------------
(* What a line means, bit by bit.                                          *)

Bit(addr, i) ==
    (addr[i \div ByteBits + 1] \div Pow2[ByteBits - 1 - (i % ByteBits)]) % 2

SameBits(a, b, from, n) == \A i \in from..(from + n - 1) : Bit(a, i) = Bit(b, i)

(* An IPv4 range covers only mapped addresses, and counts its bits from    *)
(* the start of the IPv4 part.                                             *)
Covers(line, addr) ==
    \/ line.kind \in {"ip4", "ip6"} /\ addr = line.addr
    \/ /\ line.kind = "cidr4"
       /\ addr \in Mapped
       /\ SameBits(addr, line.addr, V4Offset, atoi(line.prefix))
    \/ /\ line.kind = "cidr6"
       /\ SameBits(addr, line.addr, 0, atoi(line.prefix))

Listed(l, addr) == \E line \in lines[l] : Covers(line, addr)
-----------------------------------------------------------------------------
(* Properties.                                                             *)

(* What ip_acl_contains finds with bytes and masks is what the lines that  *)
(* were taken mean bit by bit, for every address and any mix of lines.     *)
ContainsListed ==
    \A l \in Lists : \A addr \in Addr :
       ip_acl_contains(ip_acl[l], addr) <=> Listed(l, addr)

(* ip_acl_check blocks exactly the clients that a block line covers, even  *)
(* those that an allow line covers as well, and lets only clients that are *)
(* covered by an allow line and no block line past the rate limiter.       *)
VerdictSound ==
    \A addr \in Addr :
       LET verdict == ip_acl_check(ip_acl, addr)
       IN  /\ verdict = "BLOCK" <=> Listed("blocklist", addr)
           /\ verdict = "ALLOW" <=> /\ Listed("allowlist", addr)
                                    /\ ~Listed("blocklist", addr)
=============================================================================
