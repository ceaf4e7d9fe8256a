--------------------------------- MODULE IPv4 ---------------------------------
(***************************************************************************)
(* IPv4 addresses with their masks, and the arithmetic flota does on them.  *)
(*                                                                          *)
(* The code works on bit vectors.  An octet of a mask is 256 - b for a      *)
(* block size b that is a power of two, so that the network part of an      *)
(* octet a is a - a % b and its host part is a % b.                         *)
(*                                                                          *)
(* Source: src/util/ipv4.rs.                                                *)
(***************************************************************************)
EXTENDS Integers, FiniteSets

Octets == 1..4
Octet  == 0..255
MaskOctet == {0, 128, 192, 224, 240, 248, 252, 254, 255}

\* from_cidr_notation wants at least one bit of mask.
Contiguous(m) == m[1] # 0 /\ \A k \in 1..3 : m[k] # 255 => m[k + 1] = 0

IPv4 == {ip \in [addr : [Octets -> Octet], mask : [Octets -> MaskOctet]] : Contiguous(ip.mask)}

Block(ip, k)   == 256 - ip.mask[k]
HostPart(ip, k) == ip.addr[k] % Block(ip, k)

\* The mask of a prefix, from its length.
MaskOf(bits) ==
    [k \in Octets |->
        LET b == bits - 8 * (k - 1)
        IN  CASE b <= 0 -> 0 [] b >= 8 -> 255 [] OTHER -> 256 - 2^(8 - b)]

FromCidr(addr, bits) == [addr |-> addr, mask |-> MaskOf(bits)]

NwAddr(ip) ==
    [ip EXCEPT !.addr = [k \in Octets |-> ip.addr[k] - HostPart(ip, k)]]

\* The i32 as four octets, the most significant one first.
Weight == <<16777216, 65536, 256, 1>>
Digit(n, k) == (n \div Weight[k]) % 256

NthSibling(ip, n) ==
    [ip EXCEPT !.addr = [k \in Octets |->
        ip.addr[k] - HostPart(ip, k) + (Digit(n, k) % Block(ip, k))]]

LargestSibling(ip) ==
    [ip EXCEPT !.addr = [k \in Octets |->
        ip.addr[k] - HostPart(ip, k) + Block(ip, k) - 1]]

\* "already highest possible node id", "already lowest possible node id".
IsHighest(ip) == \A k \in Octets : HostPart(ip, k) = Block(ip, k) - 1
IsLowest(ip)  == \A k \in Octets : HostPart(ip, k) = 0

\* The octet that the carry of incr_node_id stops at, if any.  An octet with
\* some mask is taken to be full one below its mask.
IncrStop(ip) ==
    LET Stops(k) == ip.mask[k] = 0 \/ ip.addr[k] < ip.mask[k] - 1
    IN  {k \in Octets : Stops(k) /\ \A j \in (k + 1)..4 : ~Stops(j)}

\* An octet without mask may be full all the same: + 1 panics or is 0, as built.
IncrNodeId(ip) ==
    [ip EXCEPT !.addr = [k \in Octets |->
        IF k \in IncrStop(ip) THEN (ip.addr[k] + 1) % 256
        ELSE IF \E j \in IncrStop(ip) : k < j THEN ip.addr[k] ELSE 0]]

DecrStop(ip) ==
    {k \in Octets : ip.addr[k] > 0 /\ \A j \in (k + 1)..4 : ip.addr[j] = 0}

DecrNodeId(ip) ==
    [ip EXCEPT !.addr = [k \in Octets |->
        IF k \in DecrStop(ip) THEN ip.addr[k] - 1
        ELSE IF \E j \in DecrStop(ip) : k < j THEN ip.addr[k] ELSE 255]]

-----------------------------------------------------------------------------
(***************************************************************************)
(* What the arithmetic is measured against.                                 *)
(***************************************************************************)
SameSubnet(x, y) == x.mask = y.mask /\ NwAddr(x).addr = NwAddr(y).addr

\* Address and mask are what hyphenated() writes, so they name a network.
\* Ordinary: the subnet has room for a bridge, and unless it is at least a /24
\* it is not the last one within its last octet.
Ordinary(ip) ==
    /\ ip.mask[4] # 255
    /\ ip.mask[4] # 0 => NwAddr(ip).addr[4] # ip.mask[4]
=============================================================================
