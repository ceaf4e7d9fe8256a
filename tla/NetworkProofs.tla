----------------------------- MODULE NetworkProofs -----------------------------
(***************************************************************************)
(* That the two ways in which the code works out a host's network agree on  *)
(* every ordinary address, and what follows for domains and guests, in any  *)
(* installation and whatever crashes.                                       *)
(***************************************************************************)
EXTENDS Network, TLAPS, WellFoundedInduction

-----------------------------------------------------------------------------
(***************************************************************************)
(* Octets and masks.                                                        *)
(***************************************************************************)

\* An octet is its network part and its host part, whatever the host part.
LEMMA OctetSplit ==
    ASSUME NEW a \in Octet, NEW m \in MaskOctet
    PROVE  /\ a % (256 - m) \in 0..(255 - m)
           /\ a - (a % (256 - m)) \in 0..m
           /\ \A x \in 0..(255 - m) :
                 /\ a - (a % (256 - m)) + x \in Octet
                 /\ (a - (a % (256 - m)) + x) % (256 - m) = x
<1>1. CASE m = 0
  <2>1. a % 256 \in 0..255 /\ a \div 256 \in 0..0 /\ a = 256 * (a \div 256) + (a % 256)
        BY DEF Octet
  <2>2. ASSUME NEW x \in 0..255
        PROVE  /\ 256 * (a \div 256) + x \in Octet
               /\ (256 * (a \div 256) + x) % 256 = x
        BY <2>1 DEF Octet
  <2>3. 256 - m = 256 /\ 255 - m = 255 /\ a - (a % 256) = 256 * (a \div 256)
        BY <1>1, <2>1
  <2>4. 256 * (a \div 256) \in 0..m
        BY <1>1, <2>1
  <2>5. a - (a % (256 - m)) = 256 * (a \div 256)
        BY <2>3
  <2>6. ASSUME NEW x \in 0..(255 - m)
        PROVE  /\ a - (a % (256 - m)) + x \in Octet
               /\ (a - (a % (256 - m)) + x) % (256 - m) = x
    <3>1. x \in 0..255
          BY <2>3
    <3>2. a - (a % (256 - m)) + x = 256 * (a \div 256) + x
          BY <2>5
    <3> QED BY <2>2, <2>3, <3>1, <3>2
  <2>7. a % (256 - m) \in 0..(255 - m)
        BY <2>1, <2>3
  <2> QED BY <2>4, <2>5, <2>6, <2>7
<1>2. CASE m = 128
  <2>1. a % 128 \in 0..127 /\ a \div 128 \in 0..1 /\ a = 128 * (a \div 128) + (a % 128)
        BY DEF Octet
  <2>2. ASSUME NEW x \in 0..127
        PROVE  /\ 128 * (a \div 128) + x \in Octet
               /\ (128 * (a \div 128) + x) % 128 = x
        BY <2>1 DEF Octet
  <2>3. 256 - m = 128 /\ 255 - m = 127 /\ a - (a % 128) = 128 * (a \div 128)
        BY <1>2, <2>1
  <2>4. 128 * (a \div 128) \in 0..m
        BY <1>2, <2>1
  <2>5. a - (a % (256 - m)) = 128 * (a \div 128)
        BY <2>3
  <2>6. ASSUME NEW x \in 0..(255 - m)
        PROVE  /\ a - (a % (256 - m)) + x \in Octet
               /\ (a - (a % (256 - m)) + x) % (256 - m) = x
    <3>1. x \in 0..127
          BY <2>3
    <3>2. a - (a % (256 - m)) + x = 128 * (a \div 128) + x
          BY <2>5
    <3> QED BY <2>2, <2>3, <3>1, <3>2
  <2>7. a % (256 - m) \in 0..(255 - m)
        BY <2>1, <2>3
  <2> QED BY <2>4, <2>5, <2>6, <2>7
<1>3. CASE m = 192
  <2>1. a % 64 \in 0..63 /\ a \div 64 \in 0..3 /\ a = 64 * (a \div 64) + (a % 64)
        BY DEF Octet
  <2>2. ASSUME NEW x \in 0..63
        PROVE  /\ 64 * (a \div 64) + x \in Octet
               /\ (64 * (a \div 64) + x) % 64 = x
        BY <2>1 DEF Octet
  <2>3. 256 - m = 64 /\ 255 - m = 63 /\ a - (a % 64) = 64 * (a \div 64)
        BY <1>3, <2>1
  <2>4. 64 * (a \div 64) \in 0..m
        BY <1>3, <2>1
  <2>5. a - (a % (256 - m)) = 64 * (a \div 64)
        BY <2>3
  <2>6. ASSUME NEW x \in 0..(255 - m)
        PROVE  /\ a - (a % (256 - m)) + x \in Octet
               /\ (a - (a % (256 - m)) + x) % (256 - m) = x
    <3>1. x \in 0..63
          BY <2>3
    <3>2. a - (a % (256 - m)) + x = 64 * (a \div 64) + x
          BY <2>5
    <3> QED BY <2>2, <2>3, <3>1, <3>2
  <2>7. a % (256 - m) \in 0..(255 - m)
        BY <2>1, <2>3
  <2> QED BY <2>4, <2>5, <2>6, <2>7
<1>4. CASE m = 224  BY <1>4, SMTT(40) DEF Octet
<1>5. CASE m = 240  BY <1>5, SMTT(40) DEF Octet
<1>6. CASE m = 248  BY <1>6, SMTT(40) DEF Octet
<1>7. CASE m = 252  BY <1>7, SMTT(40) DEF Octet
<1>8. CASE m = 254  BY <1>8, SMTT(40) DEF Octet
<1>9. CASE m = 255  BY <1>9, SMTT(40) DEF Octet
<1> QED BY <1>1, <1>2, <1>3, <1>4, <1>5, <1>6, <1>7, <1>8, <1>9 DEF MaskOctet

\* A whole number of blocks that is not the last one of its octet is below
\* what the carry takes for full.
LEMMA NotTheLast ==
    ASSUME NEW a \in Octet, NEW m \in MaskOctet,
           m \notin {0, 255}, a - (a % (256 - m)) # m
    PROVE  a - (a % (256 - m)) < m - 1
<1>2. CASE m = 128  BY <1>2 DEF Octet
<1>3. CASE m = 192  BY <1>3 DEF Octet
<1>4. CASE m = 224  BY <1>4 DEF Octet
<1>5. CASE m = 240  BY <1>5 DEF Octet
<1>6. CASE m = 248  BY <1>6 DEF Octet
<1>7. CASE m = 252  BY <1>7 DEF Octet
<1>8. CASE m = 254  BY <1>8 DEF Octet
<1> QED BY <1>2, <1>3, <1>4, <1>5, <1>6, <1>7, <1>8 DEF MaskOctet

LEMMA AddressTypes ==
    ASSUME NEW ip \in IPv4, NEW j \in Octets
    PROVE  ip.addr[j] \in Octet /\ ip.mask[j] \in MaskOctet /\ ip.mask[j] \in 0..255
BY DEF IPv4, MaskOctet

LEMMA DigitType == ASSUME NEW n \in Int, NEW j \in Octets
                   PROVE  Digit(n, j) \in Octet
<1>1. Weight[j] \in Nat \ {0}
      BY DEF Weight, Octets
<1> QED BY <1>1 DEF Digit, Octet

\* Every sibling is in the subnet, and is its own network's.
LEMMA SiblingStays ==
    ASSUME NEW ip \in IPv4, NEW n \in Int
    PROVE  NthSibling(ip, n) \in IPv4 /\ SameSubnet(NthSibling(ip, n), ip)
<1> DEFINE s == NthSibling(ip, n)
<1>1. s.mask = ip.mask /\ s.addr = [j \in Octets |->
          ip.addr[j] - HostPart(ip, j) + (Digit(n, j) % Block(ip, j))]
      BY DEF NthSibling, IPv4
<1>2. ASSUME NEW j \in Octets
      PROVE  s.addr[j] \in Octet /\ s.addr[j] - HostPart(s, j) = ip.addr[j] - HostPart(ip, j)
  <2>1. Digit(n, j) % Block(ip, j) \in 0..(255 - ip.mask[j])
        BY AddressTypes, DigitType, OctetSplit DEF Block
  <2>2. s.addr[j] \in Octet
        BY <1>1, <2>1, AddressTypes, OctetSplit DEF HostPart, Block
  <2>3. s.addr[j] % Block(ip, j) = Digit(n, j) % Block(ip, j)
        BY <1>1, <2>1, AddressTypes, OctetSplit DEF HostPart, Block
  <2>4. HostPart(s, j) = Digit(n, j) % Block(ip, j)
        BY <1>1, <2>3 DEF HostPart, Block
  <2>5. ip.addr[j] - HostPart(ip, j) \in Int /\ Digit(n, j) % Block(ip, j) \in Int
        BY <2>1, AddressTypes, OctetSplit DEF HostPart, Block
  <2> QED BY <1>1, <2>2, <2>4, <2>5
<1>3. NwAddr(s).addr = NwAddr(ip).addr
      BY <1>1, <1>2 DEF NwAddr, IPv4, NthSibling
<1> QED BY <1>1, <1>2, <1>3 DEF SameSubnet, IPv4, NthSibling

\* The least address of a subnet has no host part.
LEMMA NetworkHasNoHost ==
    ASSUME NEW ip \in IPv4
    PROVE  /\ NwAddr(ip) \in IPv4 /\ NwAddr(ip).mask = ip.mask
           /\ \A j \in Octets :
                 /\ NwAddr(ip).addr[j] = ip.addr[j] - HostPart(ip, j)
                 /\ NwAddr(ip).addr[j] \in 0..ip.mask[j]
                 /\ HostPart(NwAddr(ip), j) = 0
<1>1. /\ NwAddr(ip).mask = ip.mask
      /\ NwAddr(ip).addr = [j \in Octets |-> ip.addr[j] - HostPart(ip, j)]
      BY DEF NwAddr, IPv4
<1>2. ASSUME NEW j \in Octets
      PROVE  /\ ip.addr[j] - HostPart(ip, j) \in 0..ip.mask[j]
             /\ ip.addr[j] - HostPart(ip, j) \in Octet
             /\ HostPart(NwAddr(ip), j) = 0
  <2>1. 0 \in 0..(255 - ip.mask[j])
        BY AddressTypes
  <2>2. ip.addr[j] - HostPart(ip, j) \in 0..ip.mask[j]
        BY OctetSplit, AddressTypes DEF HostPart, Block
  <2>3. ip.addr[j] - HostPart(ip, j) + 0 \in Octet
        BY <2>1, OctetSplit, AddressTypes DEF HostPart, Block
  <2>4. (ip.addr[j] - HostPart(ip, j) + 0) % Block(ip, j) = 0
        BY <2>1, OctetSplit, AddressTypes DEF HostPart, Block
  <2>5. ip.addr[j] - HostPart(ip, j) + 0 = ip.addr[j] - HostPart(ip, j)
        BY <2>2, AddressTypes
  <2> QED BY <1>1, <2>2, <2>3, <2>4, <2>5 DEF HostPart, Block
<1> QED BY <1>1, <1>2 DEF IPv4, NwAddr

\* What the tests of ipv4.rs see of one address: below the network's address
\* and above the largest sibling there is nothing, and both are in the subnet.
THEOREM EndsOfSubnet ==
    ASSUME NEW ip \in IPv4
    PROVE  /\ IsLowest(NwAddr(ip)) /\ SameSubnet(NwAddr(ip), ip)
           /\ IsHighest(LargestSibling(ip)) /\ SameSubnet(LargestSibling(ip), ip)
<1> DEFINE nw == NwAddr(ip)
           ls == LargestSibling(ip)
<1>1. /\ nw \in IPv4 /\ nw.mask = ip.mask
      /\ \A j \in Octets : nw.addr[j] = ip.addr[j] - HostPart(ip, j) /\ HostPart(nw, j) = 0
      BY NetworkHasNoHost
<1>2. IsLowest(nw)
      BY <1>1 DEF IsLowest
<1>3. ASSUME NEW j \in Octets PROVE nw.addr[j] - HostPart(nw, j) = nw.addr[j]
  <2>1. nw.addr[j] \in Octet
        BY <1>1, AddressTypes
  <2>2. HostPart(nw, j) = 0
        BY <1>1
  <2> QED BY <2>1, <2>2 DEF Octet
<1>4. SameSubnet(nw, ip)
  <2>1. NwAddr(nw).addr = [j \in Octets |-> nw.addr[j] - HostPart(nw, j)]
        BY <1>1 DEF NwAddr, IPv4
  <2>2. nw.addr = [j \in Octets |-> nw.addr[j]]
        BY <1>1 DEF IPv4
  <2> QED BY <1>1, <1>3, <2>1, <2>2 DEF SameSubnet
<1>5. /\ ls.mask = ip.mask
      /\ ls.addr = [j \in Octets |-> ip.addr[j] - HostPart(ip, j) + Block(ip, j) - 1]
      BY DEF LargestSibling, IPv4
<1>6. ASSUME NEW j \in Octets
      PROVE  /\ HostPart(ls, j) = Block(ls, j) - 1
             /\ ls.addr[j] - HostPart(ls, j) = ip.addr[j] - HostPart(ip, j)
  <2>1. 255 - ip.mask[j] \in 0..(255 - ip.mask[j]) /\ Block(ip, j) - 1 = 255 - ip.mask[j]
    <3>1. ip.mask[j] \in 0..255
          BY AddressTypes
    <3> QED BY <3>1 DEF Block
  <2>2. ip.addr[j] - HostPart(ip, j) \in 0..ip.mask[j]
        BY OctetSplit, AddressTypes DEF HostPart, Block
  <2>3. (ip.addr[j] - HostPart(ip, j) + (255 - ip.mask[j])) % Block(ip, j) = 255 - ip.mask[j]
        BY <2>1, OctetSplit, AddressTypes DEF HostPart, Block
  <2>4. ls.addr[j] = ip.addr[j] - HostPart(ip, j) + (255 - ip.mask[j])
        BY <1>5, <2>1, <2>2, AddressTypes DEF Block
  <2>5. HostPart(ls, j) = 255 - ip.mask[j] /\ Block(ls, j) = Block(ip, j)
        BY <1>5, <2>3, <2>4 DEF HostPart, Block
  <2> QED BY <2>1, <2>2, <2>4, <2>5, AddressTypes
<1>7. SameSubnet(ls, ip)
  <2>1. /\ NwAddr(ls).addr = [j \in Octets |-> ls.addr[j] - HostPart(ls, j)]
        /\ NwAddr(ip).addr = [j \in Octets |-> ip.addr[j] - HostPart(ip, j)]
        BY DEF NwAddr, LargestSibling, IPv4
  <2> QED BY <1>5, <1>6, <2>1 DEF SameSubnet
<1>8. IsHighest(ls)
      BY <1>6 DEF IsHighest
<1> QED BY <1>2, <1>4, <1>7, <1>8

\* The two ways to work out the bridge of a subnet agree: the first sibling,
\* and one more than the least address.  The carry stops at the last octet.
THEOREM BridgesAgree ==
    ASSUME NEW ip \in IPv4, Ordinary(ip)
    PROVE  /\ ~IsHighest(NwAddr(ip))
           /\ IncrNodeId(NwAddr(ip)) = NthSibling(ip, 1)
<1> DEFINE nw == NwAddr(ip)
<1>1. /\ nw \in IPv4 /\ nw.mask = ip.mask
      /\ \A j \in Octets : /\ nw.addr[j] = ip.addr[j] - HostPart(ip, j)
                            /\ nw.addr[j] \in 0..ip.mask[j]
                            /\ HostPart(nw, j) = 0
      BY NetworkHasNoHost
<1>2. 4 \in Octets /\ \A j \in Octets : j <= 4
      BY DEF Octets
<1>3. nw.mask[4] = 0 \/ nw.addr[4] < nw.mask[4] - 1
  <2>1. CASE ip.mask[4] = 0
        BY <1>1, <2>1
  <2>2. CASE ip.mask[4] # 0
    <3>1. ip.addr[4] \in Octet /\ ip.mask[4] \in MaskOctet
          BY <1>2, AddressTypes
    <3>2. nw.addr[4] = ip.addr[4] - (ip.addr[4] % (256 - ip.mask[4]))
          BY <1>1, <1>2 DEF HostPart, Block
    <3> QED BY <1>1, <2>2, <3>1, <3>2, NotTheLast DEF Ordinary
  <2> QED BY <2>1, <2>2
<1>4. IncrStop(nw) = {4}
      BY <1>2, <1>3 DEF IncrStop, Octets
<1>5. ~IsHighest(nw)
  <2>1. ip.mask[4] # 255 /\ ip.mask[4] \in 0..255
        BY <1>2, AddressTypes DEF Ordinary
  <2> QED BY <1>1, <1>2, <2>1 DEF IsHighest, Block
<1>6. ASSUME NEW j \in Octets
      PROVE  IncrNodeId(nw).addr[j] = NthSibling(ip, 1).addr[j]
  <2>1. /\ IncrNodeId(nw).addr[j] = IF j = 4 THEN (nw.addr[j] + 1) % 256 ELSE nw.addr[j]
        /\ NthSibling(ip, 1).addr[j] = nw.addr[j] + (Digit(1, j) % Block(ip, j))
        BY <1>1, <1>2, <1>4 DEF IncrNodeId, NthSibling, IPv4, Octets
  <2>2. CASE j # 4
    <3>1. Digit(1, j) = 0
          BY <2>2 DEF Digit, Weight, Octets
    <3>2. 0 % Block(ip, j) = 0
          BY AddressTypes DEF Block, MaskOctet
    <3> QED BY <1>1, <2>1, <2>2, <3>1, <3>2, AddressTypes
  <2>3. CASE j = 4
    <3>1. Digit(1, 4) = 1
          BY DEF Digit, Weight
    <3>2. ip.mask[4] \in MaskOctet /\ ip.mask[4] # 255
          BY <1>2, AddressTypes DEF Ordinary
    <3>3. 1 % Block(ip, 4) = 1
          BY <3>2 DEF Block, MaskOctet
    <3>4. nw.addr[4] \in 0..254
          BY <1>1, <1>2, <3>2 DEF MaskOctet
    <3>5. (nw.addr[4] + 1) % 256 = nw.addr[4] + 1
          BY <3>4
    <3> QED BY <2>1, <2>3, <3>1, <3>3, <3>5
  <2> QED BY <2>2, <2>3
<1> QED BY <1>1, <1>5, <1>6 DEF IncrNodeId, NthSibling, IPv4

\* Where the last octet is all of the host, the range for DHCP begins right
\* after the bridge, and ends in the same subnet.
THEOREM LeasesSpareTheBridge ==
    ASSUME NEW ip \in IPv4, ip.mask[4] = 0
    PROVE  LET range == DhcpRange(NthSibling(ip, 1))
           IN  range.start = NthSibling(ip, 2) /\ SameSubnet(range.end, ip)
<1> DEFINE br == NthSibling(ip, 1)
<1>1. br \in IPv4 /\ br.mask = ip.mask /\ SameSubnet(br, ip)
      BY SiblingStays DEF NthSibling, IPv4
<1>2. 4 \in Octets /\ \A j \in Octets : j <= 4
      BY DEF Octets
<1>3. IncrStop(br) = {4}
      BY <1>1, <1>2 DEF IncrStop, Octets
<1>4. ASSUME NEW j \in Octets
      PROVE  IncrNodeId(br).addr[j] = NthSibling(ip, 2).addr[j]
  <2>1. /\ IncrNodeId(br).addr[j] = IF j = 4 THEN (br.addr[j] + 1) % 256 ELSE br.addr[j]
        /\ br.addr[j] = ip.addr[j] - HostPart(ip, j) + (Digit(1, j) % Block(ip, j))
        /\ NthSibling(ip, 2).addr[j] =
               ip.addr[j] - HostPart(ip, j) + (Digit(2, j) % Block(ip, j))
        BY <1>1, <1>2, <1>3 DEF IncrNodeId, NthSibling, IPv4, Octets
  <2>2. CASE j # 4
        BY <2>1, <2>2 DEF Digit, Weight, Octets
  <2>3. CASE j = 4
    <3>1. Digit(1, 4) = 1 /\ Digit(2, 4) = 2 /\ Block(ip, 4) = 256
          BY DEF Digit, Weight, Block
    <3>2. ip.addr[4] - HostPart(ip, 4) = 0
          BY <1>2, <3>1, AddressTypes DEF HostPart, Octet
    <3> QED BY <2>1, <2>3, <3>1, <3>2
  <2> QED BY <2>2, <2>3
<1>5. IncrNodeId(br) = NthSibling(ip, 2)
      BY <1>1, <1>4 DEF IncrNodeId, NthSibling, IPv4
<1>6. SameSubnet(NthSibling(br, -2), ip)
  <2>1. SameSubnet(NthSibling(br, -2), br)
        BY <1>1, SiblingStays
  <2> QED BY <1>1, <2>1 DEF SameSubnet
<1> QED BY <1>5, <1>6 DEF DhcpRange

\* An address as a number.
Number(p, q, r, t) == 16777216 * p + 65536 * q + 256 * r + t

Value(ip) == Number(ip.addr[1], ip.addr[2], ip.addr[3], ip.addr[4])

LEMMA Borrow ==
    ASSUME NEW p \in Octet, NEW q \in Octet, NEW r \in Octet, NEW t \in Octet
    PROVE  /\ Number(p, q, r, t - 1) = Number(p, q, r, t) - 1
           /\ Number(p, q, r - 1, 255) = Number(p, q, r, 0) - 1
           /\ Number(p, q - 1, 255, 255) = Number(p, q, 0, 0) - 1
           /\ Number(p - 1, 255, 255, 255) = Number(p, 0, 0, 0) - 1
<1>1. p \in Int /\ q \in Int /\ r \in Int /\ t \in Int
      BY DEF Octet
<1> QED BY SMT, <1>1 DEF Number

\* The way down borrows from octet to octet as it should, under any mask.
THEOREM DecrIsOneLess ==
    ASSUME NEW ip \in IPv4, ~IsLowest(ip)
    PROVE  DecrNodeId(ip) \in IPv4 /\ Value(DecrNodeId(ip)) = Value(ip) - 1
<1> DEFINE a == ip.addr
           d == DecrNodeId(ip).addr
<1>1. /\ 1 \in Octets /\ 2 \in Octets /\ 3 \in Octets /\ 4 \in Octets
      /\ a[1] \in 0..255 /\ a[2] \in 0..255 /\ a[3] \in 0..255 /\ a[4] \in 0..255
  <2>1. 1 \in Octets /\ 2 \in Octets /\ 3 \in Octets /\ 4 \in Octets
        BY DEF Octets
  <2>2. \A j \in Octets : a[j] \in 0..255
        BY AddressTypes DEF Octet
  <2> QED BY <2>1, <2>2
<1>2. a[1] # 0 \/ a[2] # 0 \/ a[3] # 0 \/ a[4] # 0
  <2>1. \A j \in Octets : a[j] = 0 => HostPart(ip, j) = 0
        BY AddressTypes DEF HostPart, Block, MaskOctet
  <2> QED BY <1>1, <2>1 DEF IsLowest, Octets
<1>3. /\ d = [j \in Octets |-> IF j \in DecrStop(ip) THEN a[j] - 1
                               ELSE IF \E l \in DecrStop(ip) : j < l THEN a[j] ELSE 255]
      /\ DecrNodeId(ip) = [ip EXCEPT !.addr = d]
      BY DEF DecrNodeId, IPv4
<1>8. ASSUME d[1] \in Octet, d[2] \in Octet, d[3] \in Octet, d[4] \in Octet
      PROVE  DecrNodeId(ip) \in IPv4
  <2>1. d \in [Octets -> Octet]
        BY <1>3, <1>8 DEF Octets
  <2> QED BY <1>3, <2>1 DEF IPv4
<1>4. CASE a[4] # 0
  <2>1. DecrStop(ip) = {4}
        BY <1>1, <1>4 DEF DecrStop, Octets
  <2>2. d[1] = a[1] /\ d[2] = a[2] /\ d[3] = a[3] /\ d[4] = a[4] - 1
        BY <1>1, <1>3, <2>1 DEF Octets
  <2>3. d[1] \in Octet /\ d[2] \in Octet /\ d[3] \in Octet /\ d[4] \in Octet
        BY <1>1, <1>4, <2>2 DEF Octet
  <2>4. Value(ip) = Number(a[1], a[2], a[3], a[4])
        BY <1>4 DEF Value
  <2>5. Value(DecrNodeId(ip)) = Number(a[1], a[2], a[3], a[4] - 1)
        BY <2>2 DEF Value
  <2>6. Number(a[1], a[2], a[3], a[4] - 1) = Number(a[1], a[2], a[3], a[4]) - 1
    <3> HIDE DEF a, d
    <3>1. a[1] \in Octet /\ a[2] \in Octet /\ a[3] \in Octet /\ a[4] \in Octet /\ 255 \in Octet
        BY <1>1 DEF Octet
    <3> QED BY <3>1, Borrow
  <2> QED BY <1>8, <2>3, <2>4, <2>5, <2>6
<1>5. CASE a[4] = 0 /\ a[3] # 0
  <2>1. DecrStop(ip) = {3}
        BY <1>1, <1>5 DEF DecrStop, Octets
  <2>2. d[1] = a[1] /\ d[2] = a[2] /\ d[3] = a[3] - 1 /\ d[4] = 255
        BY <1>1, <1>3, <2>1 DEF Octets
  <2>3. d[1] \in Octet /\ d[2] \in Octet /\ d[3] \in Octet /\ d[4] \in Octet
        BY <1>1, <1>5, <2>2 DEF Octet
  <2>4. Value(ip) = Number(a[1], a[2], a[3], 0)
        BY <1>5 DEF Value
  <2>5. Value(DecrNodeId(ip)) = Number(a[1], a[2], a[3] - 1, 255)
        BY <2>2 DEF Value
  <2>6. Number(a[1], a[2], a[3] - 1, 255) = Number(a[1], a[2], a[3], 0) - 1
    <3> HIDE DEF a, d
    <3>1. a[1] \in Octet /\ a[2] \in Octet /\ a[3] \in Octet /\ a[4] \in Octet /\ 255 \in Octet
        BY <1>1 DEF Octet
    <3> QED BY <3>1, Borrow
  <2> QED BY <1>8, <2>3, <2>4, <2>5, <2>6
<1>6. CASE a[4] = 0 /\ a[3] = 0 /\ a[2] # 0
  <2>1. DecrStop(ip) = {2}
        BY <1>1, <1>6 DEF DecrStop, Octets
  <2>2. d[1] = a[1] /\ d[2] = a[2] - 1 /\ d[3] = 255 /\ d[4] = 255
        BY <1>1, <1>3, <2>1 DEF Octets
  <2>3. d[1] \in Octet /\ d[2] \in Octet /\ d[3] \in Octet /\ d[4] \in Octet
        BY <1>1, <1>6, <2>2 DEF Octet
  <2>4. Value(ip) = Number(a[1], a[2], 0, 0)
        BY <1>6 DEF Value
  <2>5. Value(DecrNodeId(ip)) = Number(a[1], a[2] - 1, 255, 255)
        BY <2>2 DEF Value
  <2>6. Number(a[1], a[2] - 1, 255, 255) = Number(a[1], a[2], 0, 0) - 1
    <3> HIDE DEF a, d
    <3>1. a[1] \in Octet /\ a[2] \in Octet /\ a[3] \in Octet /\ a[4] \in Octet /\ 255 \in Octet
        BY <1>1 DEF Octet
    <3> QED BY <3>1, Borrow
  <2> QED BY <1>8, <2>3, <2>4, <2>5, <2>6
<1>7. CASE a[4] = 0 /\ a[3] = 0 /\ a[2] = 0 /\ a[1] # 0
  <2>1. DecrStop(ip) = {1}
        BY <1>1, <1>7 DEF DecrStop, Octets
  <2>2. d[1] = a[1] - 1 /\ d[2] = 255 /\ d[3] = 255 /\ d[4] = 255
        BY <1>1, <1>3, <2>1 DEF Octets
  <2>3. d[1] \in Octet /\ d[2] \in Octet /\ d[3] \in Octet /\ d[4] \in Octet
        BY <1>1, <1>7, <2>2 DEF Octet
  <2>4. Value(ip) = Number(a[1], 0, 0, 0)
        BY <1>7 DEF Value
  <2>5. Value(DecrNodeId(ip)) = Number(a[1] - 1, 255, 255, 255)
        BY <2>2 DEF Value
  <2>6. Number(a[1] - 1, 255, 255, 255) = Number(a[1], 0, 0, 0) - 1
    <3> HIDE DEF a, d
    <3>1. a[1] \in Octet /\ a[2] \in Octet /\ a[3] \in Octet /\ a[4] \in Octet /\ 255 \in Octet
        BY <1>1 DEF Octet
    <3> QED BY <3>1, Borrow
  <2> QED BY <1>8, <2>3, <2>4, <2>5, <2>6
<1> QED BY <1>2, <1>4, <1>5, <1>6, <1>7

-----------------------------------------------------------------------------
(***************************************************************************)
(* The inductive invariant.  What is up stays up: both sets only grow, but  *)
(* for the outage, which brings back what is on autostart.                  *)
(***************************************************************************)
Up == active \cap autostart

Ensuring == pc \in {"define", "start", "autostart"}

\* A host is in hand.
InHand ==
    \/ pc \in {"networks", "boot", "attach", "create", "address", "adapt"}
    \/ Ensuring /\ ens.back \in {"networks", "attach"}

\* What is ensured, and what had been ensured before.
ReadyInv ==
    /\ Ensuring =>
          /\ ens.back = "mgmt" => ens.res = Pool
          /\ ens.back = "cycle" => ens.res = Mgmt
          /\ ens.back # "mgmt" => Pool \in Up
          /\ ens.back \in {"networks", "attach"} => Mgmt \in Up
          /\ ens.dhcp <=> ens.back = "cycle"
          /\ pc # "define" => ens.res \in defined
          /\ pc = "autostart" => ens.res \in active
    /\ pc # "down" /\ ~Ensuring => Pool \in Up
    /\ pc \notin {"down", "mgmt"} /\ ~Ensuring => Mgmt \in Up

HandInv ==
    /\ InHand => host \in Hosts /\ guest[host] = None
    /\ pc \in {"boot", "create", "address", "adapt"} => doms[host] \in Seq(Interfaces)

\* An interface in the network that its address leads to.
Attached(ifc) == ifc.ip \in IPv4 /\ ifc.net = IncrNodeId(NwAddr(ifc.ip))

DraftInv ==
    \A j \in DOMAIN draft :
        /\ Attached(draft[j])
        /\ draft[j].net \in Up \/ (Ensuring /\ ens.back = "attach" /\ draft[j].net = ens.res)

DomsInv ==
    \A h \in Hosts : doms[h] # None =>
        /\ Len(doms[h]) > 0 /\ doms[h][Len(doms[h])] = [net |-> Mgmt, ip |-> None]
        /\ \A j \in DOMAIN doms[h] : /\ j < Len(doms[h]) => Attached(doms[h][j])
                                     /\ doms[h][j].net \in Up
        /\ Pool \in Up

GuestInv ==
    \A h \in Hosts : guest[h] # None => guest[h] = WrittenTo(h) /\ doms[h] \in Seq(Interfaces)

IInv == TypeOK /\ DhcpOnMgmtOnly /\ ReadyInv /\ HandInv /\ DraftInv /\ DomsInv /\ GuestInv

LEMMA IncrType ==
    ASSUME NEW ip \in IPv4
    PROVE  IncrNodeId(ip) \in IPv4
<1>1. \A j \in Octets : (ip.addr[j] + 1) % 256 \in Octet
      BY AddressTypes DEF Octet
<1>2. 0 \in Octet
      BY DEF Octet
<1> QED BY <1>1, <1>2, AddressTypes DEF IncrNodeId, IPv4

LEMMA MgmtType == Mgmt \in IPv4
BY ConstantsAssumption, SiblingStays DEF Mgmt

\* The address in hand.
LEMMA MyIpType ==
    ASSUME TypeOK, host \in Hosts, k <= Len(MyIps)
    PROVE  MyIps[k] \in IPv4 /\ MyIps \in Seq(Ips)
BY ConstantsAssumption DEF TypeOK, ProcessOK, MyIps

LEMMA InitProof == Init => IInv
<1> SUFFICES ASSUME Init PROVE IInv
    OBVIOUS
<1> USE DEF Init, Ensuring
<1>1. TypeOK
      BY ConstantsAssumption DEF TypeOK, LibvirtOK, DomainsOK, ProcessOK
<1>2. DhcpOnMgmtOnly /\ ReadyInv /\ HandInv /\ DraftInv /\ DomsInv /\ GuestInv
      BY DEF DhcpOnMgmtOnly, ReadyInv, HandInv, InHand, DraftInv, DomsInv, GuestInv
<1> QED BY <1>1, <1>2 DEF IInv

\* A set of numbers that is not empty has a least one.
LEMMA FirstOne ==
    ASSUME NEW S \in SUBSET Nat, S # {}
    PROVE  \E x \in S : \A y \in S : x <= y
<1> DEFINE R == OpToRel(<, Nat)
<1>1. \A x, y \in Nat : y < x => <<y, x>> \in R
      BY DEF OpToRel
<1>2. PICK x \in S : \A y \in S : ~(<<y, x>> \in R)
  <2>1. IsWellFoundedOn(R, Nat)
        BY NatLessThanWellFounded
  <2> HIDE DEF R
  <2> QED BY <2>1, WFMin, Zenon
<1>3. \A y \in S : x <= y
  <2> SUFFICES ASSUME NEW y \in S PROVE x <= y
      OBVIOUS
  <2> HIDE DEF R
  <2>1. ~(y < x)
        BY <1>1, <1>2
  <2> QED BY <2>1
<1> QED BY <1>3

LEMMA MacIs ==
    ASSUME NEW dom \in Seq(Interfaces), NEW ip,
           \E j \in DOMAIN dom : dom[j].ip = ip
    PROVE  MacOfIp(dom, ip) \in DOMAIN dom /\ dom[MacOfIp(dom, ip)].ip = ip
<1> DEFINE mine == {j \in DOMAIN dom : dom[j].ip = ip}
<1>1. mine # {} /\ mine \subseteq Nat
      OBVIOUS
<1>2. \E j \in mine : \A l \in mine : j <= l
      BY <1>1, FirstOne
<1>3. MacOfIp(dom, ip) \in mine
      BY <1>1, <1>2 DEF MacOfIp
<1> QED BY <1>3

LEMMA WrittenType ==
    ASSUME TypeOK, NEW h \in Hosts, doms[h] \in Seq(Interfaces)
    PROVE  WrittenTo(h) \in [eth : SUBSET Entries, mgmt : Nat \cup {None}]
<1> DEFINE mine == {config[h][j] : j \in DOMAIN config[h]}
           known == {ip \in mine : MacOfIp(doms[h], ip) # None}
<1>1. mine \subseteq IPv4
      BY ConstantsAssumption DEF TypeOK, LibvirtOK, DomainsOK, ProcessOK
<1>2. ASSUME NEW ip \in known
      PROVE  [ip |-> ip, mac |-> MacOfIp(doms[h], ip), gw |-> NthSibling(ip, 1)] \in Entries
  <2>1. \E j \in DOMAIN doms[h] : doms[h][j].ip = ip
        BY DEF MacOfIp
  <2>2. MacOfIp(doms[h], ip) \in Nat
        BY <2>1, MacIs
  <2>0. ip \in IPv4
        BY <1>1
  <2>3. NthSibling(ip, 1) \in IPv4
        BY <2>0, SiblingStays
  <2> QED BY <2>0, <2>2, <2>3 DEF Entries
<1>3. MacInNetwork(doms[h], Mgmt) \in Nat \cup {None}
      BY DEF MacInNetwork
<1> HIDE DEF known
<1>4. {[ip |-> ip, mac |-> MacOfIp(doms[h], ip), gw |-> NthSibling(ip, 1)] : ip \in known}
          \subseteq Entries
      BY <1>2
<1> QED BY <1>3, <1>4 DEF WrittenTo, known

LEMMA ProcessStep ==
    ASSUME IInv, Next
    PROVE  ProcessOK'
<1> USE DEF libvirtVars, domainVars, hostVars, NoHost, NoHosts, Dies, Ensure, HandOver, Fault
<1>0. LibvirtOK /\ DomainsOK /\ ProcessOK /\ HandInv /\ ReadyInv
      BY DEF IInv, TypeOK
<1>1. CASE Define
      BY <1>0, MgmtType, ConstantsAssumption, <1>1 DEF ProcessOK, Requests, Resources,
         Define
<1>2. CASE StartResource
      BY <1>0, MgmtType, ConstantsAssumption, <1>2 DEF ProcessOK, Requests, Resources,
         StartResource
<1>3. CASE SetAutostart
      BY <1>0, MgmtType, ConstantsAssumption, <1>3 DEF ProcessOK, Requests, Resources,
         SetAutostart
<1>4. CASE ReadConfig
      BY <1>0, MgmtType, ConstantsAssumption, <1>4 DEF ProcessOK, Requests, Resources,
         ReadConfig
<1>5. CASE EnsureMgmt
      BY <1>0, MgmtType, ConstantsAssumption, <1>5 DEF ProcessOK, Requests, Resources,
         EnsureMgmt
<1>6. CASE EnsureNetwork
  <2>1. MyIps[k] \in IPv4
        BY <1>6, <1>0, MyIpType DEF TypeOK, InHand, HandInv, EnsureNetwork
  <2>2. NthSibling(MyIps[k], 1) \in IPv4
        BY <2>1, SiblingStays
  <2> QED BY <1>6, <1>0, <2>1, <2>2 DEF ProcessOK, Requests, Resources, Interfaces, EnsureNetwork
<1>7. CASE NetworksDone
      BY <1>0, MgmtType, ConstantsAssumption, <1>7 DEF ProcessOK, Requests, Resources,
         NetworksDone
<1>8. CASE BootExisting
      BY <1>0, MgmtType, ConstantsAssumption, <1>8 DEF ProcessOK, Requests, Resources,
         BootExisting
<1>9. CASE Attach
  <2>1. MyIps[k] \in IPv4
        BY <1>9, <1>0, MyIpType DEF TypeOK, InHand, HandInv, Attach
  <2>2. IncrNodeId(NwAddr(MyIps[k])) \in IPv4
        BY <2>1, IncrType, NetworkHasNoHost
  <2> QED BY <1>9, <1>0, <2>1, <2>2 DEF ProcessOK, Requests, Resources, Interfaces, Attach
<1>10. CASE AttachPanics
      BY <1>0, MgmtType, ConstantsAssumption, <1>10 DEF ProcessOK, Requests,
         Resources, AttachPanics
<1>11. CASE DefineDomain
      BY <1>0, MgmtType, ConstantsAssumption, <1>11 DEF ProcessOK, Requests,
         Resources, DefineDomain
<1>12. CASE CreateDomain
      BY <1>0, MgmtType, ConstantsAssumption, <1>12 DEF ProcessOK, Requests,
         Resources, CreateDomain
<1>13. CASE BootFails
      BY <1>0, MgmtType, ConstantsAssumption, <1>13 DEF ProcessOK, Requests,
         Resources, BootFails
<1>14. CASE GetAddress
      BY <1>0, MgmtType, ConstantsAssumption, <1>14 DEF ProcessOK, Requests,
         Resources, GetAddress
<1>15. CASE Adapt
  <2>1. host \in Hosts
        BY <1>0, <1>15 DEF HandInv, InHand, Adapt
  <2> QED BY <1>0, <1>15, <2>1 DEF ProcessOK, Adapt
<1>16. CASE NeverAdapted
  <2>1. host \in Hosts
        BY <1>0, <1>16 DEF HandInv, InHand, NeverAdapted
  <2> QED BY <1>0, <1>16, <2>1 DEF ProcessOK, NeverAdapted
<1>17. CASE AdaptFails
      BY <1>0, MgmtType, ConstantsAssumption, <1>17 DEF ProcessOK, Requests,
         Resources, AdaptFails
<1>18. CASE Edit
      BY <1>0, MgmtType, ConstantsAssumption, <1>18 DEF ProcessOK, Requests,
         Resources, Edit
<1>19. CASE Crash
      BY <1>0, MgmtType, ConstantsAssumption, <1>19 DEF ProcessOK, Requests,
         Resources, Crash
<1>20. CASE Outage
      BY <1>0, MgmtType, ConstantsAssumption, <1>20 DEF ProcessOK, Requests,
         Resources, Outage
<1>21. CASE \E h \in Hosts : PickHost(h)
      BY <1>0, MgmtType, ConstantsAssumption, <1>21 DEF ProcessOK, Requests,
         Resources, PickHost
<1>22. CASE \E h \in Hosts : Shutdown(h)
      BY <1>0, MgmtType, ConstantsAssumption, <1>22 DEF ProcessOK, Requests,
         Resources, Shutdown
<1> QED BY <1>1, <1>2, <1>3, <1>4, <1>5, <1>6, <1>7, <1>8, <1>9, <1>10, <1>11, <1>12,
   <1>13, <1>14, <1>15, <1>16, <1>17, <1>18, <1>19, <1>20, <1>21, <1>22 DEF Next

LEMMA LibvirtStep ==
    ASSUME IInv, Next
    PROVE  LibvirtOK'
<1> USE DEF libvirtVars, domainVars, hostVars, NoHost, NoHosts, Dies, Ensure, HandOver, Fault
<1>0. LibvirtOK /\ DomainsOK /\ ProcessOK /\ HandInv /\ ReadyInv
      BY DEF IInv, TypeOK
<1>1. CASE Define \/ StartResource \/ SetAutostart \/ ReadConfig \/ EnsureMgmt
      BY <1>0, <1>1 DEF LibvirtOK, ProcessOK, ReadyInv, Ensuring, Requests, Define,
         StartResource, SetAutostart, ReadConfig, EnsureMgmt
<1>2. CASE EnsureNetwork \/ NetworksDone \/ BootExisting \/ Attach \/ AttachPanics \/
   DefineDomain
      BY <1>0, <1>2 DEF LibvirtOK, ProcessOK, ReadyInv, Ensuring, Requests,
         EnsureNetwork, NetworksDone, BootExisting, Attach, AttachPanics, DefineDomain
<1>3. CASE CreateDomain \/ BootFails \/ GetAddress \/ Adapt \/ NeverAdapted \/
   AdaptFails
      BY <1>0, <1>3 DEF LibvirtOK, ProcessOK, ReadyInv, Ensuring, Requests,
         CreateDomain, BootFails, GetAddress, Adapt, NeverAdapted, AdaptFails
<1>4. CASE Edit \/ Crash \/ Outage \/ \E h \in Hosts : PickHost(h) \/ Shutdown(h)
      BY <1>0, <1>4 DEF LibvirtOK, ProcessOK, ReadyInv, Ensuring, Requests, Edit,
         Crash, Outage, PickHost, Shutdown
<1> QED BY <1>1, <1>2, <1>3, <1>4 DEF Next

LEMMA DomainsStep ==
    ASSUME IInv, Next
    PROVE  DomainsOK'
<1> USE DEF libvirtVars, domainVars, hostVars, NoHost, NoHosts, Dies, Ensure, HandOver, Fault
<1>0. LibvirtOK /\ DomainsOK /\ ProcessOK /\ HandInv /\ ReadyInv
      BY DEF IInv, TypeOK
<1>1. CASE Define \/ StartResource \/ SetAutostart \/ ReadConfig \/ EnsureMgmt
      BY <1>0, <1>1 DEF DomainsOK, HandInv, InHand, Define, StartResource,
         SetAutostart, ReadConfig, EnsureMgmt
<1>2. CASE EnsureNetwork \/ NetworksDone \/ BootExisting \/ Attach \/ AttachPanics
      BY <1>0, <1>2 DEF DomainsOK, HandInv, InHand, EnsureNetwork, NetworksDone,
         BootExisting, Attach, AttachPanics
<1>3. CASE DefineDomain
  <2>1. Append(draft, [net |-> Mgmt, ip |-> None]) \in Seq(Interfaces)
        BY <1>0, MgmtType DEF ProcessOK, Interfaces
  <2> QED BY <1>0, <1>3, <2>1 DEF DomainsOK, HandInv, InHand, DefineDomain
<1>4. CASE CreateDomain \/ BootFails \/ GetAddress \/ NeverAdapted \/ AdaptFails
      BY <1>0, <1>4 DEF DomainsOK, HandInv, InHand, CreateDomain, BootFails,
         GetAddress, NeverAdapted, AdaptFails
<1>5. CASE Adapt
  <2>1. WrittenTo(host) \in [eth : SUBSET Entries, mgmt : Nat \cup {None}]
        BY <1>0, <1>5, WrittenType DEF TypeOK, HandInv, InHand, Adapt
  <2> QED BY <1>0, <1>5, <2>1 DEF DomainsOK, HandInv, InHand, Adapt
<1>6. CASE Edit \/ Crash \/ Outage \/ \E h \in Hosts : PickHost(h) \/ Shutdown(h)
      BY <1>0, <1>6 DEF DomainsOK, HandInv, InHand, Edit, Crash, Outage, PickHost,
         Shutdown
<1> QED BY <1>1, <1>2, <1>3, <1>4, <1>5, <1>6 DEF Next

LEMMA ReadyStep ==
    ASSUME IInv, Next
    PROVE  ReadyInv'
<1> USE DEF libvirtVars, domainVars, hostVars, NoHost, NoHosts, Dies, Ensure, HandOver, Fault
<1>0. LibvirtOK /\ DomainsOK /\ ProcessOK /\ HandInv /\ ReadyInv
      BY DEF IInv, TypeOK
<1>1. CASE Define \/ StartResource \/ ReadConfig \/ EnsureMgmt
      BY <1>0, <1>1 DEF LibvirtOK, ProcessOK, ReadyInv, Ensuring, Up, Define,
         StartResource, ReadConfig, EnsureMgmt
<1>2. CASE SetAutostart
  <2>1. /\ ens \in Requests /\ pc' = ens.back /\ ~Ensuring'
        /\ Ensuring /\ ens.res \in active
        BY <1>0, <1>2 DEF ProcessOK, ReadyInv, Ensuring, SetAutostart, Requests
  <2>2. Up' = Up \cup {ens.res}
        BY <2>1, <1>2 DEF Up, SetAutostart
  <2> QED BY <1>0, <2>1, <2>2 DEF ReadyInv, Requests
<1>3. CASE EnsureNetwork \/ NetworksDone \/ BootExisting \/ Attach \/ AttachPanics \/
   DefineDomain
      BY <1>0, <1>3 DEF LibvirtOK, ProcessOK, ReadyInv, Ensuring, Up, EnsureNetwork,
         NetworksDone, BootExisting, Attach, AttachPanics, DefineDomain
<1>4. CASE CreateDomain \/ BootFails \/ GetAddress \/ Adapt \/ NeverAdapted \/
   AdaptFails
      BY <1>0, <1>4 DEF LibvirtOK, ProcessOK, ReadyInv, Ensuring, Up, CreateDomain,
         BootFails, GetAddress, Adapt, NeverAdapted, AdaptFails
<1>5. CASE Edit \/ Crash \/ Outage \/ \E h \in Hosts : PickHost(h) \/ Shutdown(h)
      BY <1>0, <1>5 DEF LibvirtOK, ProcessOK, ReadyInv, Ensuring, Up, Edit, Crash,
         Outage, PickHost, Shutdown
<1> QED BY <1>1, <1>2, <1>3, <1>4, <1>5 DEF Next

LEMMA HandStep ==
    ASSUME IInv, Next
    PROVE  HandInv'
<1> USE DEF libvirtVars, domainVars, hostVars, NoHost, NoHosts, Dies, Ensure, HandOver, Fault
<1>0. LibvirtOK /\ DomainsOK /\ ProcessOK /\ HandInv /\ ReadyInv
      BY DEF IInv, TypeOK
<1>1. CASE Define \/ StartResource \/ ReadConfig \/ EnsureMgmt
      BY <1>0, <1>1 DEF DomainsOK, ProcessOK, HandInv, InHand, Ensuring, Define,
         StartResource, ReadConfig, EnsureMgmt
<1>2. CASE SetAutostart
  <2>1. pc' = ens.back /\ ens \in Requests /\ UNCHANGED <<host, guest, doms>>
        BY <1>0, <1>2 DEF ProcessOK, SetAutostart
  <2>2. pc' \in {"mgmt", "cycle", "networks", "attach"}
        BY <2>1 DEF Requests
  <2>3. InHand' => InHand
        BY <1>2, <2>1, <2>2 DEF InHand, Ensuring, SetAutostart
  <2> QED BY <1>0, <2>1, <2>2, <2>3 DEF HandInv
<1>3. CASE EnsureNetwork \/ NetworksDone \/ BootExisting \/ Attach \/ AttachPanics
      BY <1>0, <1>3 DEF DomainsOK, ProcessOK, HandInv, InHand, Ensuring,
         EnsureNetwork, NetworksDone, BootExisting, Attach, AttachPanics
<1>4. CASE DefineDomain
  <2>1. Append(draft, [net |-> Mgmt, ip |-> None]) \in Seq(Interfaces)
        BY <1>0, MgmtType DEF ProcessOK, Interfaces
  <2> QED BY <1>0, <1>4, <2>1 DEF DomainsOK, HandInv, InHand, Ensuring, DefineDomain
<1>5. CASE CreateDomain \/ BootFails \/ GetAddress \/ Adapt \/ NeverAdapted \/
   AdaptFails
      BY <1>0, <1>5 DEF DomainsOK, ProcessOK, HandInv, InHand, Ensuring, CreateDomain,
         BootFails, GetAddress, Adapt, NeverAdapted, AdaptFails
<1>6. CASE Edit \/ Crash \/ Outage \/ \E h \in Hosts : PickHost(h) \/ Shutdown(h)
      BY <1>0, <1>6 DEF DomainsOK, ProcessOK, HandInv, InHand, Ensuring, Edit, Crash,
         Outage, PickHost, Shutdown
<1> QED BY <1>1, <1>2, <1>3, <1>4, <1>5, <1>6 DEF Next

LEMMA DhcpStep ==
    ASSUME IInv, Next
    PROVE  DhcpOnMgmtOnly'
<1> USE DEF libvirtVars, domainVars, hostVars, NoHost, NoHosts, Dies, Ensure, HandOver, Fault
<1>0. LibvirtOK /\ ProcessOK /\ ReadyInv /\ DhcpOnMgmtOnly
      BY DEF IInv, TypeOK
<1>1. CASE StartResource \/ SetAutostart \/ ReadConfig \/ EnsureMgmt
      BY <1>0, <1>1 DEF DhcpOnMgmtOnly, StartResource, SetAutostart, ReadConfig,
         EnsureMgmt
<1>2. CASE Define
  <2>1. ens \in Requests /\ (ens.dhcp => ens.res = Mgmt) /\ (ens.res = Mgmt => ens.dhcp \/ Mgmt \in defined)
        BY <1>0, <1>2, MgmtType, ConstantsAssumption DEF LibvirtOK, ProcessOK, ReadyInv, Ensuring, Up, Define, Requests
  <2> QED BY <1>0, <1>2, <2>1 DEF DhcpOnMgmtOnly, Define
<1>3. CASE EnsureNetwork \/ NetworksDone \/ BootExisting \/ Attach \/ AttachPanics \/
   DefineDomain
      BY <1>0, <1>3 DEF DhcpOnMgmtOnly, EnsureNetwork, NetworksDone, BootExisting,
         Attach, AttachPanics, DefineDomain
<1>4. CASE CreateDomain \/ BootFails \/ GetAddress \/ Adapt \/ NeverAdapted \/
   AdaptFails
      BY <1>0, <1>4 DEF DhcpOnMgmtOnly, CreateDomain, BootFails, GetAddress, Adapt,
         NeverAdapted, AdaptFails
<1>5. CASE Edit \/ Crash \/ Outage \/ \E h \in Hosts : PickHost(h) \/ Shutdown(h)
      BY <1>0, <1>5 DEF DhcpOnMgmtOnly, Edit, Crash, Outage, PickHost, Shutdown
<1> QED BY <1>1, <1>2, <1>3, <1>4, <1>5 DEF Next

\* What is up stays up, and what has been ensured is up.
LEMMA UpGrows ==
    ASSUME IInv, Next
    PROVE  Up \subseteq Up' /\ (SetAutostart => ens.res \in Up')
<1> USE DEF libvirtVars, Up
<1>1. CASE Define \/ StartResource \/ ReadConfig \/ EnsureMgmt \/ EnsureNetwork \/ NetworksDone
      BY <1>1 DEF Define, StartResource, ReadConfig, EnsureMgmt, EnsureNetwork, NetworksDone, SetAutostart
<1>2. CASE SetAutostart
      BY <1>2 DEF SetAutostart, IInv, ReadyInv, Ensuring
<1>3. CASE \/ BootExisting \/ Attach \/ AttachPanics \/ DefineDomain \/ CreateDomain \/ BootFails
           \/ GetAddress \/ Adapt \/ NeverAdapted \/ AdaptFails
      BY <1>3 DEF BootExisting, Attach, AttachPanics, DefineDomain, CreateDomain, BootFails,
                  GetAddress, Adapt, NeverAdapted, AdaptFails, SetAutostart
<1>4. CASE Edit \/ Crash \/ Outage \/ \E h \in Hosts : PickHost(h) \/ Shutdown(h)
      BY <1>4 DEF Edit, Crash, Outage, PickHost, Shutdown, SetAutostart, IInv, ReadyInv, Ensuring
<1> QED BY <1>1, <1>2, <1>3, <1>4 DEF Next

LEMMA DraftStep ==
    ASSUME IInv, Next
    PROVE  DraftInv'
<1> USE DEF libvirtVars, domainVars, hostVars, NoHost, NoHosts, Dies, Ensure, HandOver, Fault
<1>0. LibvirtOK /\ DomainsOK /\ ProcessOK /\ HandInv /\ ReadyInv /\ DraftInv /\ DomsInv /\ GuestInv
      BY DEF IInv, TypeOK
<1>1. CASE Define \/ StartResource \/ ReadConfig \/ EnsureMgmt
      BY <1>0, UpGrows, <1>1 DEF DraftInv, Attached, Ensuring, Define, StartResource,
         ReadConfig, EnsureMgmt
<1>2. CASE SetAutostart
  <2>1. draft' = draft /\ ens.res \in Up'
        BY <1>2, UpGrows DEF SetAutostart
  <2> QED BY <1>0, <2>1, UpGrows DEF DraftInv, Attached
<1>3. CASE EnsureNetwork \/ NetworksDone \/ BootExisting \/ AttachPanics \/
   DefineDomain
      BY <1>0, UpGrows, <1>3 DEF DraftInv, Attached, Ensuring, EnsureNetwork,
         NetworksDone, BootExisting, AttachPanics, DefineDomain
<1>4. CASE Attach
  <2>1. MyIps[k] \in IPv4 /\ draft \in Seq(Interfaces)
        BY <1>4, <1>0, MyIpType DEF TypeOK, ProcessOK, InHand, HandInv, Attach
  <2>2. draft' = Append(draft, [net |-> IncrNodeId(NwAddr(MyIps[k])), ip |-> MyIps[k]])
        BY <1>4 DEF Attach
  <2>3. /\ Ensuring' /\ ~Ensuring
        /\ ens'.back = "attach" /\ ens'.res = IncrNodeId(NwAddr(MyIps[k]))
        BY <1>4 DEF Ensuring, Attach
  <2> QED BY <1>0, <2>1, <2>2, <2>3, UpGrows DEF DraftInv, Attached
<1>5. CASE CreateDomain \/ BootFails \/ GetAddress \/ Adapt \/ NeverAdapted \/
   AdaptFails
      BY <1>0, UpGrows, <1>5 DEF DraftInv, Attached, Ensuring, CreateDomain,
         BootFails, GetAddress, Adapt, NeverAdapted, AdaptFails
<1>6. CASE Edit \/ Crash \/ Outage \/ \E h \in Hosts : PickHost(h) \/ Shutdown(h)
      BY <1>0, UpGrows, <1>6 DEF DraftInv, Attached, Ensuring, Edit, Crash, Outage,
         PickHost, Shutdown
<1> QED BY <1>1, <1>2, <1>3, <1>4, <1>5, <1>6 DEF Next

LEMMA DomsStep ==
    ASSUME IInv, Next
    PROVE  DomsInv'
<1> USE DEF libvirtVars, domainVars, hostVars, NoHost, NoHosts, Dies, Ensure, HandOver, Fault
<1>0. LibvirtOK /\ DomainsOK /\ ProcessOK /\ HandInv /\ ReadyInv /\ DraftInv /\ DomsInv /\ GuestInv
      BY DEF IInv, TypeOK
<1>1. CASE Define \/ StartResource \/ SetAutostart \/ ReadConfig \/ EnsureMgmt
      BY <1>0, UpGrows, <1>1 DEF DomsInv, Define, StartResource, SetAutostart,
         ReadConfig, EnsureMgmt
<1>2. CASE EnsureNetwork \/ NetworksDone \/ BootExisting \/ Attach \/ AttachPanics
      BY <1>0, UpGrows, <1>2 DEF DomsInv, EnsureNetwork, NetworksDone, BootExisting,
         Attach, AttachPanics
<1>3. CASE DefineDomain
  <2> DEFINE d == Append(draft, [net |-> Mgmt, ip |-> None])
  <2>1. /\ host \in Hosts /\ doms' = [doms EXCEPT ![host] = d]
        /\ draft \in Seq(Interfaces) /\ doms \in [Hosts -> Seq(Interfaces) \cup {None}]
        BY <1>3, <1>0 DEF HandInv, InHand, DomainsOK, ProcessOK, DefineDomain
  <2>2. Pool \in Up /\ Mgmt \in Up /\ ~Ensuring
        BY <1>3, <1>0 DEF ReadyInv, Ensuring, DefineDomain
  <2>3. /\ Len(d) = Len(draft) + 1 /\ Len(draft) \in Nat /\ DOMAIN d = 1..Len(d)
        /\ d[Len(d)] = [net |-> Mgmt, ip |-> None]
        /\ \A j \in 1..Len(draft) : d[j] = draft[j]
        BY <2>1
  <2>4. \A j \in DOMAIN d : (j < Len(d) => Attached(d[j])) /\ d[j].net \in Up
        BY <1>0, <2>1, <2>2, <2>3 DEF DraftInv
  <2>5. \A h \in Hosts : doms'[h] # None => doms'[h] = d \/ doms'[h] = doms[h]
        BY <2>1
  <2> HIDE DEF d
  <2>6. Mgmt' = Mgmt
        BY DEF Mgmt
  <2>7. \A ifc : Attached(ifc)' <=> Attached(ifc)
        BY DEF Attached
  <2> QED BY <1>0, <2>2, <2>3, <2>4, <2>5, UpGrows DEF DomsInv
<1>4. CASE CreateDomain \/ BootFails \/ GetAddress \/ Adapt \/ NeverAdapted \/
   AdaptFails
      BY <1>0, UpGrows, <1>4 DEF DomsInv, CreateDomain, BootFails, GetAddress, Adapt,
         NeverAdapted, AdaptFails
<1>5. CASE Edit \/ Crash \/ Outage \/ \E h \in Hosts : PickHost(h) \/ Shutdown(h)
      BY <1>0, UpGrows, <1>5 DEF DomsInv, Edit, Crash, Outage, PickHost, Shutdown
<1> QED BY <1>1, <1>2, <1>3, <1>4, <1>5 DEF Next

LEMMA GuestStep ==
    ASSUME IInv, Next
    PROVE  GuestInv'
<1> USE DEF libvirtVars, domainVars, hostVars, NoHost, NoHosts, Dies, Ensure, HandOver, Fault
<1>0. LibvirtOK /\ DomainsOK /\ ProcessOK /\ HandInv /\ ReadyInv /\ DraftInv /\ DomsInv /\ GuestInv
      BY DEF IInv, TypeOK
<1>20. ASSUME UNCHANGED <<doms, config>>,
              \A h \in Hosts : guest'[h] = None \/ guest'[h] = guest[h]
       PROVE  GuestInv'
  <2>1. \A h \in Hosts : WrittenTo(h)' = WrittenTo(h)
        BY <1>20 DEF WrittenTo
  <2> QED BY <1>0, <1>20, <2>1 DEF GuestInv
<1>1. CASE Define \/ StartResource \/ SetAutostart \/ EnsureMgmt
      BY <1>20, <1>1 DEF Define, StartResource, SetAutostart, EnsureMgmt
<1>2. CASE ReadConfig
      BY <1>2 DEF GuestInv, ReadConfig
<1>3. CASE EnsureNetwork \/ NetworksDone \/ BootExisting \/ Attach \/ AttachPanics
      BY <1>20, <1>3 DEF EnsureNetwork, NetworksDone, BootExisting, Attach,
         AttachPanics
<1>4. CASE DefineDomain
  <2>1. /\ host \in Hosts /\ guest[host] = None /\ UNCHANGED <<guest, config>>
        /\ \A h \in Hosts : h # host => doms'[h] = doms[h]
        BY <1>4, <1>0 DEF HandInv, InHand, DefineDomain, DomainsOK
  <2>2. \A h \in Hosts : h # host => WrittenTo(h)' = WrittenTo(h)
        BY <2>1 DEF WrittenTo
  <2> QED BY <1>0, <2>1, <2>2 DEF GuestInv
<1>5. CASE CreateDomain \/ BootFails \/ GetAddress \/ NeverAdapted \/ AdaptFails
      BY <1>20, <1>5 DEF CreateDomain, BootFails, GetAddress, NeverAdapted, AdaptFails
<1>6. CASE Adapt
  <2>1. host \in Hosts /\ doms[host] \in Seq(Interfaces) /\ UNCHANGED <<doms, config>>
        BY <1>6, <1>0 DEF HandInv, InHand, Adapt
  <2>2. \A h \in Hosts : WrittenTo(h)' = WrittenTo(h)
        BY <2>1 DEF WrittenTo
  <2>3. guest' = [guest EXCEPT ![host] = WrittenTo(host)]
        BY <1>6 DEF Adapt
  <2> QED BY <1>0, <2>1, <2>2, <2>3 DEF GuestInv, DomainsOK
<1>7. CASE Edit \/ Crash \/ Outage \/ \E h \in Hosts : Shutdown(h)
      BY <1>20, <1>7 DEF Edit, Crash, Outage, Shutdown
<1>8. CASE \E h \in Hosts : PickHost(h)
  <2>1. PICK p \in Hosts : PickHost(p)
        BY <1>8
  <2> QED BY <1>0, <1>20, <2>1 DEF PickHost, DomainsOK
<1> QED BY <1>1, <1>2, <1>3, <1>4, <1>5, <1>6, <1>7, <1>8 DEF Next

LEMMA IInvStep == IInv /\ [Next]_vars => IInv'
<1>1. ASSUME IInv, Next PROVE IInv'
      BY <1>1, ProcessStep, LibvirtStep, DomainsStep, DhcpStep, ReadyStep, HandStep, DraftStep,
         DomsStep, GuestStep DEF IInv, TypeOK
<1>2. ASSUME IInv, UNCHANGED vars PROVE IInv'
      BY <1>2
      DEF vars, IInv, TypeOK, LibvirtOK, DomainsOK, ProcessOK, DhcpOnMgmtOnly, ReadyInv, HandInv,
          InHand, Ensuring, Up, DraftInv, Attached, DomsInv, GuestInv, WrittenTo
<1> QED BY <1>1, <1>2

THEOREM Invariant == Spec => []IInv
BY InitProof, IInvStep, PTL DEF Spec

\* What the variables are.
THEOREM TypeCorrect == Spec => []TypeOK
<1>1. IInv => TypeOK
      BY DEF IInv
<1> QED BY <1>1, Invariant, PTL

\* A defined domain can always be started, now and after an outage.
THEOREM DomainsAreBootable == Spec => []Bootable
<1>1. IInv => Bootable
      BY DEF IInv, DomsInv, Bootable, Needs, Up
<1> QED BY <1>1, Invariant, PTL

\* Only the management network serves leases.
THEOREM OnlyMgmtLeases == Spec => []DhcpOnMgmtOnly
<1>1. IInv => DhcpOnMgmtOnly
      BY DEF IInv
<1> QED BY <1>1, Invariant, PTL

\* The search for the management interface ends at it.
THEOREM MgmtFound == Spec => []MgmtIsFound
<1>1. ASSUME IInv, NEW h \in Hosts, doms[h] # None
      PROVE  MacInNetwork(doms[h], Mgmt) # None /\ doms[h][MacInNetwork(doms[h], Mgmt)].net = Mgmt
  <2>1. /\ doms[h] \in Seq(Interfaces) /\ Len(doms[h]) > 0
        /\ doms[h][Len(doms[h])].net = Mgmt
        BY <1>1 DEF IInv, TypeOK, DomainsOK, DomsInv
  <2>2. MacInNetwork(doms[h], Mgmt) = Len(doms[h])
        BY <2>1 DEF MacInNetwork
  <2> QED BY <2>1, <2>2, ConstantsAssumption
<1>2. IInv => MgmtIsFound
      BY <1>1 DEF MgmtIsFound
<1> QED BY <1>2, Invariant, PTL

\* What a guest is told about an ordinary address is true of the network its
\* domain is attached to there.
THEOREM GuestsOnTheirNetworks == Spec => []OnItsNetwork
<1>1. ASSUME IInv, NEW h \in Hosts, guest[h] # None, NEW j \in DOMAIN config[h],
             Ordinary(config[h][j]), \E l \in DOMAIN doms[h] : doms[h][l].ip = config[h][j]
      PROVE  \E e \in guest[h].eth :
                 /\ e.ip = config[h][j]
                 /\ doms[h][e.mac].net = e.gw
                 /\ SameSubnet(e.gw, config[h][j])
  <2> DEFINE ip == config[h][j]
             mac == MacOfIp(doms[h], ip)
             e == [ip |-> ip, mac |-> mac, gw |-> NthSibling(ip, 1)]
  <2>1. ip \in IPv4
        BY <1>1, ConstantsAssumption DEF IInv, TypeOK, ProcessOK
  <2>2. guest[h] = WrittenTo(h) /\ doms[h] \in Seq(Interfaces)
        BY <1>1 DEF IInv, GuestInv
  <2>3. mac \in DOMAIN doms[h] /\ doms[h][mac].ip = ip
        BY <1>1, <2>2, MacIs
  <2>4. doms[h] # None /\ mac < Len(doms[h])
    <3>1. doms[h] # None => doms[h][Len(doms[h])].ip = None
          BY <1>1 DEF IInv, DomsInv
    <3>2. ip # None
          BY <2>1, ConstantsAssumption
    <3>3. doms[h] # None
          BY <2>2, ConstantsAssumption
    <3> QED BY <2>2, <2>3, <3>1, <3>2, <3>3
  <2>5. doms[h][mac].net = IncrNodeId(NwAddr(ip))
        BY <1>1, <2>3, <2>4 DEF IInv, DomsInv, Attached
  <2>6. doms[h][mac].net = NthSibling(ip, 1) /\ SameSubnet(NthSibling(ip, 1), ip)
        BY <1>1, <2>1, <2>5, BridgesAgree, SiblingStays
  <2>7. mac # None
        BY <2>2, <2>3, ConstantsAssumption
  <2>8. e \in guest[h].eth
        BY <2>2, <2>7 DEF WrittenTo
  <2> QED BY <2>6, <2>8
<1>2. IInv => OnItsNetwork
      BY <1>1 DEF OnItsNetwork
<1> QED BY <1>2, Invariant, PTL
=============================================================================
