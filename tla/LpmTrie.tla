------------------------------ MODULE LpmTrie ------------------------------
(***************************************************************************)
(* The kernel map behind ForwardingTable: a longest-prefix-match trie over *)
(* a key <<data, prefix_len>>.  The kernel compares the BYTES of data in    *)
(* memory order, most significant bit of each byte first.  The program     *)
(* builds every key with Key::new(prefix_len, prefix) from a u32 in host   *)
(* order, and both halves of the program are built for little-endian       *)
(* targets, so the lowest byte of the address is the one compared first.   *)
(*                                                                         *)
(* A prefix here is a pair <<address, length>>; a table is a function on   *)
(* a set of prefixes whose value is None where nothing is stored.          *)
(***************************************************************************)
EXTENDS Integers, FiniteSets

CONSTANTS
  AddressBytes,   \* bytes in an address: 4 in the program
  ByteBits,       \* bits in a byte: 8 in the program
  MaxEntries,     \* with_max_entries of the map: 2048 in the program
  None            \* "nothing stored" and the None of Option

ASSUME LpmTrieAssumption ==
  /\ AddressBytes \in Nat \ {0}
  /\ ByteBits \in Nat \ {0}
  /\ MaxEntries \in Nat

Width == AddressBytes * ByteBits

Address == 0 .. (2^Width - 1)

(* Every <<prefix, prefix_len>> that Key::new accepts, up to the first     *)
(* length the kernel refuses.                                              *)
Prefix == Address \X (0 .. Width + 1)

(***************************************************************************)
(* Bit i of the key as the trie sees it: byte i \div ByteBits in memory    *)
(* order, that is, counted from the LEAST significant byte of the host     *)
(* integer, and inside the byte from the most significant bit.             *)
(***************************************************************************)
TrieBit(address, i) ==
  LET byte == i \div ByteBits
      bit  == ByteBits - 1 - (i % ByteBits)
  IN  (address \div 2^(byte * ByteBits + bit)) % 2

(* Bit i counted from the top of the number: what address/length means to  *)
(* whoever writes a route or reads it off the command line.                *)
NetworkBit(address, i) == (address \div 2^(Width - 1 - i)) % 2

SameTrieBits(a, b, n) == \A i \in 0 .. (n - 1) : TrieBit(a, i) = TrieBit(b, i)

SameNetworkBits(a, b, n) ==
  \A i \in 0 .. (n - 1) : NetworkBit(a, i) = NetworkBit(b, i)

(* p and q are stored in the same node of the trie.                        *)
SameNode(p, q) == p[2] = q[2] /\ SameTrieBits(p[1], q[1], p[2])

(* A stored prefix p answers a lookup of q.                                *)
Answers(p, q) == p[2] <= q[2] /\ SameTrieBits(p[1], q[1], p[2])

(* The network p contains the network q.                                   *)
Contains(p, q) == p[2] <= q[2] /\ SameNetworkBits(p[1], q[1], p[2])

Stored(entries) == {p \in DOMAIN entries : entries[p] # None}

Longest(prefixes, p) == \A q \in prefixes : q[2] <= p[2]

(***************************************************************************)
(* bpf_map_lookup_elem: the value of the longest stored prefix that        *)
(* answers the key, None when there is none or the key is too long.        *)
(***************************************************************************)
TrieLookup(entries, key) ==
  LET hits == {p \in Stored(entries) : Answers(p, key)}
  IN  IF key[2] <= Width /\ \E p \in hits : Longest(hits, p)
      THEN entries[CHOOSE p \in hits : Longest(hits, p)]
      ELSE None

(***************************************************************************)
(* bpf_map_update_elem: the entry of the same node, if any, is replaced    *)
(* together with its key data.  Refused when the length is too long or the *)
(* map is full; the kernels this was written for count the entries before  *)
(* they look for the node, so a full map refuses a replacement as well.    *)
(***************************************************************************)
TrieAccepts(entries, key) ==
  key[2] <= Width /\ Cardinality(Stored(entries)) < MaxEntries

TrieUpdate(entries, key, value) ==
  IF TrieAccepts(entries, key)
  THEN [p \in DOMAIN entries |->
          IF p = key THEN value
          ELSE IF SameNode(p, key) THEN None ELSE entries[p]]
  ELSE entries

(* bpf_map_delete_elem: the node of exactly this prefix.                   *)
TrieDelete(entries, key) ==
  [p \in DOMAIN entries |->
     IF key[2] <= Width /\ SameNode(p, key) THEN None ELSE entries[p]]
=============================================================================
