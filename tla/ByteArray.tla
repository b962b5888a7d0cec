----------------------------- MODULE ByteArray ------------------------------
(***************************************************************************)
(* The serialization buffer of bytearray.cpp: a singly linked list of     *)
(* nodes of m_baseSize bytes, m_root first, with a position, a size, a    *)
(* capacity and m_cur, the node the position falls in.  Every operation  *)
(* is a method on one object that is not shared between threads, so each *)
(* is one step.  Node i of the model is the i-th node of the list; Null   *)
(* is a null Node pointer.  Bytes are abstract values; Junk is the        *)
(* content of memory new char[] left uninitialized.                       *)
(*                                                                         *)
(* The typed writers (writeFint8 to writeFuint64, writeUint32/64, the    *)
(* writeString variants) all end in write(buf, n) and the typed readers *)
(* in read(buf, n), so Write and Read over every short buffer stand for *)
(* them; the varint and zigzag encodings are the pure operators below.  *)
(***************************************************************************)
EXTENDS Integers, Sequences, SequencesExt

CONSTANTS
    Base,      \* m_baseSize
    MaxNodes,  \* bound on the length of the node list
    MaxLen,    \* bound on the length of one write or read
    Vals,      \* byte values a caller writes
    Junk,      \* uninitialized memory
    Null,      \* a null Node*
    IntWidth,  \* 32 or 64 for the varint/zigzag codecs, scaled
    VarintInputs, \* unsigned values the codec is checked on
    ZigzagInputs  \* signed values the codec is checked on

ASSUME Base \in Nat \ {0} /\ MaxNodes \in Nat \ {0} /\ MaxLen \in Nat
ASSUME Junk \notin Vals /\ IntWidth \in Nat \ {0}

NodeIds == 0..(MaxNodes - 1)
Offs == 0..(Base - 1)

VARIABLES
    mem,       \* mem[i][o]: byte o of node i (ptr[o])
    nodes,     \* length of the list from m_root
    capacity,  \* m_capacity
    pos,       \* m_position
    size,      \* m_size
    cur,       \* m_cur, a node index or Null
    out,       \* the bytes the last read handed to the caller
    crashed    \* NoCrash, or the operation and length that dereferenced a null Node*

vars == <<mem, nodes, capacity, pos, size, cur, out, crashed>>

\* node->next: the list is nodes 0 .. n-1 in order.
NextNode(c, n) == IF c + 1 < n THEN c + 1 ELSE Null

(***************************************************************************)
(* The copy loop of write, read, the const read and the iovec getters:    *)
(* starting in node c at offset npos with ncap bytes left in it, take     *)
(* len bytes, moving to the next node (npos = 0, ncap = its size) while   *)
(* the node cannot hold the rest.  The result is the segments touched;    *)
(* reading the size of a null node is a segment with node Null.           *)
(***************************************************************************)
RECURSIVE Segs(_, _, _, _, _)
Segs(c, npos, ncap, len, n) ==
    IF ncap >= len
    THEN <<[node |-> c, off |-> npos, len |-> len]>>
    ELSE <<[node |-> c, off |-> npos, len |-> ncap]>> \o
         LET nx == NextNode(c, n) IN
         IF nx = Null THEN <<[node |-> Null, off |-> 0, len |-> 0]>>
         ELSE Segs(nx, 0, Base, len - ncap, n)

\* npos = p % m_baseSize; ncap = m_cur->size - npos; then the loop.
Walk(c, p, len, n) ==
    IF c = Null THEN <<[node |-> Null, off |-> 0, len |-> 0]>>
    ELSE Segs(c, p % Base, Base - (p % Base), len, n)

Derefs(segs) == \E k \in 1..Len(segs) : segs[k].node = Null

\* The (node, offset) of every byte the segments cover, in order.
Places(segs) ==
    FlattenSeq([k \in 1..Len(segs) |->
                  [i \in 1..segs[k].len |-> <<segs[k].node, segs[k].off + i - 1>>]])

\* m_cur after the loop: moved on when the last copy ended its node.
EndCur(segs, n) ==
    LET last == segs[Len(segs)] IN
    IF last.off + last.len = Base THEN NextNode(last.node, n) ELSE last.node

Load(m, pl) == [j \in 1..Len(pl) |-> m[pl[j][1]][pl[j][2]]]

Store(m, pl, buf) ==
    [i \in NodeIds |-> [o \in Offs |->
        IF \E j \in 1..Len(pl) : pl[j] = <<i, o>>
        THEN buf[CHOOSE j \in 1..Len(pl) : pl[j] = <<i, o>>]
        ELSE m[i][o]]]

(***************************************************************************)
(* addCapacity(k): when fewer than k bytes are left past the position,    *)
(* append ceil((k - left) / m_baseSize) fresh nodes at the tail; m_cur    *)
(* is set to the first of them only when nothing was left.               *)
(***************************************************************************)
\* Mutant: m_cur is not moved onto the first new node.
AddCapacityKeepCur(k) ==
    LET left == capacity - pos
        count == (k - left + Base - 1) \div Base
    IN
    IF left >= k THEN [nodes |-> nodes, capacity |-> capacity, cur |-> cur, mem |-> mem]
    ELSE [nodes |-> nodes + count, capacity |-> capacity + count * Base, cur |-> cur,
          mem |-> [i \in NodeIds |-> IF nodes <= i THEN [o \in Offs |-> Junk] ELSE mem[i]]]

AddCapacity(k) ==
    LET left == capacity - pos
        count == (k - left + Base - 1) \div Base
    IN
    IF left >= k THEN [nodes |-> nodes, capacity |-> capacity, cur |-> cur, mem |-> mem]
    ELSE [nodes |-> nodes + count,
          capacity |-> capacity + count * Base,
          cur |-> IF left = 0 THEN nodes ELSE cur,
          mem |-> [i \in NodeIds |-> IF nodes <= i THEN [o \in Offs |-> Junk] ELSE mem[i]]]

NoCrash == [op |-> "none", len |-> 0]

Crash(op, len) ==
    /\ crashed' = [op |-> op, len |-> len]
    /\ UNCHANGED <<mem, nodes, capacity, pos, size, cur, out>>

\* ByteArray(base_size): one node, m_cur = m_root.
Init ==
    /\ mem = [i \in NodeIds |-> [o \in Offs |-> Junk]]
    /\ nodes = 1 /\ capacity = Base
    /\ pos = 0 /\ size = 0 /\ cur = 0
    /\ out = <<>> /\ crashed = NoCrash

(***************************************************************************)
(* write(buf, n) (bytearray.cpp:363-397): addCapacity(n), then the copy   *)
(* loop from m_cur at m_position % m_baseSize, m_cur moving on when a     *)
(* copy ends its node; the size grows to the new position.               *)
(***************************************************************************)
Write(buf) ==
    LET k == Len(buf)
        ac == AddCapacity(k)
        segs == Walk(ac.cur, pos, k, ac.nodes)
    IN
    /\ crashed = NoCrash
    /\ ac.nodes <= MaxNodes
    /\ IF Derefs(segs) THEN Crash("write", k)
       ELSE /\ mem' = Store(ac.mem, Places(segs), buf)
            /\ nodes' = ac.nodes
            /\ capacity' = ac.capacity
            /\ cur' = EndCur(segs, ac.nodes)
            /\ pos' = pos + k
            /\ size' = IF pos + k > size THEN pos + k ELSE size
            /\ UNCHANGED <<out, crashed>>

(***************************************************************************)
(* read(buf, n) (bytearray.cpp:400-428).  Reading past the size fails     *)
(* MS_ASSERT2 or throws before any change, and is left out.  ncap reads   *)
(* m_cur->size before the loop, even for n = 0.                           *)
(***************************************************************************)
Read(n) ==
    LET segs == Walk(cur, pos, n, nodes) IN
    /\ crashed = NoCrash
    /\ n <= size - pos
    /\ IF Derefs(segs) THEN Crash("read", n)
       ELSE /\ out' = Load(mem, Places(segs))
            /\ cur' = EndCur(segs, nodes)
            /\ pos' = pos + n
            /\ UNCHANGED <<mem, nodes, capacity, size, crashed>>

\* Hand the caller bytes [m_position, m_position + n) without moving.
PeekFromCur(op, n) ==
    LET segs == Walk(cur, pos, n, nodes) IN
    IF Derefs(segs) THEN Crash(op, n)
    ELSE /\ out' = Load(mem, Places(segs))
         /\ UNCHANGED <<mem, nodes, capacity, pos, size, cur, crashed>>

NoBytes ==
    /\ out' = <<>>
    /\ UNCHANGED <<mem, nodes, capacity, pos, size, cur, crashed>>

(***************************************************************************)
(* toString (bytearray.cpp:539-548): empty when nothing is left to read,  *)
(* otherwise the const read(buf, n, m_position) (431-459), which starts   *)
(* its loop from m_cur.                                                   *)
(***************************************************************************)
ByteString ==
    /\ crashed = NoCrash
    /\ IF size - pos = 0 THEN NoBytes ELSE PeekFromCur("toString", size - pos)

\* Mutant: len is not clamped to getReadSize().
GetReadBuffersNoClamp(len) ==
    /\ crashed = NoCrash
    /\ len <= capacity - pos
    /\ IF len = 0 THEN NoBytes ELSE PeekFromCur("getReadBuffers", len)

(***************************************************************************)
(* getReadBuffers(buffers, len) (bytearray.cpp:568-597): len clamped to   *)
(* getReadSize(), the iovecs of that many bytes from m_cur; the caller    *)
(* sends what they cover.                                                 *)
(***************************************************************************)
GetReadBuffers(len) ==
    LET l == IF len > size - pos THEN size - pos ELSE len IN
    /\ crashed = NoCrash
    /\ IF l = 0 THEN NoBytes ELSE PeekFromCur("getReadBuffers", l)

(***************************************************************************)
(* getWriteBuffers(buffers, len) (bytearray.cpp:637-665): addCapacity and *)
(* the iovecs of len bytes from m_cur.  What the caller then receives     *)
(* into them becomes data only through a later setPosition.              *)
(***************************************************************************)
GetWriteBuffers(len) ==
    LET ac == AddCapacity(len)
        segs == Walk(ac.cur, pos, len, ac.nodes)
    IN
    /\ crashed = NoCrash
    /\ len > 0
    /\ ac.nodes <= MaxNodes
    /\ IF Derefs(segs) THEN Crash("getWriteBuffers", len)
       ELSE /\ nodes' = ac.nodes
            /\ capacity' = ac.capacity
            /\ cur' = ac.cur
            /\ mem' = ac.mem
            /\ UNCHANGED <<pos, size, out, crashed>>

\* Mutant: no step past a node the position ends exactly.
RECURSIVE SeekNoStep(_, _, _)
SeekNoStep(c, v, n) ==
    IF v > Base THEN SeekNoStep(NextNode(c, n), v - Base, n) ELSE c

\* setPosition's walk from m_root: skip whole nodes while v > size, and
\* step past a node the position ends exactly.
RECURSIVE Seek(_, _, _)
Seek(c, v, n) ==
    IF v > Base THEN Seek(NextNode(c, n), v - Base, n)
    ELSE IF v = Base THEN NextNode(c, n) ELSE c

(***************************************************************************)
(* setPosition(v) (bytearray.cpp:462-479); v > m_capacity throws first.   *)
(***************************************************************************)
SetPosition(v) ==
    /\ crashed = NoCrash
    /\ v <= capacity
    /\ pos' = v
    /\ size' = IF v > size THEN v ELSE size
    /\ cur' = Seek(0, v, nodes)
    /\ UNCHANGED <<mem, nodes, capacity, out, crashed>>

\* Mutant: m_cur = m_root is missing; m_cur is left on the last node deleted.
ClearNoCurReset ==
    /\ crashed = NoCrash
    /\ pos' = 0 /\ size' = 0
    /\ capacity' = Base /\ nodes' = 1
    /\ cur' = IF nodes > 1 THEN nodes - 1 ELSE cur
    /\ UNCHANGED <<mem, out, crashed>>

\* clear() (bytearray.cpp:349-359): keep m_root only.
Clear ==
    /\ crashed = NoCrash
    /\ pos' = 0 /\ size' = 0
    /\ capacity' = Base /\ nodes' = 1 /\ cur' = 0
    /\ UNCHANGED <<mem, out, crashed>>

\* After a segmentation fault nothing runs.
Crashed == crashed # NoCrash /\ UNCHANGED vars

CrashOps == {"write", "read", "toString", "getReadBuffers", "getWriteBuffers"}

Bufs == UNION {[1..k -> Vals] : k \in 1..MaxLen}

Next ==
    \/ \E buf \in Bufs : Write(buf)
    \/ \E n \in 0..MaxLen : Read(n) \/ GetReadBuffers(n)
    \/ \E n \in 1..MaxLen : GetWriteBuffers(n)
    \/ \E v \in 0..(MaxNodes * Base) : SetPosition(v)
    \/ ByteString \/ Clear \/ Crashed

Spec == Init /\ [][Next]_vars

-----------------------------------------------------------------------------
(***************************************************************************)
(* The varint and zigzag codecs (bytearray.cpp:102-161, 257-293) for a    *)
(* w-bit integer; the 32- and 64-bit versions differ only in w.           *)
(***************************************************************************)
AllOnes == 2^IntWidth - 1

(***************************************************************************)
(* The bit operations on the operands they get here: v & 0x7F is v % 128; *)
(* OR-ing 0x80 into a value below 128 adds 128; v >> 7 of an unsigned     *)
(* value is v \div 128; x ^ ~0 is AllOnes - x and x ^ 0 is x; OR-ing a    *)
(* 7-bit group shifted past the bits already set adds it.                 *)
(***************************************************************************)
Not(x) == AllOnes - x

\* writeUint32/64: 7 bits at a time, low group first, 0x80 on all but the last.
RECURSIVE EncodeVarint(_)
EncodeVarint(v) ==
    IF v >= 128 THEN <<(v % 128) + 128>> \o EncodeVarint(v \div 128) ELSE <<v>>

\* readUint32/64: for (i = 0; i < w; i += 7), OR-ing (b & 0x7f) << i into a
\* w-bit result, stopping after the first byte below 0x80.
RECURSIVE ReadVarintLoop(_, _, _, _)
ReadVarintLoop(bytes, k, i, result) ==
    IF i >= IntWidth THEN [value |-> result, used |-> k - 1]
    ELSE LET b == bytes[k] IN
         IF b < 128 THEN [value |-> result + ((b * 2^i) % 2^IntWidth), used |-> k]
         ELSE ReadVarintLoop(bytes, k + 1, i + 7,
                             result + (((b % 128) * 2^i) % 2^IntWidth))

ReadVarint(bytes) == ReadVarintLoop(bytes, 1, 0, 0)

\* Mutant: v >> (w-1) taken as a logical shift (0 or 1).
EncodeZigzagLogical(v) ==
    LET x == (2 * v) % 2^IntWidth IN
    IF v < 0 THEN x + 1 ELSE x

\* EncodeZigzag32/64: (v << 1) ^ (v >> (w-1)) on a two's complement int,
\* as unsigned; v >> (w-1) is all ones for a negative v.
EncodeZigzag(v) ==
    LET x == (2 * v) % 2^IntWidth IN
    IF v < 0 THEN Not(x) ELSE x

\* DecodeZigzag32/64: (u >> 1) ^ -(u & 1), returned as a signed int.
DecodeZigzag(u) ==
    LET x == IF u % 2 = 1 THEN Not(u \div 2) ELSE u \div 2 IN
    IF x >= 2^(IntWidth - 1) THEN x - 2^IntWidth ELSE x

\* Reference definitions: the zigzag map spelled out in the disabled branch
\* (#if 0), and the number of 7-bit groups of v.
RefZigzag(v) == IF v >= 0 THEN 2 * v ELSE -2 * v - 1

VarintLength(v) ==
    CHOOSE k \in 1..((IntWidth + 6) \div 7) :
        v < 2^(7 * k) /\ (k = 1 \/ v >= 2^(7 * (k - 1)))

-----------------------------------------------------------------------------
TypeOK ==
    /\ mem \in [NodeIds -> [Offs -> Vals \cup {Junk}]]
    /\ nodes \in 1..MaxNodes /\ capacity \in Nat
    /\ pos \in Nat /\ size \in Nat
    /\ cur \in (0..(nodes - 1)) \cup {Null}  \* null or a live node, never a deleted one
    /\ out \in Seq(Vals \cup {Junk})
    /\ crashed \in {NoCrash} \cup [op : CrashOps, len : Nat]

(***************************************************************************)
(* The list and the counters agree whatever mix of writes, reads,         *)
(* setPosition, getWriteBuffers and clear ran: m_capacity is the bytes the *)
(* list really has, the position and size lie within it, and m_cur is the *)
(* node the position falls in (the next one when the position ends a node, *)
(* null past the tail).  Every copy loop starts at m_cur with npos =      *)
(* m_position % m_baseSize and relies on this.                            *)
(***************************************************************************)
LayoutOK ==
    /\ capacity = nodes * Base
    /\ pos <= size /\ size <= capacity
    /\ cur = IF pos \div Base < nodes THEN pos \div Base ELSE Null

(***************************************************************************)
(* The node list implements a flat byte array: mapping the bytes below    *)
(* m_size to node p / m_baseSize, offset p % m_baseSize, every write,     *)
(* read, toString, getReadBuffers, setPosition and clear is a step of     *)
(* FlatBuffer, and getWriteBuffers and a crash change nothing it sees.    *)
(***************************************************************************)
(***************************************************************************)
(* The only null Node* any sequence of calls dereferences is m_cur in     *)
(* read(buf, 0) with the position at the end of the list (readStringF16,  *)
(* F32, F64 or Vint of an empty string that ends a node exactly): write,  *)
(* getWriteBuffers, toString, getReadBuffers and every other read find    *)
(* m_cur, or the next node, present.                                     *)
(***************************************************************************)
OnlyEmptyReadCrashes ==
    crashed = NoCrash \/ crashed = [op |-> "read", len |-> 0]

Flat == INSTANCE FlatBuffer WITH
    MaxCap <- MaxNodes * Base,
    data <- [p \in 0..(MaxNodes * Base - 1) |->
               IF p < size THEN mem[p \div Base][p % Base] ELSE Junk]

ImplementsFlatBuffer == Flat!Spec

(***************************************************************************)
(* writeUint32/64 followed by readUint32/64, and writeInt32/64 (zigzag,   *)
(* then varint) followed by readInt32/64, give back the value, in as many *)
(* bytes as the encoded value has 7-bit groups, each a byte, the reader   *)
(* consuming exactly the bytes the writer produced; the shift-and-xor     *)
(* zigzag is the textbook map of the disabled branch (#if 0), wrap-around *)
(* of v << 1 included.  The unsigned values include the lengths           *)
(* writeStringVint would put before the buffer's own contents.            *)
(***************************************************************************)
VarintOK(v) ==
    LET e == EncodeVarint(v) IN
    /\ Len(e) = VarintLength(v)
    /\ \A j \in 1..Len(e) : e[j] \in 0..255
    /\ ReadVarint(e) = [value |-> v, used |-> Len(e)]

CodecRoundTrip ==
    /\ \A v \in VarintInputs \cup {size, size - pos} : VarintOK(v)
    /\ \A v \in ZigzagInputs :
          /\ EncodeZigzag(v) = RefZigzag(v)
          /\ VarintOK(EncodeZigzag(v))
          /\ DecodeZigzag(ReadVarint(EncodeVarint(EncodeZigzag(v))).value) = v

=============================================================================
