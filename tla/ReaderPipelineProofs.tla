------------------------ MODULE ReaderPipelineProofs ------------------------
(***************************************************************************)
(* Proofs about ReaderPipeline, for every input, every size of reads and   *)
(* of the channel, every interleaving of the two threads and every place   *)
(* where a read or the spawn may fail.                                     *)
(***************************************************************************)
EXTENDS ReaderPipeline, LoopLemmas, TLAPS

\* A block in memory.
Block == [bytes : Seq(Positions), len : Nat]
Sound(b) == b \in Block /\ b.len <= Len(b.bytes)

\* b holds the bytes of the input from the one after p on.
Carries(b, p) == \A i \in 1 .. b.len : b.bytes[i] = p + i

\* A block on its way to the parser: one line at least, and whole lines.
Whole(b, p) == p \in Nat /\ b.len > 0 /\ Carries(b, p) /\ p + b.len <= off /\ Abs!LineEnd(p + b.len)

\* Where the bytes pending, and those being sent, come after.
PendingFrom == off - pending.len
OutFrom     == PendingFrom - out.len

\* Where the first i blocks of the channel end.
EndOf(i) == IF i = 0 THEN Len(seen) + cur.len ELSE blocks[i][1].bytes[1] - 1 + blocks[i][1].len

(* The inductive invariant.  Buffers is about memory, ReaderHas about the
   bytes with the reader, Channel and ParserHas about those on their way: they
   follow each other without a gap.  AtEnd says when the channel may end. *)
Types ==
  /\ input \in Seq({"nl", "ch"}) /\ Len(input) <= MaxLen
  /\ bad \in 0 .. Len(input) /\ off \in 0 .. Len(input)
  /\ rpc \in {"unborn", "read", "send", "last", "error", "gone"}
  /\ ppc \in {"start", "receive", "parse", "gone"}
  /\ outcome \in {"none", "parsed", "failed"}
  /\ outcome = "none" <=> ppc # "gone"
  /\ spent \in Seq(Block) /\ blocks \in Seq(Seq(Block))

Buffers ==
  /\ Sound(cur) /\ Sound(out) /\ Sound(pending)
  /\ rpc \in {"unborn", "read", "send"} => pending.bytes # <<>>
  /\ \A i \in DOMAIN spent : Sound(spent[i]) /\ spent[i].bytes # <<>>
  /\ \A i \in DOMAIN blocks : blocks[i] = <<>> \/ (blocks[i] = <<blocks[i][1]>> /\ Sound(blocks[i][1]))
  /\ Len(blocks) <= ReadAhead
  /\ Owned <= ReadAhead + 3

ReaderHas ==
  /\ PendingFrom \in Nat /\ Carries(pending, PendingFrom)
  /\ OutFrom \in Nat
  /\ rpc \in {"send", "last"} => Whole(out, OutFrom)
  /\ rpc \notin {"send", "last"} => out = NoBlock
  /\ rpc = "last" => off = Len(input) /\ pending = NoBlock
  /\ rpc = "unborn" => off = 0

Channel ==
  ppc # "gone" =>
    /\ \A i \in DOMAIN blocks :
         IF blocks[i] = <<>> THEN i = Len(blocks) /\ rpc = "gone"
         ELSE Whole(blocks[i][1], EndOf(i - 1))
    /\ blocks = <<>> \/ blocks[Len(blocks)] # <<>> => EndOf(Len(blocks)) = OutFrom

ParserHas ==
  ppc # "gone" =>
    /\ Len(seen) \in 0 .. off /\ seen = Abs!Prefix(Len(seen))
    /\ ppc = "parse" => Whole(cur, Len(seen))
    /\ ppc # "parse" => cur = NoBlock
    /\ ppc = "start" <=> rpc = "unborn"

AtEnd ==
  ppc # "gone" /\ rpc = "gone" =>
    \/ blocks # <<>> /\ blocks[Len(blocks)] = <<>>
    \/ off = Len(input) /\ pending.len = 0

IInv == Types /\ Buffers /\ ReaderHas /\ Channel /\ ParserHas /\ AtEnd

-----------------------------------------------------------------------------
(* The blocks.                                                             *)

LEMMA BufferSeq ==
  ASSUME NEW n \in Nat
  PROVE  Buffer(n) \in Seq(Positions) /\ Len(Buffer(n)) = n
<1>1. 0 \in Positions
  BY ReaderAssumption DEF Positions
<1>2. Buffer(n) \in [1 .. n -> Positions]
  BY <1>1 DEF Buffer
<1> QED  BY <1>2

LEMMA ConcatSeq ==
  ASSUME NEW S, NEW a \in Seq(S), NEW c \in Seq(S)
  PROVE  /\ a \o c \in Seq(S) /\ Len(a \o c) = Len(a) + Len(c)
         /\ \A i \in 1 .. Len(a) : (a \o c)[i] = a[i]
         /\ \A i \in 1 .. Len(a) + Len(c) :
              (a \o c)[i] = IF i <= Len(a) THEN a[i] ELSE c[i - Len(a)]
OBVIOUS

LEMMA FreshBlocks ==
  /\ Sound(NewBlock) /\ NewBlock.bytes # <<>> /\ NewBlock.len = 0
  /\ Sound(NoBlock) /\ NoBlock.len = 0
<1>1. 2 * ReadChunk \in Nat /\ 2 * ReadChunk > 0
  BY ReaderAssumption
<1>2. Buffer(2 * ReadChunk) \in Seq(Positions) /\ Len(Buffer(2 * ReadChunk)) > 0
  BY <1>1, BufferSeq
<1>3. <<>> \in Seq(Positions) /\ Len(<<>>) = 0
  OBVIOUS
<1> QED  BY <1>2, <1>3 DEF NewBlock, NoBlock, Sound, Block

LEMMA GrownBlock ==
  ASSUME NEW b \in Block, NEW n \in Nat
  PROVE  /\ Grown(b, n) \in Block /\ Grown(b, n).len = b.len
         /\ Len(Grown(b, n).bytes) >= n /\ Len(Grown(b, n).bytes) >= Len(b.bytes)
         /\ \A i \in 1 .. Len(b.bytes) : Grown(b, n).bytes[i] = b.bytes[i]
<1>1. CASE Len(b.bytes) < n
  <2> DEFINE m == n - Len(b.bytes)
  <2>1. b.bytes \in Seq(Positions) /\ b.len \in Nat /\ m \in Nat
    BY <1>1 DEF Block
  <2>2. Buffer(m) \in Seq(Positions) /\ Len(Buffer(m)) = m
    BY <2>1, BufferSeq
  <2>3. Grown(b, n) = [b EXCEPT !.bytes = @ \o Buffer(m)]
    BY <1>1 DEF Grown
  <2>4. Grown(b, n).bytes = b.bytes \o Buffer(m) /\ Grown(b, n).len = b.len
    BY <2>3 DEF Block
  <2>5. /\ b.bytes \o Buffer(m) \in Seq(Positions)
        /\ Len(b.bytes \o Buffer(m)) = n
        /\ \A i \in 1 .. Len(b.bytes) : (b.bytes \o Buffer(m))[i] = b.bytes[i]
    <3>1. Len(b.bytes) + m = n
      BY <2>1
    <3> HIDE DEF m
    <3>2. /\ b.bytes \o Buffer(m) \in Seq(Positions)
          /\ Len(b.bytes \o Buffer(m)) = Len(b.bytes) + Len(Buffer(m))
          /\ \A i \in 1 .. Len(b.bytes) : (b.bytes \o Buffer(m))[i] = b.bytes[i]
      BY <2>1, <2>2, ConcatSeq
    <3> QED  BY <2>2, <3>1, <3>2
  <2>6. Grown(b, n) \in Block
    BY <2>1, <2>3, <2>5 DEF Block
  <2>7. Len(b.bytes) \in Nat
    BY <2>1
  <2> HIDE DEF m
  <2> QED  BY <1>1, <2>4, <2>5, <2>6, <2>7
<1>2. CASE ~(Len(b.bytes) < n)
  <2>1. Grown(b, n) = b /\ b.bytes \in Seq(Positions)
    BY <1>2 DEF Grown, Block
  <2> QED  BY <1>2, <2>1
<1> QED  BY <1>1, <1>2

LEMMA StoredSeq ==
  ASSUME NEW bytes \in Seq(Positions), NEW at \in Nat, NEW s \in Seq(Positions)
  PROVE  /\ Stored(bytes, at, s) \in Seq(Positions)
         /\ Len(Stored(bytes, at, s)) = Len(bytes)
         /\ \A i \in 1 .. Len(bytes) :
              Stored(bytes, at, s)[i] = IF i - at \in 1 .. Len(s) THEN s[i - at] ELSE bytes[i]
<1>1. Stored(bytes, at, s) \in [1 .. Len(bytes) -> Positions]
  BY DEF Stored
<1>2. Len(bytes) \in Nat
  OBVIOUS
<1>3. Len(Stored(bytes, at, s)) = Len(bytes)
  BY <1>1, <1>2
<1>4. Stored(bytes, at, s) \in Seq(Positions)
  BY <1>1, <1>2
<1> QED  BY <1>3, <1>4 DEF Stored

\* A read appends the bytes it returns to those pending.
LEMMA FilledBlock ==
  ASSUME Sound(pending), off \in Nat, off - pending.len \in Nat, input \in Seq({"nl", "ch"}),
         Len(input) <= MaxLen, Carries(pending, off - pending.len),
         NEW k \in 1 .. ReadChunk, off + k <= Len(input)
  PROVE  /\ Sound(Filled(k)) /\ Filled(k).bytes # <<>> /\ Filled(k).len = pending.len + k
         /\ Carries(Filled(k), off - pending.len)
<1> DEFINE g == Grown(pending, pending.len + ReadChunk)
           s == [i \in 1 .. k |-> off + i]
<1>0. pending \in Block /\ pending.len \in Nat /\ pending.bytes \in Seq(Positions)
      /\ k \in Nat /\ ReadChunk \in Nat /\ pending.len + ReadChunk \in Nat /\ Len(input) \in Nat
  BY ReaderAssumption DEF Sound, Block
<1>1. s \in Seq(Positions) /\ Len(s) = k
  <2>1. \A i \in 1 .. k : off + i \in Positions
    BY <1>0, ReaderAssumption DEF Positions
  <2>2. s \in [1 .. k -> Positions]
    BY <2>1
  <2> HIDE DEF s
  <2> QED  BY <1>0, <2>2
<1>2. /\ g \in Block /\ g.len = pending.len /\ Len(g.bytes) >= pending.len + ReadChunk
      /\ \A i \in 1 .. Len(pending.bytes) : g.bytes[i] = pending.bytes[i]
  BY <1>0, GrownBlock
<1>3. g.bytes \in Seq(Positions) /\ g.len \in Nat
  BY <1>2 DEF Block
<1> DEFINE t == Stored(g.bytes, g.len, s)
<1>4. Filled(k) = [bytes |-> t, len |-> pending.len + k]
  BY <1>2 DEF Filled
<1>5. /\ t \in Seq(Positions) /\ Len(t) = Len(g.bytes)
      /\ \A i \in 1 .. Len(g.bytes) : t[i] = IF i - g.len \in 1 .. k THEN s[i - g.len] ELSE g.bytes[i]
  <2> HIDE DEF g, s
  <2>1. /\ t \in Seq(Positions) /\ Len(t) = Len(g.bytes)
        /\ \A i \in 1 .. Len(g.bytes) : t[i] = IF i - g.len \in 1 .. Len(s) THEN s[i - g.len] ELSE g.bytes[i]
    BY <1>1, <1>3, StoredSeq
  <2> QED  BY <2>1, <1>1
<1>6. \A i \in 1 .. pending.len : t[i] = off - pending.len + i
  <2> TAKE i \in 1 .. pending.len
  <2>1. i \in 1 .. Len(g.bytes) /\ i \in 1 .. Len(pending.bytes) /\ ~(i - g.len \in 1 .. k)
    <3>1. /\ pending.len <= Len(pending.bytes) /\ Len(pending.bytes) \in Nat
          /\ Len(g.bytes) \in Nat /\ g.len = pending.len
      BY <1>0, <1>2, <1>3 DEF Sound
    <3>2. pending.len + ReadChunk <= Len(g.bytes) /\ pending.len \in Nat /\ ReadChunk \in Nat
      BY <1>0, <1>2, <3>1
    <3> HIDE DEF g, s, t
    <3> QED  BY ONLY <3>1, <3>2, i \in 1 .. pending.len
  <2>2. t[i] = pending.bytes[i]
    BY <1>2, <1>5, <2>1
  <2> QED  BY <2>2 DEF Carries
<1>7. \A i \in pending.len + 1 .. pending.len + k : t[i] = off - pending.len + i
  <2> TAKE i \in pending.len + 1 .. pending.len + k
  <2>1. i \in 1 .. Len(g.bytes) /\ i - g.len \in 1 .. k
    <3>1. Len(g.bytes) \in Nat /\ g.len = pending.len
          /\ Len(g.bytes) >= pending.len + ReadChunk
      BY <1>2, <1>3
    <3>2. i \in Nat /\ pending.len + 1 <= i /\ i <= pending.len + k /\ 1 <= k /\ k <= ReadChunk
      BY <1>0
    <3>3. k \in Nat /\ pending.len \in Nat /\ ReadChunk \in Nat
      BY <1>0
    <3> HIDE DEF g, s, t
    <3>4. i <= Len(g.bytes)
      BY <3>1, <3>2, <3>3
    <3>5. i - g.len >= 1 /\ i - g.len <= k /\ i - g.len \in Int
      BY <3>1, <3>2, <3>3
    <3> QED  BY <3>1, <3>2, <3>3, <3>4, <3>5
  <2>2. t[i] = s[i - g.len]
    BY <1>5, <2>1
  <2>3. s[i - g.len] = off + (i - g.len)
    BY <2>1
  <2>4. i \in Int /\ g.len = pending.len /\ pending.len \in Int /\ off \in Int
    BY <1>0, <1>2
  <2> HIDE DEF g, s, t
  <2>5. off + (i - pending.len) = off - pending.len + i
    BY ONLY <2>4
  <2> QED  BY ONLY <2>2, <2>3, <2>4, <2>5
<1> HIDE DEF t, g, s
<1>8. Carries(Filled(k), off - pending.len)
  BY <1>0, <1>4, <1>6, <1>7 DEF Carries
<1>9. Sound(Filled(k)) /\ Filled(k).bytes # <<>>
  <2>1. pending.len + k <= Len(t) /\ Len(t) # 0
    <3>1. /\ Len(t) = Len(g.bytes) /\ Len(g.bytes) \in Nat
          /\ pending.len + ReadChunk <= Len(g.bytes)
      BY <1>2, <1>3, <1>5
    <3>2. pending.len \in Nat /\ ReadChunk \in Nat
      BY <1>0
    <3> QED  BY ONLY <3>1, <3>2, k \in 1 .. ReadChunk
  <2>2. Len(<<>>) = 0 /\ t # <<>>
    BY <2>1, <1>5
  <2> QED  BY <1>0, <1>4, <1>5, <2>1, <2>2 DEF Sound, Block
<1> QED  BY <1>4, <1>8, <1>9

\* The cut after the last newline of a block, when it has one.
LEMMA LastNewlineIs ==
  ASSUME NEW b, Sound(b)
  PROVE  /\ LastNewline(b) \in 0 .. b.len
         /\ LastNewline(b) # 0 => input[b.bytes[LastNewline(b)]] = "nl"
<1> DEFINE at == {i \in 1 .. b.len : input[b.bytes[i]] = "nl"}
<1>0. b.len \in Nat /\ at \in SUBSET Nat /\ \A i \in at : i <= b.len
  BY DEF Sound, Block
<1>1. CASE at = {}
  BY <1>0, <1>1 DEF LastNewline
<1>2. CASE at # {}
  <2>1. LastNewline(b) = CHOOSE i \in at : \A j \in at : j <= i
    BY <1>2 DEF LastNewline
  <2>2. \E i \in at : \A j \in at : j <= i
    <3> HIDE DEF at
    <3> QED  BY <1>0, <1>2, GreatestNat
  <2>3. LastNewline(b) \in at
    BY <2>1, <2>2
  <2> QED  BY <1>0, <2>3
<1> QED  BY <1>1, <1>2

\* The unfinished line, moved to another block.
LEMMA MovedBlock ==
  ASSUME NEW b \in Block, b.bytes # <<>>, NEW tail \in Seq(Positions)
  PROVE  /\ Sound(Moved(b, tail)) /\ Moved(b, tail).bytes # <<>>
         /\ Moved(b, tail).len = Len(tail)
         /\ \A i \in 1 .. Len(tail) : Moved(b, tail).bytes[i] = tail[i]
<1> DEFINE g == Grown(b, Len(tail))
           t == Stored(g.bytes, 0, tail)
<1>0. Len(tail) \in Nat /\ b.bytes \in Seq(Positions)
  BY DEF Block
<1>1. g \in Block /\ Len(g.bytes) >= Len(tail) /\ Len(g.bytes) >= Len(b.bytes)
  BY <1>0, GrownBlock
<1>2. g.bytes \in Seq(Positions)
  BY <1>1 DEF Block
<1>3. Moved(b, tail) = [bytes |-> t, len |-> Len(tail)]
  BY DEF Moved
<1> HIDE DEF g
<1>4. /\ t \in Seq(Positions) /\ Len(t) = Len(g.bytes)
      /\ \A i \in 1 .. Len(g.bytes) : t[i] = IF i - 0 \in 1 .. Len(tail) THEN tail[i - 0] ELSE g.bytes[i]
  BY <1>0, <1>2, StoredSeq
<1> HIDE DEF t
<1>5. \A i \in 1 .. Len(tail) : t[i] = tail[i]
  BY <1>0, <1>1, <1>2, <1>4
<1>6. Len(b.bytes) # 0 /\ Len(<<>>) = 0
  BY <1>0
<1>7. t # <<>>
  BY <1>0, <1>1, <1>2, <1>4, <1>6
<1> QED  BY <1>0, <1>1, <1>2, <1>3, <1>4, <1>5, <1>7 DEF Sound, Block

-----------------------------------------------------------------------------
(* The initial state, and the reader's steps.                              *)

LEMMA InitIInv == Init => IInv
<1> SUFFICES ASSUME Init PROVE IInv
  OBVIOUS
<1>0. /\ cur = NoBlock /\ out = NoBlock /\ pending = NewBlock /\ seen = <<>>
      /\ blocks = <<>> /\ spent = <<>> /\ off = 0 /\ rpc = "unborn" /\ ppc = "start"
      /\ outcome = "none"
  BY DEF Init
<1>1. Len(<<>>) = 0 /\ DOMAIN <<>> = {}
  OBVIOUS
<1>2. Types
  <2>1. PICK n \in 0 .. MaxLen : input \in [1 .. n -> {"nl", "ch"}]
    BY DEF Init, Inputs
  <2>2. n \in Nat /\ n <= MaxLen
    BY <2>1, ReaderAssumption
  <2>3. input \in Seq({"nl", "ch"}) /\ Len(input) = n
    BY <2>1, <2>2
  <2> QED  BY <2>2, <2>3, <1>0 DEF Init, Types
<1>3. Buffers
  <2>1. Owned \in Nat /\ Owned <= ReadAhead + 3
    BY <1>0, <1>1, ReaderAssumption DEF Owned, Holding
  <2> QED  BY <1>0, <1>1, <2>1, FreshBlocks, ReaderAssumption DEF Buffers
<1>4. ReaderHas
  BY <1>0, FreshBlocks DEF ReaderHas, PendingFrom, OutFrom, Carries
<1>5. Channel
  BY <1>0, <1>1, FreshBlocks DEF Channel, EndOf, OutFrom, PendingFrom
<1>6. ParserHas
  <2>1. Abs!Prefix(0) = <<>>
    BY DEF Abs!Prefix
  <2> QED  BY <1>0, <1>1, <2>1 DEF ParserHas
<1>7. AtEnd
  BY <1>0 DEF AtEnd
<1> QED  BY <1>2, <1>3, <1>4, <1>5, <1>6, <1>7 DEF IInv

\* A block is unharmed by what leaves its bytes and the input alone.
LEMMA ChannelStays ==
  ASSUME IInv, off' \in Nat, off' >= off, input' = input, blocks' = blocks, seen' = seen, cur' = cur,
         ppc' = ppc, rpc # "gone", OutFrom' = OutFrom
  PROVE  Channel'
<1> USE DEF IInv
<1> SUFFICES ASSUME ppc # "gone" PROVE Channel'
  BY DEF Channel
<1>1. \A i \in DOMAIN blocks : EndOf(i)' = EndOf(i)
  BY DEF EndOf
<1>2. EndOf(0)' = EndOf(0) /\ \A i \in DOMAIN blocks : i - 1 # 0 => i - 1 \in DOMAIN blocks
  BY DEF EndOf, Types
<1>3. \A i \in DOMAIN blocks : EndOf(i - 1)' = EndOf(i - 1)
  BY <1>1, <1>2
<1>4. Len(blocks) # 0 => Len(blocks) \in DOMAIN blocks
  BY DEF Types
<1> HIDE DEF EndOf
<1>5. EndOf(Len(blocks))' = EndOf(Len(blocks))
  BY <1>1, <1>2, <1>4
<1>6. ASSUME NEW i \in DOMAIN blocks
      PROVE  blocks[i] # <<>> /\ Whole(blocks[i][1], EndOf(i - 1))'
  <2>0. blocks[i] # <<>>
    BY DEF Channel
  <2>1. Whole(blocks[i][1], EndOf(i - 1)) /\ blocks[i][1].len \in Nat
    BY <2>0 DEF Channel, Buffers, Sound, Block
  <2>2. EndOf(i - 1)' = EndOf(i - 1) /\ blocks'[i] = blocks[i]
    BY <1>3
  <2>3. EndOf(i - 1) + blocks[i][1].len <= off'
    <3>1. /\ EndOf(i - 1) \in Nat /\ EndOf(i - 1) + blocks[i][1].len <= off
          /\ off \in 0 .. Len(input) /\ Len(input) \in Nat
      BY <2>1 DEF Whole, Types
    <3>2. off' \in Nat /\ off' >= off
      OBVIOUS
    <3> QED  BY ONLY <2>1, <3>1, <3>2
  <2> QED  BY <2>0, <2>1, <2>2, <2>3 DEF Whole, Carries, Abs!LineEnd
<1> QED  BY <1>5, <1>6 DEF Channel

\* What a read appends, and what a cut leaves.
LEMMA ReadSomeStep == IInv /\ ReadSome => IInv'
<1> SUFFICES ASSUME IInv, ReadSome PROVE IInv'
  OBVIOUS
<1> USE DEF IInv
<1>1. PICK k \in 1 .. ReadChunk :
        /\ off + k <= Len(input)
        /\ off' = off + k
        /\ LET b    == Filled(k)
               last == LastNewline(b)
               tail == SubSeq(b.bytes, last + 1, b.len)
               next == IF spent = <<>> THEN NewBlock ELSE Head(spent)
           IN  IF last = 0
               THEN /\ pending' = b
                    /\ UNCHANGED <<rpc, out, spent>>
               ELSE /\ out' = [b EXCEPT !.len = last]
                    /\ pending' = Moved(next, tail)
                    /\ spent' = IF spent = <<>> THEN spent ELSE Tail(spent)
                    /\ rpc' = "send"
  BY DEF ReadSome
<1>2. /\ rpc = "read" /\ out = NoBlock /\ input' = input /\ bad' = bad
      /\ blocks' = blocks /\ ppc' = ppc /\ cur' = cur /\ seen' = seen /\ outcome' = outcome
  BY DEF ReadSome, ReaderHas, pvars
<1>3. /\ off \in Nat /\ off' \in Nat /\ off' >= off /\ k \in Nat /\ k > 0
      /\ off' = off + k /\ off' <= Len(input) /\ Len(input) \in Nat
  BY <1>1, ReaderAssumption DEF Types
<1> DEFINE b    == Filled(k)
           last == LastNewline(b)
           tail == SubSeq(b.bytes, last + 1, b.len)
           next == IF spent = <<>> THEN NewBlock ELSE Head(spent)
<1>4. /\ PendingFrom \in Nat /\ Carries(pending, PendingFrom) /\ OutFrom \in Nat
      /\ pending.bytes # <<>> /\ Sound(pending) /\ pending.len \in Nat
  BY <1>2 DEF ReaderHas, Buffers, Sound, Block
<1>5. OutFrom = PendingFrom
  BY <1>2, <1>4, FreshBlocks DEF OutFrom
<1>6. /\ Sound(b) /\ b.bytes # <<>> /\ b.len = pending.len + k /\ Carries(b, PendingFrom)
  BY <1>1, <1>3, <1>4, FilledBlock DEF Types, PendingFrom
<1>7. last \in 0 .. b.len /\ (last # 0 => input[b.bytes[last]] = "nl")
  <2> HIDE DEF b
  <2> QED  BY <1>6, LastNewlineIs
<1>8. b.bytes \in Seq(Positions) /\ b.len \in Nat /\ last \in Nat /\ b.len <= Len(b.bytes)
      /\ DOMAIN b = {"bytes", "len"} /\ last <= b.len
  BY <1>6, <1>7 DEF Sound, Block
<1>9. spent' \in Seq(Block) => Types'
  <2>1. rpc' \in {"read", "send"}
    BY <1>1, <1>2
  <2> QED  BY <1>2, <1>3, <2>1 DEF Types
<1>10. ParserHas'
  <2>1. rpc' # "unborn"
    BY <1>1, <1>2
  <2>2. Abs!Prefix(Len(seen))' = Abs!Prefix(Len(seen))
    BY <1>2 DEF Abs!Prefix
  <2>3. ppc = "parse" => Whole(cur, Len(seen))'
    BY <1>2, <1>3 DEF Whole, Carries, Abs!LineEnd, ParserHas, Buffers, Sound, Block
  <2> QED  BY <1>2, <1>3, <2>1, <2>2, <2>3 DEF ParserHas, Types
<1>11. AtEnd'
  BY <1>1, <1>2 DEF AtEnd
<1>12. ASSUME OutFrom' = OutFrom
       PROVE  Channel'
  BY <1>2, <1>3, <1>12, ChannelStays
<1> HIDE DEF b, last, tail, next
<1>13. CASE last = 0
  <2>1. pending' = b /\ rpc' = rpc /\ out' = out /\ spent' = spent
    BY <1>1, <1>13 DEF b, last
  <2>2. PendingFrom' = PendingFrom /\ OutFrom' = OutFrom
    BY <2>1, <1>3, <1>4, <1>6 DEF PendingFrom, OutFrom
  <2>3. Owned' = Owned
    BY <2>1, <1>2, <1>4, <1>6 DEF Owned, Holding, NoBlock
  <2>4. Buffers'
    BY <2>1, <2>3, <1>2, <1>6 DEF Buffers, Sound
  <2>5. ReaderHas'
    BY <2>1, <2>2, <1>2, <1>4, <1>6 DEF ReaderHas, Carries
  <2>6. spent' \in Seq(Block)
    BY <2>1 DEF Types
  <2> QED  BY <2>2, <2>4, <2>5, <2>6, <1>9, <1>10, <1>11, <1>12
<1>14. CASE last # 0
  <2>1. /\ out' = [b EXCEPT !.len = last] /\ pending' = Moved(next, tail) /\ rpc' = "send"
        /\ spent' = IF spent = <<>> THEN spent ELSE Tail(spent)
    BY <1>1, <1>14 DEF b, last, tail, next
  <2>2. /\ tail \in Seq(Positions) /\ Len(tail) = b.len - last
        /\ \A i \in 1 .. b.len - last : tail[i] = b.bytes[last + i]
    <3>1. /\ SubSeq(b.bytes, last + 1, b.len) \in Seq(Positions)
          /\ Len(SubSeq(b.bytes, last + 1, b.len)) = b.len - last
          /\ \A i \in 1 .. b.len - last : SubSeq(b.bytes, last + 1, b.len)[i] = b.bytes[last + i]
      BY <1>8
    <3> QED  BY <3>1 DEF tail
  <2>3. next \in Block /\ next.bytes # <<>>
    <3>1. CASE spent = <<>>
      BY <3>1, FreshBlocks DEF next, Sound
    <3>2. CASE spent # <<>>
      <4>1. next = spent[1] /\ 1 \in DOMAIN spent
        BY <3>2 DEF next, Types
      <4> QED  BY <4>1 DEF Buffers, Sound
    <3> QED  BY <3>1, <3>2
  <2>4. /\ Sound(pending') /\ pending'.bytes # <<>> /\ pending'.len = Len(tail)
        /\ \A i \in 1 .. Len(tail) : pending'.bytes[i] = tail[i]
    BY <2>1, <2>2, <2>3, MovedBlock
  <2>5. /\ out'.bytes = b.bytes /\ out'.len = last /\ Sound(out') /\ out' # NoBlock
    BY <2>1, <1>6, <1>8 DEF Sound, Block, NoBlock
  <2>6. PendingFrom' = PendingFrom + last /\ OutFrom' = PendingFrom
    <3>1. pending'.len = (pending.len + k) - last /\ out'.len = last
      <4>1. pending'.len = b.len - last /\ b.len = pending.len + k
        BY <2>2, <2>4, <1>6
      <4>2. b.len - last = (pending.len + k) - last
        BY ONLY <4>1
      <4> QED  BY ONLY <4>1, <4>2, <2>5
    <3> DEFINE p  == pending.len
               p1 == pending'.len
               l1 == out'.len
    <3>2. p \in Nat /\ off \in Nat /\ k \in Nat /\ last \in Nat
      BY <1>3, <1>4, <1>8
    <3>3. p1 = (p + k) - last /\ l1 = last /\ off' = off + k
      BY <3>1, <1>3
    <3>4. /\ PendingFrom = off - p /\ PendingFrom' = off' - p1 /\ OutFrom' = PendingFrom' - l1
      BY DEF PendingFrom, OutFrom
    <3> HIDE DEF p, p1, l1
    <3> QED  BY ONLY <3>2, <3>3, <3>4
  <2>7. Carries(pending, PendingFrom)'
    BY <2>2, <2>4, <2>6, <1>4, <1>6, <1>8 DEF Carries
  <2>8. Whole(out, OutFrom)'
    <3>1. Carries(out, OutFrom)'
      <4>1. \A i \in 1 .. last : i \in 1 .. b.len
        BY <1>8
      <4>2. \A i \in 1 .. last : b.bytes[i] = PendingFrom + i
        BY <4>1, <1>6 DEF Carries
      <4> QED  BY <2>5, <2>6, <4>2 DEF Carries
    <3>2. PendingFrom + last <= off'
      BY <1>3, <1>4, <1>6, <1>8 DEF PendingFrom
    <3>3. input[PendingFrom + last] = "nl"
      BY <1>4, <1>6, <1>7, <1>8, <1>14 DEF Carries
    <3> QED  BY <2>5, <2>6, <3>1, <3>2, <3>3, <1>2, <1>4, <1>8, <1>14 DEF Whole, Abs!LineEnd
  <2>9. ReaderHas'
    BY <2>1, <2>6, <2>7, <2>8, <1>4, <1>8 DEF ReaderHas
  <2>10. /\ spent' \in Seq(Block) /\ Len(spent') <= Len(spent)
         /\ \A i \in DOMAIN spent' : Sound(spent'[i]) /\ spent'[i].bytes # <<>>
    <3>1. CASE spent = <<>>
      BY <2>1, <3>1 DEF Types, Buffers
    <3>2. CASE spent # <<>>
      <4>1. spent' = Tail(spent) /\ Len(spent') = Len(spent) - 1 /\ spent' \in Seq(Block)
        BY <2>1, <3>2 DEF Types
      <4>2. \A i \in DOMAIN spent' : i + 1 \in DOMAIN spent /\ spent'[i] = spent[i + 1]
        BY <4>1, <3>2 DEF Types
      <4> QED  BY <4>1, <4>2 DEF Types, Buffers
    <3> QED  BY <3>1, <3>2
  <2>11. Owned' <= ReadAhead + 3
    <3>1. Len(blocks) \in Nat /\ Len(spent) \in Nat /\ Len(spent') \in Nat /\ Len(blocks) <= ReadAhead
      BY <2>10 DEF Types, Buffers
    <3>2. Holding(pending) = 1 /\ Holding(out) = 0 /\ Holding(cur) \in {0, 1} /\ Holding(cur)' = Holding(cur)
      BY <1>2, <1>4 DEF Holding, NoBlock
    <3>3. Holding(pending)' = 1 /\ Holding(out)' = 1
      BY <2>4, <2>5 DEF Holding, NoBlock
    <3>4. Owned' = Holding(cur) + 2 + Len(blocks) + Len(spent')
      BY <3>1, <3>2, <3>3, <1>2 DEF Owned
    <3>5. CASE spent = <<>>
      BY <3>1, <3>2, <3>4, <3>5, <2>1, ReaderAssumption
    <3>6. CASE spent # <<>>
      <4>1. Len(spent') = Len(spent) - 1
        BY <2>1, <3>6 DEF Types
      <4>2. Owned' = Owned
        BY <4>1, <3>1, <3>2, <3>4 DEF Owned
      <4> QED  BY <4>2 DEF Buffers
    <3> QED  BY <3>5, <3>6
  <2>12. Buffers'
    BY <2>1, <2>4, <2>5, <2>10, <2>11, <1>2 DEF Buffers, Sound
  <2> QED  BY <2>6, <2>9, <2>10, <2>12, <1>5, <1>9, <1>10, <1>11, <1>12
<1> QED  BY <1>13, <1>14

LEMMA ReadEndStep == IInv /\ ReadEnd => IInv'
<1> SUFFICES ASSUME IInv, ReadEnd PROVE IInv'
  OBVIOUS
<1> USE DEF IInv
<1>1. /\ rpc = "read" /\ off = Len(input) /\ out = NoBlock /\ input' = input /\ bad' = bad /\ off' = off
      /\ blocks' = blocks /\ ppc' = ppc /\ cur' = cur /\ seen' = seen /\ outcome' = outcome
  BY DEF ReadEnd, ReaderHas, pvars
<1>2. PendingFrom \in Nat /\ Carries(pending, PendingFrom) /\ pending.len \in Nat /\ off \in Nat /\ OutFrom = PendingFrom
  BY <1>1, FreshBlocks DEF ReaderHas, Buffers, Sound, Block, Types, OutFrom, PendingFrom
<1>3. /\ rpc' \in {"last", "gone"} /\ spent' \in {spent, <<>>}
  BY DEF ReadEnd, Quit
<1>4. Types'
  <2>1. spent' \in Seq(Block)
    <3>1. <<>> \in Seq(Block) /\ spent \in Seq(Block)
      BY DEF Types
    <3> QED  BY <3>1, <1>3
  <2> QED  BY <1>1, <1>3, <2>1 DEF Types
<1>5. ParserHas'
  <2>1. rpc' # "unborn" /\ Abs!Prefix(Len(seen))' = Abs!Prefix(Len(seen))
    BY <1>1, <1>3 DEF Abs!Prefix
  <2> QED  BY <1>1, <2>1 DEF ParserHas, Whole, Carries, Abs!LineEnd
<1>6. CASE pending.len # 0
  <2>1. rpc' = "last" /\ out' = pending /\ pending' = NoBlock /\ spent' = spent
    BY <1>6 DEF ReadEnd
  <2>2. OutFrom' = OutFrom /\ PendingFrom' = off
    BY <2>1, <1>1, <1>2, FreshBlocks DEF OutFrom, PendingFrom
  <2>3. Buffers'
    <3>1. Holding(pending) = 1 /\ Holding(out) = 0
      BY <1>1, <1>6, FreshBlocks DEF Holding
    <3>2. Holding(pending)' = 0 /\ Holding(out)' = 1
      BY <2>1, <1>6, FreshBlocks DEF Holding
    <3>3. Owned' = Owned
      <4>1. Len(blocks) \in Nat /\ Len(spent) \in Nat /\ Holding(cur) \in {0, 1} /\ Holding(cur)' = Holding(cur)
        BY <1>1 DEF Types, Holding
      <4> QED  BY <3>1, <3>2, <4>1, <2>1, <1>1 DEF Owned
    <3> QED  BY <3>3, <2>1, <1>1, FreshBlocks DEF Buffers, Sound
  <2>4. ReaderHas'
    <3>1. Carries(pending, PendingFrom)'
      BY <2>1, FreshBlocks DEF Carries
    <3>2. Whole(out, OutFrom)'
      BY <2>1, <2>2, <1>1, <1>2, <1>6 DEF Whole, Carries, Abs!LineEnd, PendingFrom
    <3> QED  BY <2>1, <2>2, <3>1, <3>2, <1>1, <1>2 DEF ReaderHas
  <2>5. Channel'
    BY <2>2, <1>1, <1>2, ChannelStays
  <2>6. AtEnd'
    BY <2>1 DEF AtEnd
  <2> QED  BY <2>3, <2>4, <2>5, <2>6, <1>4, <1>5
<1>7. CASE pending.len = 0
  <2>1. rpc' = "gone" /\ out' = out /\ pending' = pending /\ spent' = <<>>
    BY <1>7 DEF ReadEnd, Quit
  <2>2. OutFrom' = OutFrom /\ PendingFrom' = PendingFrom
    BY <2>1, <1>1 DEF OutFrom, PendingFrom
  <2>3. Buffers'
    <3>1. Owned' <= Owned
      <4>1. Len(blocks) \in Nat /\ Len(spent) \in Nat /\ Holding(cur) \in {0, 1} /\ Holding(pending) \in {0, 1}
            /\ Holding(out) \in {0, 1}
        BY <1>1 DEF Types, Holding
      <4>2. Len(spent') = 0
        BY <2>1
      <4>3. Holding(cur)' = Holding(cur) /\ Holding(pending)' = Holding(pending) /\ Holding(out)' = Holding(out)
        BY <2>1, <1>1 DEF Holding
      <4> QED  BY <4>1, <4>2, <4>3, <1>1 DEF Owned
    <3>2. Owned \in Int /\ Owned' \in Int /\ Owned' <= ReadAhead + 3
      <4>1. Len(blocks) \in Nat /\ Len(spent) \in Nat /\ Len(spent') \in Nat /\ Len(blocks') \in Nat
        BY <1>4 DEF Types
      <4> QED  BY <3>1, <4>1, ReaderAssumption DEF Owned, Holding, Buffers
    <3> QED  BY <3>2, <2>1, <1>1 DEF Buffers, Sound
  <2>4. ReaderHas'
    BY <2>1, <2>2, <1>1, <1>2 DEF ReaderHas, Carries
  <2>5. Channel'
    BY <2>2, <1>1, <1>2, ChannelStays
  <2>6. AtEnd'
    BY <2>1, <1>1, <1>7 DEF AtEnd
  <2> QED  BY <2>3, <2>4, <2>5, <2>6, <1>4, <1>5
<1> QED  BY <1>2, <1>6, <1>7

LEMMA ReadErrorStep == IInv /\ ReadError => IInv'
<1> SUFFICES ASSUME IInv, ReadError PROVE IInv'
  OBVIOUS
<1> USE DEF IInv
<1>1. /\ rpc = "read" /\ rpc' = "error" /\ input' = input /\ bad' = bad /\ off' = off
      /\ pending' = pending /\ out' = out /\ spent' = spent
      /\ blocks' = blocks /\ ppc' = ppc /\ cur' = cur /\ seen' = seen /\ outcome' = outcome
  BY DEF ReadError, pvars
<1>2. OutFrom' = OutFrom /\ PendingFrom' = PendingFrom /\ Owned' = Owned
  BY <1>1 DEF OutFrom, PendingFrom, Owned, Holding
<1>3. Types' /\ AtEnd'
  BY <1>1 DEF Types, AtEnd
<1>4. Buffers'
  BY <1>1, <1>2 DEF Buffers, Sound
<1>5. ReaderHas'
  BY <1>1, <1>2 DEF ReaderHas, Carries
<1>6. Channel'
  <2>1. off' \in Nat /\ off' >= off
    BY <1>1 DEF Types
  <2> QED  BY <2>1, <1>1, <1>2, ChannelStays
<1>7. ParserHas'
  <2>1. Abs!Prefix(Len(seen))' = Abs!Prefix(Len(seen))
    BY <1>1 DEF Abs!Prefix
  <2> QED  BY <1>1, <2>1 DEF ParserHas, Whole, Carries, Abs!LineEnd
<1> QED  BY <1>3, <1>4, <1>5, <1>6, <1>7

\* A block, or the error, goes into the channel when it has room; when the
\* parser has returned, the reader does too.
LEMMA SendStep == IInv /\ Send => IInv'
<1> SUFFICES ASSUME IInv, Send PROVE IInv'
  OBVIOUS
<1> USE DEF IInv
<1>1. /\ rpc \in {"send", "last", "error"} /\ out' = NoBlock /\ input' = input /\ bad' = bad /\ off' = off
      /\ pending' = pending /\ ppc' = ppc /\ cur' = cur /\ seen' = seen /\ outcome' = outcome
  BY DEF Send, pvars
<1>2. /\ PendingFrom \in Nat /\ PendingFrom' = PendingFrom /\ OutFrom' = PendingFrom
      /\ Carries(pending, PendingFrom) /\ pending.len \in Nat /\ off \in Nat /\ OutFrom \in Nat
      /\ OutFrom + out.len = PendingFrom /\ out.len \in Nat
  <2>1. PendingFrom \in Nat /\ Carries(pending, PendingFrom) /\ OutFrom \in Nat
    BY DEF ReaderHas
  <2>2. pending.len \in Nat /\ out.len \in Nat /\ off \in Nat
    BY DEF Buffers, Sound, Block, Types
  <2>3. PendingFrom' = PendingFrom
    BY <1>1 DEF PendingFrom
  <2>4. OutFrom' = PendingFrom
    BY <2>1, <2>3, <1>1, FreshBlocks DEF OutFrom
  <2>5. OutFrom + out.len = PendingFrom
    BY <2>1, <2>2 DEF OutFrom
  <2> QED  BY <2>1, <2>2, <2>3, <2>4, <2>5
<1>3. ReaderHas'
  <2>1. rpc' \in {"read", "gone"}
    BY <1>1 DEF Send, Quit
  <2> QED  BY <2>1, <1>1, <1>2 DEF ReaderHas, Carries
<1>4. ParserHas'
  <2>1. rpc' # "unborn" /\ Abs!Prefix(Len(seen))' = Abs!Prefix(Len(seen))
    BY <1>1 DEF Abs!Prefix, Send, Quit
  <2> QED  BY <1>1, <2>1 DEF ParserHas, Whole, Carries, Abs!LineEnd
<1>5. Holding(cur) \in {0, 1} /\ Holding(pending) \in {0, 1} /\ Holding(out)' = 0
      /\ Holding(cur)' = Holding(cur) /\ Holding(pending)' = Holding(pending)
      /\ Len(blocks) \in Nat /\ Len(spent) \in Nat
  BY <1>1 DEF Holding, Types
<1>6. Sound(cur)' /\ Sound(out)' /\ Sound(pending)' /\ (rpc' = "read" => pending'.bytes # <<>>)
  <2>1. rpc' = "read" => rpc = "send"
    BY <1>1 DEF Send, Quit
  <2> QED  BY <1>1, <2>1, FreshBlocks DEF Buffers, Sound
<1>7. rpc' \in {"read", "gone"} /\ (spent' = spent \/ (spent' = <<>> /\ rpc' = "gone"))
  BY <1>1 DEF Send, Quit
<1>8. /\ spent' \in Seq(Block) /\ Len(spent') \in Nat /\ Len(spent') <= Len(spent)
      /\ \A i \in DOMAIN spent' : Sound(spent'[i]) /\ spent'[i].bytes # <<>>
  <2>1. CASE spent' = spent
    BY <2>1, <1>5 DEF Types, Buffers
  <2>2. CASE spent' = <<>>
    BY <2>2, <1>5
  <2> QED  BY <2>1, <2>2, <1>7
<1>9. CASE ppc = "gone" /\ Quit /\ blocks' = blocks
  <2>1. Types'
    BY <1>1, <1>7, <1>8, <1>9 DEF Types
  <2>2. Owned' <= ReadAhead + 3
    <3>1. rpc' = "gone" /\ Len(spent') = 0
      BY <1>9 DEF Quit
    <3> QED  BY <3>1, <1>1, <1>5, <1>9, ReaderAssumption DEF Owned, Buffers
  <2>3. Buffers'
    BY <2>2, <1>1, <1>6, <1>7, <1>8, <1>9 DEF Buffers, Sound
  <2> QED  BY <2>1, <2>3, <1>1, <1>3, <1>4, <1>9 DEF Channel, AtEnd
<1>10. CASE /\ ppc # "gone"
            /\ Room
            /\ blocks' = Append(blocks, Message)
            /\ IF rpc = "send" THEN rpc' = "read" /\ UNCHANGED spent ELSE Quit
  <2>1. Message \in Seq(Block) /\ (Message = <<>> \/ (Message = <<Message[1]>> /\ Sound(Message[1])))
    BY DEF Message, Buffers, Sound
  <2>2. /\ blocks' \in Seq(Seq(Block)) /\ Len(blocks') = Len(blocks) + 1
        /\ blocks'[Len(blocks) + 1] = Message
        /\ \A i \in DOMAIN blocks : blocks'[i] = blocks[i]
        /\ DOMAIN blocks' = 1 .. Len(blocks) + 1 /\ DOMAIN blocks = 1 .. Len(blocks)
    <3>1. blocks \in Seq(Seq(Block))
      BY DEF Types
    <3> HIDE DEF Message
    <3> QED  BY <3>1, <2>1, <1>10
  <2>3. Len(blocks') <= ReadAhead
    BY <2>2, <1>5, <1>10, ReaderAssumption DEF Room
  <2>4. Types'
    BY <1>1, <1>7, <1>8, <2>2 DEF Types
  <2>5. Owned' <= ReadAhead + 3
    <3>1. CASE rpc = "send"
      <4>1. Holding(out) = 1 /\ spent' = spent
        BY <3>1, <1>10, FreshBlocks DEF ReaderHas, Whole, Holding
      <4>2. Owned' = Owned
        BY <4>1, <1>5, <2>2 DEF Owned
      <4> QED  BY <4>2 DEF Buffers
    <3>2. CASE rpc # "send"
      <4>1. Len(spent') = 0
        BY <3>2, <1>10 DEF Quit
      <4> QED  BY <4>1, <2>2, <2>3, <1>5, ReaderAssumption DEF Owned
    <3> QED  BY <3>1, <3>2
  <2>6. Buffers'
    <3>1. \A i \in DOMAIN blocks' : blocks'[i] = <<>> \/ (blocks'[i] = <<blocks'[i][1]>> /\ Sound(blocks'[i][1]))
      <4> TAKE i \in DOMAIN blocks'
      <4>1. CASE i \in DOMAIN blocks
        BY <4>1, <2>2 DEF Buffers
      <4>2. CASE i = Len(blocks) + 1
        BY <4>2, <2>1, <2>2
      <4> QED  BY <4>1, <4>2, <2>2, <1>5
    <3> QED  BY <3>1, <2>3, <2>5, <1>1, <1>6, <1>7, <1>8 DEF Buffers, Sound
  <2>7. \A i \in DOMAIN blocks : blocks[i] # <<>> /\ Whole(blocks[i][1], EndOf(i - 1))
    BY <1>1, <1>10 DEF Channel
  <2>8. EndOf(Len(blocks)) = OutFrom
    <3>1. blocks = <<>> \/ Len(blocks) \in DOMAIN blocks
      BY DEF Types
    <3> QED  BY <3>1, <2>7, <1>10 DEF Channel
  <2>9. \A i \in 0 .. Len(blocks) : EndOf(i)' = EndOf(i)
    <3> TAKE i \in 0 .. Len(blocks)
    <3>1. CASE i = 0
      BY <3>1, <1>1 DEF EndOf
    <3>2. CASE i # 0
      <4>1. i \in DOMAIN blocks
        BY <3>2, <2>2, <1>5
      <4>2. blocks'[i] = blocks[i]
        BY <4>1, <2>2
      <4> QED  BY <3>2, <4>2 DEF EndOf
    <3> QED  BY <3>1, <3>2
  <2>10. \A i \in DOMAIN blocks : blocks'[i] # <<>> /\ Whole(blocks[i][1], EndOf(i - 1))'
    <3> TAKE i \in DOMAIN blocks
    <3>1. i - 1 \in 0 .. Len(blocks) /\ blocks'[i] = blocks[i]
      BY <2>2, <1>5
    <3>2. EndOf(i - 1)' = EndOf(i - 1)
      BY <3>1, <2>9
    <3> QED  BY <3>1, <3>2, <2>7, <1>1 DEF Whole, Carries, Abs!LineEnd
  <2>11. CASE rpc = "error"
    <3>1. Message = <<>> /\ rpc' = "gone"
      BY <2>11, <1>10 DEF Message, Quit
    <3>2. Channel'
      <4>1. blocks'[Len(blocks')] = <<>> /\ blocks' # <<>>
        BY <3>1, <2>2, <1>5
      <4>2. \A i \in DOMAIN blocks' : i \in DOMAIN blocks \/ (i = Len(blocks') /\ blocks'[i] = <<>>)
        BY <3>1, <2>2, <1>5
      <4> QED  BY <3>1, <4>1, <4>2, <2>10 DEF Channel
    <3>3. AtEnd'
      BY <3>1, <2>2, <1>5 DEF AtEnd
    <3> QED  BY <3>2, <3>3, <2>4, <2>6, <1>3, <1>4
  <2>12. CASE rpc # "error"
    <3>1. Message = <<out>> /\ Whole(out, OutFrom)
      BY <2>12, <1>1 DEF Message, ReaderHas
    <3>2. blocks'[Len(blocks) + 1][1] = out /\ blocks'[Len(blocks) + 1] # <<>>
      BY <3>1, <2>2
    <3>3. PICK n \in Nat : n = Len(blocks)
      BY <1>5
    <3>4. EndOf(n + 1)' = PendingFrom
      <4>1. EndOf(n + 1)' = out.bytes[1] - 1 + out.len
        BY <3>2, <3>3 DEF EndOf
      <4>2. out.bytes[1] = OutFrom + 1
        BY <3>1, <1>2 DEF Whole, Carries
      <4> QED  BY <4>1, <4>2, <1>2
    <3>5. Whole(blocks[n + 1][1], EndOf(n))'
      <4>1. EndOf(n)' = OutFrom
        BY <2>8, <2>9, <3>3
      <4>2. blocks'[n + 1][1] = out
        BY <3>2, <3>3
      <4> QED  BY <4>1, <4>2, <3>1, <1>1 DEF Whole, Carries, Abs!LineEnd
    <3>6. \A i \in DOMAIN blocks' : blocks'[i] # <<>> /\ Whole(blocks[i][1], EndOf(i - 1))'
      <4> TAKE i \in DOMAIN blocks'
      <4>1. CASE i \in DOMAIN blocks
        BY <4>1, <2>10
      <4>2. CASE i = n + 1
        <5>1. i - 1 = n
          BY <4>2, <3>3
        <5> QED  BY <4>2, <5>1, <3>2, <3>3, <3>5
      <4>3. i \in DOMAIN blocks \/ i = n + 1
        BY <2>2, <3>3, <1>5
      <4> QED  BY <4>1, <4>2, <4>3
    <3>7. Channel'
      <4>1. Len(blocks') = n + 1
        BY <2>2, <3>3
      <4>2. (EndOf(Len(blocks)) = OutFrom)'
        BY <4>1, <3>4, <1>2
      <4> QED  BY <3>6, <4>2 DEF Channel
    <3>8. AtEnd'
      <4>1. CASE rpc = "last"
        <5>1. off' = Len(input') /\ pending'.len = 0
          BY <4>1, <1>1, FreshBlocks DEF ReaderHas
        <5> QED  BY <5>1 DEF AtEnd
      <4>2. CASE rpc = "send"
        BY <4>2, <1>10 DEF AtEnd
      <4> QED  BY <4>1, <4>2, <2>12, <1>1
    <3> QED  BY <3>7, <3>8, <2>4, <2>6, <1>3, <1>4
  <2> QED  BY <2>11, <2>12
<1> QED  BY <1>9, <1>10 DEF Send

-----------------------------------------------------------------------------
(* The parser's steps.                                                     *)

\* parse_export_file returns: the channels are dropped, the reader goes on.
LEMMA ReturnKeeps ==
  ASSUME IInv, NEW result \in {"parsed", "failed"}, Return(result),
         input' = input, bad' = bad, off' = off, pending' = pending, out' = out,
         rpc' = rpc \/ (rpc = "unborn" /\ rpc' = "gone")
  PROVE  IInv'
<1> USE DEF IInv
<1>1. /\ ppc' = "gone" /\ outcome' = result /\ blocks' = <<>> /\ spent' = <<>> /\ cur' = NoBlock
  BY DEF Return
<1>2. Types'
  <2>1. <<>> \in Seq(Block) /\ <<>> \in Seq(Seq(Block))
    OBVIOUS
  <2> QED  BY <1>1, <2>1 DEF Types
<1>3. Buffers'
  <2>1. Len(<<>>) = 0 /\ DOMAIN <<>> = {}
    OBVIOUS
  <2>2. Owned' <= ReadAhead + 3
    BY <1>1, <2>1, ReaderAssumption DEF Owned, Holding
  <2> QED  BY <1>1, <2>1, <2>2, FreshBlocks, ReaderAssumption DEF Buffers, Sound
<1>4. ReaderHas'
  <2>1. PendingFrom' = PendingFrom /\ OutFrom' = OutFrom
    BY DEF PendingFrom, OutFrom
  <2> QED  BY <2>1 DEF ReaderHas, Whole, Carries, Abs!LineEnd
<1> QED  BY <1>1, <1>2, <1>3, <1>4 DEF Channel, ParserHas, AtEnd

LEMMA StartStep == IInv /\ Start => IInv'
<1> SUFFICES ASSUME IInv, Start PROVE IInv'
  OBVIOUS
<1> USE DEF IInv
<1>1. /\ ppc = "start" /\ rpc = "unborn" /\ rpc' = "read" /\ ppc' = "receive" /\ input' = input /\ bad' = bad
      /\ off' = off /\ pending' = pending /\ out' = out /\ spent' = spent
      /\ blocks' = blocks /\ cur' = cur /\ seen' = seen /\ outcome' = outcome
  BY DEF Start, ParserHas
<1>2. OutFrom' = OutFrom /\ PendingFrom' = PendingFrom /\ Owned' = Owned
  BY <1>1 DEF OutFrom, PendingFrom, Owned, Holding
<1>3. Types' /\ AtEnd'
  BY <1>1 DEF Types, AtEnd
<1>4. Buffers'
  BY <1>1, <1>2 DEF Buffers, Sound
<1>5. ReaderHas'
  BY <1>1, <1>2 DEF ReaderHas, Carries
<1>6. Channel'
  <2>1. \A i : EndOf(i)' = EndOf(i)
    BY <1>1 DEF EndOf
  <2>2. PICK n : n = Len(blocks)
    OBVIOUS
  <2>3. EndOf(Len(blocks))' = EndOf(Len(blocks))
    BY <2>1, <2>2, <1>1
  <2> HIDE DEF EndOf
  <2> QED  BY <1>1, <1>2, <2>1, <2>3 DEF Channel, Whole, Carries, Abs!LineEnd
<1>7. ParserHas'
  <2>1. Abs!Prefix(Len(seen))' = Abs!Prefix(Len(seen))
    BY <1>1 DEF Abs!Prefix
  <2> QED  BY <1>1, <2>1 DEF ParserHas
<1> QED  BY <1>3, <1>4, <1>5, <1>6, <1>7

LEMMA SpawnFailsStep == IInv /\ SpawnFails => IInv'
<1> SUFFICES ASSUME IInv, SpawnFails PROVE IInv'
  OBVIOUS
<1>1. rpc = "unborn"
  BY DEF SpawnFails, IInv, ParserHas
<1> QED  BY <1>1, ReturnKeeps DEF SpawnFails

LEMMA FinishStep == IInv /\ Finish => IInv'
<1> SUFFICES ASSUME IInv, Finish PROVE IInv'
  OBVIOUS
<1>1. PICK result \in {"parsed", "failed"} : Return(result)
  BY DEF Finish
<1> QED  BY <1>1, ReturnKeeps DEF Finish, rvars

\* The next block of the channel is the one after what was seen.
LEMMA ReceiveStep == IInv /\ Receive => IInv'
<1> SUFFICES ASSUME IInv, Receive PROVE IInv'
  OBVIOUS
<1>1. CASE Head(blocks) = <<>>
  BY <1>1, ReturnKeeps DEF Receive, rvars
<1>2. CASE Head(blocks) # <<>>
  <2> USE DEF IInv
  <2>1. /\ ppc = "receive" /\ blocks # <<>> /\ cur' = Head(blocks)[1] /\ blocks' = Tail(blocks) /\ ppc' = "parse"
        /\ spent' = spent /\ outcome' = outcome /\ input' = input /\ bad' = bad /\ off' = off /\ rpc' = rpc
        /\ pending' = pending /\ out' = out /\ seen' = seen /\ cur = NoBlock
    BY <1>2 DEF Receive, rvars, ParserHas
  <2>2. blocks \in Seq(Seq(Block)) /\ spent \in Seq(Block) /\ Len(seen) \in Nat
    BY <2>1 DEF Types, ParserHas
  <2>3. PICK n \in Nat : Len(blocks) = n + 1
    <3>1. Len(blocks) \in Nat /\ Len(blocks) # 0
      BY <2>1, <2>2
    <3>2. Len(blocks) - 1 \in Nat /\ Len(blocks) = (Len(blocks) - 1) + 1
      BY <3>1
    <3> QED  BY <3>2
  <2>4. /\ blocks' \in Seq(Seq(Block)) /\ Len(blocks') = n /\ DOMAIN blocks' = 1 .. n /\ DOMAIN blocks = 1 .. n + 1
        /\ Head(blocks) = blocks[1] /\ cur' = blocks[1][1]
        /\ \A i \in 1 .. n : blocks'[i] = blocks[i + 1]
    BY <2>1, <2>2, <2>3
  <2>5. /\ Sound(blocks[1][1]) /\ blocks[1] # <<>> /\ Whole(blocks[1][1], Len(seen))
        /\ blocks[1][1].len \in Nat
    <3>1. 1 \in DOMAIN blocks /\ blocks[1] # <<>>
      BY <2>3, <2>4, <1>2
    <3>2. Sound(blocks[1][1])
      BY <3>1 DEF Buffers
    <3>3. EndOf(1 - 1) = Len(seen)
      BY <2>1, <2>2, FreshBlocks DEF EndOf
    <3>4. Whole(blocks[1][1], EndOf(1 - 1))
      BY <3>1, <2>1 DEF Channel
    <3>5. blocks[1][1].len \in Nat
      BY <3>2 DEF Sound, Block
    <3> QED  BY <3>1, <3>2, <3>3, <3>4, <3>5
  <2>6. Types'
    BY <2>1, <2>2, <2>4 DEF Types
  <2>7. Owned' = Owned
    <3>1. Holding(cur) = 0 /\ Holding(cur)' = 1
      BY <2>1, <2>4, <2>5, FreshBlocks DEF Holding, Whole
    <3>2. Holding(out)' = Holding(out) /\ Holding(pending)' = Holding(pending)
          /\ Holding(out) \in {0, 1} /\ Holding(pending) \in {0, 1} /\ Len(spent) \in Nat
      BY <2>1, <2>2 DEF Holding
    <3> QED  BY <3>1, <3>2, <2>1, <2>3, <2>4 DEF Owned
  <2>8. Buffers'
    <3>1. \A i \in DOMAIN blocks' : blocks'[i] = <<>> \/ (blocks'[i] = <<blocks'[i][1]>> /\ Sound(blocks'[i][1]))
      <4> TAKE i \in DOMAIN blocks'
      <4>1. i + 1 \in DOMAIN blocks /\ blocks'[i] = blocks[i + 1]
        BY <2>4
      <4> QED  BY <4>1 DEF Buffers
    <3>2. n <= ReadAhead
      BY <2>3, ReaderAssumption DEF Buffers
    <3>3. Sound(cur')
      BY <2>4, <2>5
    <3> QED  BY <3>1, <3>2, <3>3, <2>1, <2>4, <2>7 DEF Buffers, Sound
  <2>9. ReaderHas'
    <3>1. PendingFrom' = PendingFrom /\ OutFrom' = OutFrom
      BY <2>1 DEF PendingFrom, OutFrom
    <3> QED  BY <3>1, <2>1 DEF ReaderHas, Whole, Carries, Abs!LineEnd
  <2>10. \A i \in 0 .. n : EndOf(i)' = EndOf(i + 1)
    <3> TAKE i \in 0 .. n
    <3>1. CASE i = 0
      <4>1. EndOf(i)' = Len(seen) + cur'.len
        BY <3>1, <2>1 DEF EndOf
      <4>2. EndOf(1) = blocks[1][1].bytes[1] - 1 + blocks[1][1].len
        BY DEF EndOf
      <4>3. blocks[1][1].bytes[1] = Len(seen) + 1
        BY <2>5 DEF Whole, Carries
      <4> QED  BY <3>1, <4>1, <4>2, <4>3, <2>2, <2>4, <2>5
    <3>2. CASE i # 0
      <4>1. i \in 1 .. n /\ i + 1 # 0 /\ blocks'[i] = blocks[i + 1]
        BY <3>2, <2>4
      <4> QED  BY <4>1, <3>2 DEF EndOf
    <3> QED  BY <3>1, <3>2
  <2>11. Channel'
    <3>1. \A i \in 1 .. n :
            IF blocks'[i] = <<>> THEN i = n /\ rpc' = "gone"
            ELSE Whole(blocks[i][1], EndOf(i - 1))'
      <4> TAKE i \in 1 .. n
      <4>1. i + 1 \in DOMAIN blocks /\ blocks'[i] = blocks[i + 1] /\ i - 1 \in 0 .. n
        BY <2>4
      <4>2. EndOf(i - 1)' = EndOf(i)
        <5>1. EndOf(i - 1)' = EndOf((i - 1) + 1)
          BY <4>1, <2>10
        <5>2. (i - 1) + 1 = i
          OBVIOUS
        <5> QED  BY <5>1, <5>2
      <4>3. CASE blocks[i + 1] = <<>>
        BY <4>1, <4>3, <2>1, <2>3 DEF Channel
      <4>4. CASE blocks[i + 1] # <<>>
        <5>1. Whole(blocks[i + 1][1], EndOf((i + 1) - 1))
          BY <4>1, <4>4, <2>1 DEF Channel
        <5>2. (i + 1) - 1 = i
          OBVIOUS
        <5>3. Whole(blocks[i + 1][1], EndOf(i))
          BY <5>1, <5>2
        <5> QED  BY <5>3, <4>1, <4>2, <4>4, <2>1 DEF Whole, Carries, Abs!LineEnd
      <4> QED  BY <4>3, <4>4
    <3>2. blocks' = <<>> \/ blocks'[n] # <<>> => EndOf(n)' = OutFrom
      <4> SUFFICES ASSUME blocks' = <<>> \/ blocks'[n] # <<>> PROVE EndOf(n)' = OutFrom
        OBVIOUS
      <4>1. blocks[n + 1] # <<>>
        <5>1. CASE n = 0
          BY <5>1, <2>5
        <5>2. CASE n # 0
          <6>1. n \in 1 .. n /\ Len(<<>>) = 0
            BY <5>2
          <6> QED  BY <6>1, <5>2, <2>4
        <5> QED  BY <5>1, <5>2
      <4>2. EndOf(n + 1) = OutFrom
        BY <4>1, <2>1, <2>3 DEF Channel
      <4> QED  BY <4>2, <2>10
    <3>3. OutFrom' = OutFrom
      BY <2>1 DEF OutFrom, PendingFrom
    <3>4. (EndOf(Len(blocks)))' = EndOf(n)'
      BY <2>4 DEF EndOf
    <3> QED  BY <3>1, <3>2, <3>3, <3>4, <2>4 DEF Channel
  <2>12. ParserHas'
    <3>1. Abs!Prefix(Len(seen))' = Abs!Prefix(Len(seen))
      BY <2>1 DEF Abs!Prefix
    <3>2. Whole(cur, Len(seen))'
      BY <2>1, <2>4, <2>5 DEF Whole, Carries, Abs!LineEnd
    <3> QED  BY <3>1, <3>2, <2>1 DEF ParserHas
  <2>13. AtEnd'
    <3>1. ASSUME blocks[n + 1] = <<>> PROVE blocks' # <<>> /\ blocks'[n] = <<>>
      <4>1. n # 0
        BY <3>1, <2>5
      <4>2. n \in 1 .. n /\ Len(<<>>) = 0
        BY <4>1
      <4> QED  BY <3>1, <4>1, <4>2, <2>4
    <3> QED  BY <3>1, <2>1, <2>3, <2>4 DEF AtEnd
  <2> QED  BY <2>6, <2>8, <2>9, <2>11, <2>12, <2>13
<1> QED  BY <1>1, <1>2

\* What a block holds is appended to what was seen, and its buffer goes back.
LEMMA ParseStep ==
  IInv /\ Parse => IInv' /\ (Bad(cur) \/ seen' = Abs!Prefix(Len(seen) + cur.len))
<1> SUFFICES ASSUME IInv, Parse
             PROVE  IInv' /\ (Bad(cur) \/ seen' = Abs!Prefix(Len(seen) + cur.len))
  OBVIOUS
<1>1. CASE Bad(cur)
  BY <1>1, ReturnKeeps DEF Parse, rvars
<1>2. CASE ~Bad(cur)
  <2> USE DEF IInv
  <2>1. /\ ppc = "parse" /\ seen' = seen \o Content(cur) /\ cur' = NoBlock /\ ppc' = "receive"
        /\ spent' = (IF rpc = "gone" THEN <<>> ELSE Append(spent, cur)) /\ blocks' = blocks
        /\ outcome' = outcome /\ input' = input /\ bad' = bad /\ off' = off /\ rpc' = rpc
        /\ pending' = pending /\ out' = out
    BY <1>2 DEF Parse, rvars
  <2>2. /\ Whole(cur, Len(seen)) /\ Sound(cur) /\ cur.len \in Nat /\ cur.bytes \in Seq(Positions)
        /\ seen = Abs!Prefix(Len(seen)) /\ Len(seen) \in Nat /\ cur.len > 0 /\ cur.len <= Len(cur.bytes)
    BY <2>1 DEF ParserHas, Buffers, Sound, Block, Whole
  <2>3. PICK n \in Nat : n = Len(seen)
    BY <2>2
  <2>4. Content(cur) \in Seq(Positions) /\ Len(Content(cur)) = cur.len
        /\ \A i \in 1 .. cur.len : Content(cur)[i] = n + i
    <3>1. /\ Content(cur) \in Seq(Positions) /\ Len(Content(cur)) = cur.len
          /\ \A i \in 1 .. cur.len : Content(cur)[i] = cur.bytes[i]
      BY <2>2 DEF Content
    <3> QED  BY <3>1, <2>2, <2>3 DEF Whole, Carries
  <2>5. seen' = Abs!Prefix(n + cur.len) /\ Len(seen') = n + cur.len
    <3>1. seen = Abs!Prefix(n)
      BY <2>2, <2>3
    <3>2. Abs!Prefix(n) \in Seq(Nat) /\ Len(Abs!Prefix(n)) = n /\ \A i \in 1 .. n : Abs!Prefix(n)[i] = i
      <4>1. Abs!Prefix(n) \in [1 .. n -> Nat]
        BY DEF Abs!Prefix
      <4> QED  BY <4>1 DEF Abs!Prefix
    <3>3. Content(cur) \in Seq(Nat)
      <4>1. \A i \in 1 .. cur.len : Content(cur)[i] \in Nat
        BY <2>4
      <4> HIDE DEF Content
      <4> QED  BY <4>1, <2>2, <2>4
    <3>4. /\ seen' \in Seq(Nat) /\ Len(seen') = n + cur.len
          /\ \A i \in 1 .. n + cur.len : seen'[i] = IF i <= n THEN seen[i] ELSE Content(cur)[i - n]
      <4>1. seen \in Seq(Nat) /\ Len(seen) = n /\ seen' = seen \o Content(cur)
        BY <3>1, <3>2, <2>1
      <4> DEFINE c == Content(cur)
      <4>2. c \in Seq(Nat) /\ Len(c) = cur.len /\ cur.len \in Nat
        BY <3>3, <2>2, <2>4
      <4> HIDE DEF c
      <4>3. /\ seen \o c \in Seq(Nat) /\ Len(seen \o c) = n + cur.len
            /\ \A i \in 1 .. n + cur.len : (seen \o c)[i] = IF i <= n THEN seen[i] ELSE c[i - n]
        <5>1. /\ seen \o c \in Seq(Nat) /\ Len(seen \o c) = Len(seen) + Len(c)
              /\ \A i \in 1 .. Len(seen) + Len(c) :
                   (seen \o c)[i] = IF i <= Len(seen) THEN seen[i] ELSE c[i - Len(seen)]
          BY <4>1, <4>2, ConcatSeq
        <5> QED  BY <5>1, <4>1, <4>2
      <4> QED  BY <4>1, <4>3 DEF c
    <3>5. \A i \in 1 .. n + cur.len : seen'[i] = i
      <4> TAKE i \in 1 .. n + cur.len
      <4>1. CASE i <= n
        BY <4>1, <3>1, <3>2, <3>4
      <4>2. CASE ~(i <= n)
        <5>1. i - n \in 1 .. cur.len
          BY <4>2, <2>2
        <5> QED  BY <5>1, <4>2, <3>4, <2>4
      <4> QED  BY <4>1, <4>2
    <3>6. DOMAIN seen' = 1 .. n + cur.len /\ seen' = [i \in DOMAIN seen' |-> seen'[i]]
      BY <3>4
    <3> QED  BY <3>4, <3>5, <3>6 DEF Abs!Prefix
  <2>6. /\ spent' \in Seq(Block) /\ Len(spent) \in Nat /\ Len(spent') \in Nat /\ Len(spent') <= Len(spent) + 1
        /\ \A i \in DOMAIN spent' : Sound(spent'[i]) /\ spent'[i].bytes # <<>>
    <3>0. spent \in Seq(Block) /\ cur \in Block
      BY <2>2 DEF Types, Sound
    <3>1. CASE rpc = "gone"
      BY <3>0, <3>1, <2>1
    <3>2. CASE rpc # "gone"
      <4>1. spent' = Append(spent, cur)
        BY <3>2, <2>1
      <4>2. /\ spent' \in Seq(Block) /\ Len(spent') = Len(spent) + 1 /\ spent'[Len(spent) + 1] = cur
            /\ \A i \in 1 .. Len(spent) : spent'[i] = spent[i]
            /\ DOMAIN spent' = 1 .. Len(spent) + 1 /\ Len(spent) \in Nat /\ DOMAIN spent = 1 .. Len(spent)
        BY <4>1, <3>0
      <4>3. cur.bytes # <<>>
        <5>1. Len(<<>>) = 0
          OBVIOUS
        <5> QED  BY <5>1, <2>2
      <4>4. ASSUME NEW i \in DOMAIN spent'
            PROVE  Sound(spent'[i]) /\ spent'[i].bytes # <<>>
        <5>1. CASE i \in DOMAIN spent
          BY <5>1, <4>2 DEF Buffers
        <5>2. CASE i = Len(spent) + 1
          BY <5>2, <4>2, <4>3, <2>2
        <5> QED  BY <5>1, <5>2, <4>2
      <4> QED  BY <4>2, <4>4
    <3> QED  BY <3>1, <3>2
  <2>7. Types'
    BY <2>1, <2>6 DEF Types
  <2>8. Buffers'
    <3>1. Owned' <= Owned
      <4>1. Holding(cur) = 1 /\ Holding(cur)' = 0
        BY <2>1, <2>2, FreshBlocks DEF Holding
      <4>2. Holding(out)' = Holding(out) /\ Holding(pending)' = Holding(pending)
            /\ Holding(out) \in {0, 1} /\ Holding(pending) \in {0, 1} /\ Len(blocks) \in Nat
        BY <2>1 DEF Holding, Types
      <4> QED  BY <4>1, <4>2, <2>1, <2>6 DEF Owned
    <3>2. Owned \in Int /\ Owned' \in Int
      <4>1. Len(blocks) \in Nat
        BY DEF Types
      <4> QED  BY <4>1, <2>1, <2>6 DEF Owned, Holding
    <3>3. Owned' <= ReadAhead + 3
      BY <3>1, <3>2, ReaderAssumption DEF Buffers
    <3> QED  BY <3>3, <2>1, <2>6, FreshBlocks DEF Buffers, Sound
  <2>9. ReaderHas'
    <3>1. PendingFrom' = PendingFrom /\ OutFrom' = OutFrom
      BY <2>1 DEF PendingFrom, OutFrom
    <3> QED  BY <3>1, <2>1 DEF ReaderHas, Whole, Carries, Abs!LineEnd
  <2>10. Channel'
    <3>1. OutFrom' = OutFrom
      BY <2>1 DEF OutFrom, PendingFrom
    <3>2. \A i : EndOf(i)' = EndOf(i)
      <4>1. Len(seen') + cur'.len = Len(seen) + cur.len
        BY <2>1, <2>2, <2>3, <2>5, FreshBlocks
      <4> QED  BY <4>1, <2>1 DEF EndOf
    <3>3. PICK m : m = Len(blocks)
      OBVIOUS
    <3>4. EndOf(Len(blocks))' = EndOf(Len(blocks))
      BY <3>2, <3>3, <2>1
    <3> HIDE DEF EndOf
    <3> QED  BY <3>1, <3>2, <3>4, <2>1 DEF Channel, Whole, Carries, Abs!LineEnd
  <2>11. ParserHas'
    <3>1. (seen = Abs!Prefix(Len(seen)))'
      BY <2>5 DEF Abs!Prefix
    <3>2. Len(seen') \in 0 .. off'
      BY <2>1, <2>2, <2>3, <2>5 DEF Whole, Types
    <3> QED  BY <3>1, <3>2, <2>1 DEF ParserHas
  <2>12. AtEnd'
    BY <2>1 DEF AtEnd
  <2> QED  BY <2>3, <2>5, <2>7, <2>8, <2>9, <2>10, <2>11, <2>12
<1> QED  BY <1>1, <1>2

\* A step that changes nothing.
LEMMA StutterStep == IInv /\ UNCHANGED vars => IInv'
<1> SUFFICES ASSUME IInv, UNCHANGED vars PROVE IInv'
  OBVIOUS
<1>1. /\ input' = input /\ bad' = bad /\ off' = off /\ rpc' = rpc /\ pending' = pending /\ out' = out
      /\ blocks' = blocks /\ spent' = spent /\ ppc' = ppc /\ cur' = cur /\ seen' = seen /\ outcome' = outcome
  BY DEF vars, rvars, pvars
<1>2. Types' /\ Buffers'
  BY <1>1 DEF IInv, Types, Buffers, Owned, Holding, Sound
<1>3. ReaderHas'
  BY <1>1 DEF IInv, ReaderHas, Whole, Carries, PendingFrom, OutFrom, Abs!LineEnd
<1>4. Channel'
  <2>1. Channel
    BY DEF IInv
  <2> QED  BY ONLY <1>1, <2>1 DEF Channel, Whole, Carries, PendingFrom, OutFrom, EndOf, Abs!LineEnd
<1>5. ParserHas' /\ AtEnd'
  BY <1>1 DEF IInv, ParserHas, AtEnd, Whole, Carries, Abs!Prefix, Abs!LineEnd
<1> QED  BY <1>2, <1>3, <1>4, <1>5 DEF IInv

\* The invariant holds of every state the two threads reach.
THEOREM Invariance == Spec => []IInv
<1>1. IInv /\ [Next]_vars => IInv'
  BY ReadSomeStep, ReadEndStep, ReadErrorStep, SendStep, StartStep, SpawnFailsStep, FinishStep,
     ReceiveStep, ParseStep, StutterStep DEF Next, Reader, Parser, Ended
<1> QED  BY InitIInv, <1>1, PTL DEF Spec

-----------------------------------------------------------------------------
(* What follows.                                                           *)

LEMMA BlockIsBlock ==
  ASSUME NEW b, Sound(b) PROVE IsBlock(b)
BY DEF Sound, Block, IsBlock

\* The buffers of read_blocks and parse_export_file go round: there are never
\* more of them than the channel holds and three, and what is used of one
\* lies within it.
THEOREM Bounded == Spec => []BuffersBounded
<1>1. IInv => BuffersBounded
  <2> SUFFICES ASSUME IInv PROVE BuffersBounded
    OBVIOUS
  <2>1. Owned <= ReadAhead + 3 /\ IsBlock(cur) /\ IsBlock(out) /\ IsBlock(pending)
    BY BlockIsBlock DEF IInv, Buffers
  <2>2. \A b \in Range(spent) : IsBlock(b)
    BY BlockIsBlock DEF IInv, Buffers, Range
  <2>3. ASSUME NEW m \in Range(blocks), NEW b \in Range(m) PROVE IsBlock(b)
    <3>1. PICK i \in DOMAIN blocks : m = blocks[i]
      BY DEF Range
    <3>2. CASE m = <<>>
      BY <3>2 DEF Range
    <3>3. CASE m # <<>>
      <4>1. m = <<m[1]>> /\ Sound(m[1])
        BY <3>1, <3>3 DEF IInv, Buffers
      <4>2. b = m[1]
        BY <4>1 DEF Range
      <4> QED  BY <4>1, <4>2, BlockIsBlock
    <3> QED  BY <3>2, <3>3
  <2>4. \A b \in UNION {Range(m) : m \in Range(blocks)} : IsBlock(b)
    BY <2>3
  <2> QED  BY <2>1, <2>2, <2>4 DEF BuffersBounded, InUse
<1> QED  BY <1>1, Invariance, PTL

LEMMA AbsInit == Init => Abs!Init
BY DEF Init, Abs!Init

LEMMA AbsStutter ==
  ASSUME input' = input, bad' = bad, seen' = seen, outcome' = outcome
  PROVE  [Abs!Next]_Abs!vars
BY DEF Abs!vars

\* Each step of the two threads is one of the promise, or leaves it alone.
LEMMA AbsStep == IInv /\ [Next]_vars => [Abs!Next]_Abs!vars
<1> SUFFICES ASSUME IInv, [Next]_vars PROVE [Abs!Next]_Abs!vars
  OBVIOUS
<1>1. CASE Reader \/ Start \/ Ended \/ UNCHANGED vars
  <2>1. input' = input /\ bad' = bad /\ seen' = seen /\ outcome' = outcome
    BY <1>1 DEF Reader, ReadSome, ReadEnd, ReadError, Send, Start, Ended, vars, pvars
  <2> QED  BY <2>1, AbsStutter
<1>2. ASSUME Return("failed"), ppc # "gone", input' = input, bad' = bad, seen' = seen
      PROVE  Abs!Fail
  BY <1>2 DEF Return, Abs!Fail, IInv, Types
<1>3. CASE SpawnFails
  BY <1>2, <1>3 DEF SpawnFails, Abs!Next
<1>4. CASE Receive
  <2>1. CASE Head(blocks) = <<>>
    BY <1>2, <1>4, <2>1 DEF Receive, Abs!Next
  <2>2. CASE Head(blocks) # <<>>
    BY <1>4, <2>2, AbsStutter DEF Receive
  <2> QED  BY <2>1, <2>2
<1>5. CASE Finish
  <2>1. PICK result \in {"parsed", "failed"} : Return(result)
    BY <1>5 DEF Finish
  <2>2. CASE result = "failed"
    BY <1>2, <1>5, <2>1, <2>2 DEF Finish, Abs!Next
  <2>3. CASE result = "parsed"
    <3>1. /\ ppc = "receive" /\ rpc = "gone" /\ blocks = <<>> /\ cur = NoBlock /\ out = NoBlock
          /\ Len(seen) \in Nat /\ seen = Abs!Prefix(Len(seen)) /\ off = Len(input) /\ pending.len = 0
          /\ off \in Nat
      BY <1>5 DEF Finish, IInv, ParserHas, ReaderHas, AtEnd, Types
    <3>2. EndOf(0) = Len(seen) /\ OutFrom = off
      BY <3>1, FreshBlocks DEF EndOf, OutFrom, PendingFrom
    <3>3. EndOf(Len(blocks)) = OutFrom /\ Len(blocks) = 0
      BY <3>1 DEF IInv, Channel
    <3>4. seen = Abs!Prefix(Len(input))
      BY <3>1, <3>2, <3>3
    <3> QED  BY <3>1, <3>4, <1>5, <2>1, <2>3 DEF Return, Finish, Abs!Succeed, Abs!Next, IInv, Types
  <2> QED  BY <2>1, <2>2, <2>3
<1>6. CASE Parse
  <2>1. CASE Bad(cur)
    BY <1>2, <1>6, <2>1 DEF Parse, Abs!Next
  <2>2. CASE ~Bad(cur)
    <3>1. seen' = Abs!Prefix(Len(seen) + cur.len)
      BY <1>6, <2>2, ParseStep
    <3>2. /\ Whole(cur, Len(seen)) /\ cur.len \in Nat /\ Len(seen) \in Nat /\ off <= Len(input) /\ off \in Nat
          /\ Len(input) \in Nat /\ outcome = "none" /\ bad \in Nat
      BY <1>6 DEF Parse, IInv, ParserHas, Types, Buffers, Sound, Block
    <3>3. Len(seen) + cur.len \in Len(seen) + 1 .. Len(input)
      BY <3>2 DEF Whole
    <3>4. bad \notin Len(seen) + 1 .. Len(seen) + cur.len
      <4>1. \A i \in 1 .. cur.len : Len(seen) + i # bad
        BY <2>2, <3>2 DEF Bad, Whole, Carries
      <4>2. ASSUME bad \in Len(seen) + 1 .. Len(seen) + cur.len PROVE FALSE
        <5>1. bad - Len(seen) \in 1 .. cur.len /\ Len(seen) + (bad - Len(seen)) = bad
          BY <4>2, <3>2
        <5> QED  BY <5>1, <4>1
      <4> QED  BY <4>2
    <3>5. Abs!LineEnd(Len(seen) + cur.len)
      BY <3>2 DEF Whole
    <3>6. Abs!Deliver
      BY <3>1, <3>2, <3>3, <3>4, <3>5, <1>6, <2>2 DEF Parse, Abs!Deliver
    <3> QED  BY <3>6 DEF Abs!Next
  <2> QED  BY <2>1, <2>2
<1> QED  BY <1>1, <1>3, <1>4, <1>5, <1>6 DEF Next, Parser

\* The reader thread and the parser implement OrderedDelivery: whatever the
\* sizes and the interleaving, the lines are parsed in order and none is
\* split, lost or parsed twice, and parse_export_file succeeds only on the
\* whole of the input.
THEOREM Delivery == Spec => Promise
<1>1. Init => Abs!Init
  BY AbsInit
<1> QED  BY <1>1, AbsStep, Invariance, PTL DEF Spec, Promise, Abs!Spec
=============================================================================
