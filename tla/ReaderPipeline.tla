--------------------------- MODULE ReaderPipeline ---------------------------
(***************************************************************************)
(* Reading an export from standard input (frontend/parser.rs): a reader    *)
(* thread cuts what it reads into blocks of whole lines and sends them     *)
(* over a channel of READ_AHEAD places; the parser runs over each block    *)
(* and returns it over a second channel, so that its buffer is used again. *)
(* A byte of the input is its position 1 .. Len(input); the buffer of a    *)
(* block may hold stale bytes of an earlier use beyond its len.            *)
(***************************************************************************)
EXTENDS Naturals, Sequences, Functions

CONSTANTS
  MaxLen,      \* bound on the length of the input
  ReadChunk,   \* READ_CHUNK: the most one read returns
  ReadAhead,   \* READ_AHEAD: places in the channel of blocks
  MayFail      \* whether a read or the spawn of the reader may fail

ASSUME ReaderAssumption ==
  /\ MaxLen \in Nat
  /\ ReadChunk \in Nat \ {0}
  /\ ReadAhead \in Nat \ {0}
  /\ MayFail \in BOOLEAN

VARIABLES
  input, bad,     \* the bytes of the export; the one that cannot be parsed
  off,            \* how many bytes the reads have returned
  rpc,            \* where the reader thread is
  pending,        \* the block being filled
  out,            \* the block the reader is sending
  blocks,         \* the channel to the parser: <<b>> is Ok(b), <<>> is Err
  spent,          \* the channel of blocks to use again
  ppc,            \* where the parser is
  cur,            \* the block the parser works on
  seen,           \* history: the bytes run_over was given
  outcome         \* what parse_export_file returned

rvars == <<off, rpc, pending, out>>
pvars == <<ppc, cur, seen, outcome>>
vars  == <<input, bad, rvars, blocks, spent, pvars>>

Buffer(n)  == [i \in 1 .. n |-> 0]
NewBlock   == [bytes |-> Buffer(2 * ReadChunk), len |-> 0]
NoBlock    == [bytes |-> <<>>, len |-> 0]

(* Mutated forms of an operator, each a slip the checked properties must
   catch, stand before the operator they replace. *)

\* What a block is parsed for.
Content(b) == SubSeq(b.bytes, 1, b.len)

Inputs == UNION {[1 .. n -> {"nl", "ch"}] : n \in 0 .. MaxLen}

Init ==
  /\ input \in Inputs
  /\ bad \in 0 .. Len(input)
  /\ off = 0
  /\ rpc = "unborn"
  /\ pending = NewBlock
  /\ out = NoBlock
  /\ blocks = <<>>
  /\ spent = <<>>
  /\ ppc = "start"
  /\ cur = NoBlock
  /\ seen = <<>>
  /\ outcome = "none"

-----------------------------------------------------------------------------
(* The reader thread: read_blocks.                                         *)

\* resize to at least n bytes.
Grown(b, n) ==
  IF Len(b.bytes) < n THEN [b EXCEPT !.bytes = @ \o Buffer(n - Len(@))] ELSE b

\* Bytes s stored from position at + 1 on.
Stored(bytes, at, s) ==
  [i \in DOMAIN bytes |-> IF i - at \in DOMAIN s THEN s[i - at] ELSE bytes[i]]

\* A read that returns the next k bytes into pending.
Filled(k) ==
  LET b == Grown(pending, pending.len + ReadChunk)
      s == [i \in 1 .. k |-> off + i]
  IN  [bytes |-> Stored(b.bytes, b.len, s), len |-> b.len + k]

LastByte(b) == b.len

\* Where the last newline of a block is; 0 if it has none.
LastNewline(b) ==
  LET at == {i \in 1 .. b.len : input[b.bytes[i]] = "nl"}
  IN  IF at = {} THEN 0 ELSE CHOOSE i \in at : \A j \in at : j <= i

\* The unfinished line after the last newline, moved to another block.
Moved(b, tail) ==
  LET g == Grown(b, Len(tail))
  IN  [bytes |-> Stored(g.bytes, 0, tail), len |-> Len(tail)]

\* reader.read, and the cut after the last newline when there is one.
ReadSome ==
  /\ rpc = "read"
  /\ off < Len(input)
  /\ \E k \in 1 .. ReadChunk :
       /\ off + k <= Len(input)
       /\ off' = off + k
       /\ LET b    == Filled(k)
              last == LastNewline(b)
              tail == SubSeq(b.bytes, last + 1, b.len)
              next == IF spent = <<>> THEN NewBlock ELSE Head(spent)
          IN  IF last = 0
              THEN /\ pending' = b
                   /\ UNCHANGED <<rpc, out, spent>>
              ELSE /\ out' = [b EXCEPT !.len = last]
                   /\ pending' = Moved(next, tail)
                   /\ spent' = IF spent = <<>> THEN spent ELSE Tail(spent)
                   /\ rpc' = "send"
  /\ UNCHANGED <<input, bad, blocks, pvars>>

\* The reader returns: both its channel ends are dropped.
Quit == rpc' = "gone" /\ spent' = <<>>

ReadEndDropsRest ==
  /\ rpc = "read"
  /\ off = Len(input)
  /\ Quit
  /\ UNCHANGED <<input, bad, off, pending, out, blocks, pvars>>

\* A read of 0 bytes is the end: what is pending is sent as the last block.
ReadEnd ==
  /\ rpc = "read"
  /\ off = Len(input)
  /\ IF pending.len # 0
     THEN rpc' = "last" /\ out' = pending /\ pending' = NoBlock /\ UNCHANGED spent
     ELSE Quit /\ UNCHANGED <<out, pending>>
  /\ UNCHANGED <<input, bad, off, blocks, pvars>>

ReadError ==
  /\ MayFail
  /\ rpc = "read"
  /\ rpc' = "error"
  /\ UNCHANGED <<input, bad, off, pending, out, blocks, spent, pvars>>

RoomOneMore == Len(blocks) <= ReadAhead

Room == Len(blocks) < ReadAhead

Message == IF rpc = "error" THEN <<>> ELSE <<out>>

SendRetries ==
  /\ rpc \in {"send", "last", "error"}
  /\ \/ /\ ppc # "gone"
        /\ Room
        /\ blocks' = Append(blocks, Message)
        /\ IF rpc = "send" THEN rpc' = "read" /\ UNCHANGED spent ELSE Quit
        /\ out' = NoBlock
     \/ ppc = "gone" /\ UNCHANGED <<rpc, out, blocks, spent>>
  /\ UNCHANGED <<input, bad, off, pending, pvars>>

\* blocks.send: waits for room, or fails once the parser has returned.
Send ==
  /\ rpc \in {"send", "last", "error"}
  /\ \/ /\ ppc # "gone"
        /\ Room
        /\ blocks' = Append(blocks, Message)
        /\ IF rpc = "send" THEN rpc' = "read" /\ UNCHANGED spent ELSE Quit
     \/ ppc = "gone" /\ Quit /\ UNCHANGED blocks
  /\ out' = NoBlock
  /\ UNCHANGED <<input, bad, off, pending, pvars>>

Reader == ReadSome \/ ReadEnd \/ ReadError \/ Send

-----------------------------------------------------------------------------
(* The parser: parse_export_file.                                          *)

Start ==
  /\ ppc = "start"
  /\ rpc' = "read"
  /\ ppc' = "receive"
  /\ UNCHANGED <<input, bad, off, pending, out, blocks, spent, cur, seen, outcome>>

\* parse_export_file returns: both its channel ends are dropped.
Return(result) ==
  /\ ppc' = "gone"
  /\ outcome' = result
  /\ blocks' = <<>>
  /\ spent' = <<>>
  /\ cur' = NoBlock

SpawnFails ==
  /\ MayFail
  /\ ppc = "start"
  /\ Return("failed")
  /\ rpc' = "gone"
  /\ UNCHANGED <<input, bad, off, pending, out, seen>>

Receive ==
  /\ ppc = "receive"
  /\ blocks # <<>>
  /\ IF Head(blocks) = <<>>
     THEN Return("failed")
     ELSE /\ cur' = Head(blocks)[1]
          /\ blocks' = Tail(blocks)
          /\ ppc' = "parse"
          /\ UNCHANGED <<spent, outcome>>
  /\ UNCHANGED <<input, bad, rvars, seen>>

\* The channel is empty and the reader gone: parser.finish(), which may still
\* reject an inductive declaration.
Finish ==
  /\ ppc = "receive"
  /\ blocks = <<>>
  /\ rpc = "gone"
  /\ \E result \in {"parsed", "failed"} : Return(result)
  /\ UNCHANGED <<input, bad, rvars, seen>>

Bad(b) == \E i \in 1 .. b.len : b.bytes[i] = bad

\* run_over a block, which is then sent back unless the reader is gone.
Parse ==
  /\ ppc = "parse"
  /\ IF Bad(cur)
     THEN Return("failed") /\ UNCHANGED seen
     ELSE /\ seen' = seen \o Content(cur)
          /\ spent' = IF rpc = "gone" THEN <<>> ELSE Append(spent, cur)
          /\ cur' = NoBlock
          /\ ppc' = "receive"
          /\ UNCHANGED <<blocks, outcome>>
  /\ UNCHANGED <<input, bad, rvars>>

Parser == Start \/ SpawnFails \/ Receive \/ Finish \/ Parse

Ended == ppc = "gone" /\ rpc = "gone" /\ UNCHANGED vars

Next == Reader \/ Parser \/ Ended

Spec == Init /\ [][Next]_vars

\* Both threads are scheduled, and the reads of the input return.
FairSpec == Spec /\ WF_vars(Reader) /\ WF_vars(Parser)

-----------------------------------------------------------------------------
(* Properties.                                                             *)

Positions == 0 .. MaxLen

\* A block whose len lies in its buffer.
IsBlock(b) ==
  /\ DOMAIN b = {"bytes", "len"}
  /\ \A i \in DOMAIN b.bytes : b.bytes[i] \in Positions
  /\ b.len \in 0 .. Len(b.bytes)

\* The blocks there are, wherever they are.
InUse == {cur, out, pending} \cup Range(spent) \cup UNION {Range(m) : m \in Range(blocks)}

\* How many places hold one, and the error that may close the channel.
Holding(b) == IF b = NoBlock THEN 0 ELSE 1
Owned == Holding(cur) + Holding(out) + Holding(pending) + Len(blocks) + Len(spent)

(* Buffers go round: whatever the length of the input, the pipeline never owns
   more than the channel holds and three more, and what is used of a buffer
   lies within it. *)
BuffersBounded == Owned <= ReadAhead + 3 /\ \A b \in InUse : IsBlock(b)

\* The two threads implement what parse_export_file promises of its input.
Abs == INSTANCE OrderedDelivery
Promise == Abs!Spec

(* parse_export_file returns, and the reader does not outlive it for ever: a
   parser that fails leaves no thread waiting on a full channel. *)
BothEnd == <>(outcome # "none" /\ rpc = "gone")
=============================================================================
