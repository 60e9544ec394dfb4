------------------------------ MODULE BlockIo ------------------------------
(***************************************************************************)
(* A logical unit as a byte stream: BlockDevice of src/msc/mod.rs, its     *)
(* split into commands (read_blocks(), write_blocks()) and the command     *)
(* blocks of src/msc/scsi.rs.  Each command is one step, since command()   *)
(* holds the lock of the MassStorage for one command; two streams of the   *)
(* same unit interleave, and a command may fail.  The limits of the        *)
(* 10-byte command block are scaled down.                                  *)
(***************************************************************************)
EXTENDS Integers, Sequences

CONSTANTS Streams,      \* BlockDevices of the unit
          BlockCount, BlockSize,
          MaxTransfer,  \* State.max_transfer, in bytes
          MaxLba,       \* u32::MAX: the largest block a 10-byte command names
          MaxBlocks,    \* u16::MAX: the most blocks it moves
          Lengths,      \* buffer lengths of the calls
          MaxCalls, MaxFaults, MaxPolls

VARIABLES disk,   \* each byte: which write it is of, and its index there
          ref,    \* the values each byte may have
          strm,   \* each BlockDevice
          raced,  \* two calls, one of them a write, were in one block at a time
          left    \* calls and faults left within the bounds

vars == <<disk, ref, strm, raced, left>>

Size == BlockCount * BlockSize
Bytes == 0 .. Size - 1
Least(a, b) == IF a < b THEN a ELSE b
Most(a, b) == IF a > b THEN a ELSE b

\* A BlockDevice: its position and scratch block, and the call under way: the
\* bytes it is for, the blocks it moves, and how many are done.
Closed == [pc |-> "closed", polls |-> 0, pos |-> 0, scratch |-> <<>>, op |-> "none", id |-> 0,
           at |-> 0, n |-> 0, lba |-> 0, blocks |-> 0, done |-> 0, seek |-> FALSE, buf |-> <<>>]

Init ==
    /\ disk = [b \in Bytes |-> <<0, b>>]
    /\ ref = [b \in Bytes |-> {<<0, b>>}]
    /\ strm = [s \in Streams |-> Closed]
    /\ raced = FALSE
    /\ left = [calls |-> MaxCalls, faults |-> MaxFaults, writes |-> 0]

-----------------------------------------------------------------------------
(* Opening: block_device(), test_unit_ready(), read_capacity() *)

\* Sense::error_kind()
ErrorKind(sense) ==
    CASE sense = "NotReady"       -> "Busy"
      [] sense = "NoMedium"       -> "NotFound"
      [] sense = "IllegalRequest" -> "NotSupported"
      [] sense = "DataProtect"    -> "Access"
      [] OTHER                    -> "Io"

\* READ CAPACITY (10) answers the last block, or MaxLba if that does not fit, and
\* then the 16-byte form is asked.
ReadCapacity ==
    LET last == Least(BlockCount - 1, MaxLba)
    IN  IF last = MaxLba THEN BlockCount ELSE last + 1

\* A unit that is not ready is asked again, MaxPolls times in all.
Open(s, sense) ==
    /\ strm[s].pc = "closed" /\ strm[s].polls < MaxPolls
    /\ strm' = IF sense = "none" THEN [strm EXCEPT ![s].pc = "idle", ![s].polls = 0]
               ELSE IF ErrorKind(sense) = "Busy" THEN [strm EXCEPT ![s].polls = @ + 1]
               ELSE [strm EXCEPT ![s].pc = "failed"]
    /\ UNCHANGED <<disk, ref, raced, left>>

-----------------------------------------------------------------------------
(* Commands *)

ChunkBlocks == Least(Most(MaxTransfer \div BlockSize, 1), MaxBlocks)

\* Mutant: the end of the range is not looked at.
RwCdbStart(lba, blocks) ==
    IF lba <= MaxLba + 1 /\ blocks <= MaxBlocks
    THEN [lba |-> lba % (MaxLba + 1), blocks |-> blocks % (MaxBlocks + 1)]
    ELSE [lba |-> lba, blocks |-> blocks]

\* rw_cdb(): the block and the count as the device reads them off the command,
\* in the 10-byte form cut to their fields.
RwCdb(lba, blocks) ==
    IF lba + blocks <= MaxLba + 1 /\ blocks <= MaxBlocks
    THEN [lba |-> lba % (MaxLba + 1), blocks |-> blocks % (MaxBlocks + 1)]
    ELSE [lba |-> lba, blocks |-> blocks]

\* The next command of the call.
Cdb(c) == RwCdb(c.lba + c.done, Least(ChunkBlocks, c.blocks - c.done))

DeviceReads(cdb) ==
    [i \in 1 .. cdb.blocks * BlockSize |-> disk[cdb.lba * BlockSize + i - 1]]

DeviceWrites(cdb, data) ==
    [b \in Bytes |-> IF b \in cdb.lba * BlockSize .. (cdb.lba + cdb.blocks) * BlockSize - 1
                     THEN data[b - cdb.lba * BlockSize + 1] ELSE disk[b]]

Part(c, cdb) == SubSeq(c.buf, c.done * BlockSize + 1, (c.done + cdb.blocks) * BlockSize)

-----------------------------------------------------------------------------
(* Calls *)

Remaining(c) == Most(ReadCapacity * BlockSize - c.pos, 0)

\* direct_blocks()
DirectBlocks(c, len) ==
    IF c.pos % BlockSize # 0 THEN 0 ELSE Least(len, Remaining(c)) \div BlockSize

Blocks(c) == c.lba .. c.lba + c.blocks - 1

\* A call starts: whoever else is in one of its blocks races with it, and a write
\* may leave its bytes behind from now on.
Start(s, c) ==
    /\ left.calls > 0
    /\ left' = [left EXCEPT !.calls = @ - 1, !.writes = IF c.op = "write" THEN @ + 1 ELSE @]
    /\ strm' = [strm EXCEPT ![s] = c]
    /\ raced' = (raced \/ \E o \in Streams \ {s} :
                    /\ strm[o].pc \notin {"closed", "idle", "failed"} /\ "write" \in {strm[o].op, c.op}
                    /\ Blocks(strm[o]) \cap Blocks(c) # {})
    /\ ref' = IF c.op = "read" THEN ref
              ELSE [b \in Bytes |-> IF b \in c.at .. c.at + c.n - 1 THEN ref[b] \cup {<<c.id, b - c.at>>}
                                    ELSE ref[b]]
    /\ UNCHANGED disk

Data(id, n) == [i \in 1 .. n |-> <<id, i - 1>>]

\* Read and Write of the stream: whole blocks at a block boundary go straight to
\* the device, anything else through the scratch block.
Call(s, op, len) ==
    LET c == strm[s]
        direct == DirectBlocks(c, len)
        off == c.pos % BlockSize
        n == IF direct > 0 THEN direct * BlockSize
             ELSE Least(Least(BlockSize - off, len), Remaining(c))
        id == left.writes + 1
    IN  /\ c.pc = "idle" /\ len > 0 /\ Remaining(c) > 0
        /\ Start(s, [c EXCEPT !.pc = IF direct > 0 THEN "move" ELSE "load",
                              !.op = op, !.id = id, !.at = c.pos, !.n = n, !.lba = c.pos \div BlockSize,
                              !.blocks = IF direct > 0 THEN direct ELSE 1, !.done = 0, !.seek = TRUE,
                              !.buf = IF direct > 0 /\ op = "write" THEN Data(id, n) ELSE <<>>])

\* read_blocks() and write_blocks() of the stream, with check_blocks() and
\* check_range().
BlockCall(s, op, lba, len) ==
    LET id == left.writes + 1 IN
    /\ strm[s].pc = "idle"
    /\ len > 0 /\ len % BlockSize = 0 /\ lba + len \div BlockSize <= ReadCapacity
    /\ Start(s, [strm[s] EXCEPT !.pc = "move", !.op = op, !.id = id, !.at = lba * BlockSize, !.n = len,
                                !.lba = lba, !.blocks = len \div BlockSize, !.done = 0, !.seek = FALSE,
                                !.buf = IF op = "write" THEN Data(id, len) ELSE <<>>])

\* Seek: anywhere, past the end too, but not before the start.
Seek(s, p) ==
    /\ strm[s].pc = "idle" /\ left.calls > 0
    /\ left' = [left EXCEPT !.calls = @ - 1]
    /\ strm' = [strm EXCEPT ![s].pos = p]
    /\ UNCHANGED <<disk, ref, raced>>

\* load_scratch()
Load(s) ==
    LET c == strm[s]
        block == DeviceReads(RwCdb(c.lba, 1))
        off == c.at % BlockSize
    IN  /\ c.pc = "load"
        /\ IF c.op = "read"
           THEN strm' = [strm EXCEPT ![s].pc = "returned", ![s].pos = @ + c.n,
                                     ![s].scratch = block, ![s].buf = SubSeq(block, off + 1, off + c.n)]
           ELSE strm' = [strm EXCEPT ![s].pc = "move", ![s].scratch = block,
                            ![s].buf = [i \in 1 .. BlockSize |->
                                           IF i \in off + 1 .. off + c.n THEN <<c.id, i - 1 - off>> ELSE block[i]]]
        /\ UNCHANGED <<disk, ref, raced, left>>

\* One command of the call; after the last one the position moves on, and what
\* was written is what is there.
Move(s) ==
    LET c == strm[s]
        cdb == Cdb(c)
        last == c.done + cdb.blocks = c.blocks
    IN  /\ c.pc = "move"
        /\ disk' = IF c.op = "write" THEN DeviceWrites(cdb, Part(c, cdb)) ELSE disk
        /\ ref' = IF c.op = "write" /\ last
                  THEN [b \in Bytes |-> IF b \in c.at .. c.at + c.n - 1 THEN {<<c.id, b - c.at>>} ELSE ref[b]]
                  ELSE ref
        /\ strm' = [strm EXCEPT ![s].pc = IF last THEN "returned" ELSE "move",
                                ![s].done = @ + cdb.blocks,
                                ![s].pos = IF last /\ c.seek THEN @ + c.n ELSE @,
                                ![s].buf = IF c.op = "read" THEN @ \o DeviceReads(cdb) ELSE @]
        /\ UNCHANGED <<raced, left>>

\* A command fails: the call ends, the position stays, and of a write the blocks
\* before it have been written.
CommandFails(s) ==
    /\ strm[s].pc \in {"load", "move"} /\ left.faults > 0
    /\ left' = [left EXCEPT !.faults = @ - 1]
    /\ strm' = [strm EXCEPT ![s].pc = "idle", ![s].buf = <<>>, ![s].op = "none"]
    /\ UNCHANGED <<disk, ref, raced>>

Return(s) ==
    /\ strm[s].pc = "returned"
    /\ strm' = [strm EXCEPT ![s].pc = "idle", ![s].buf = <<>>, ![s].op = "none"]
    /\ UNCHANGED <<disk, ref, raced, left>>

Next == \E s \in Streams :
    \/ \E sense \in {"none", "NotReady", "NoMedium"} : Open(s, sense)
    \/ \E op \in {"read", "write"}, len \in Lengths :
          Call(s, op, len) \/ \E lba \in 0 .. BlockCount : BlockCall(s, op, lba, len)
    \/ \E p \in 0 .. Size + 1 : Seek(s, p)
    \/ Load(s) \/ Move(s) \/ CommandFails(s) \/ Return(s)

Spec == Init /\ [][Next]_vars

-----------------------------------------------------------------------------

\* Unless two streams raced for a block, the unit holds what was written to it
\* and nothing else changed, byte for byte, whatever mixture of aligned and
\* unaligned calls, splits into commands, command forms and failing commands got
\* it there, and a read returns what is there.  (Read-modify-write of a partial
\* block is two commands: streams that race for a block may undo each other.)
BytesAsWritten ==
    ~raced =>
      /\ \A b \in Bytes : disk[b] \in ref[b]
      /\ \A s \in Streams : LET c == strm[s] IN
            c.pc = "returned" /\ c.op = "read" =>
              Len(c.buf) = c.n /\ \A i \in 1 .. c.n : c.buf[i] \in ref[c.at + i - 1]
=============================================================================
