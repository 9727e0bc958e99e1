----------------------------- MODULE BlockInfo ------------------------------
(***************************************************************************)
(* The blockinfo table of flon.system: onblock records every block and     *)
(* prunes what falls out of a rolling window, and other contracts ask for  *)
(* the latest batch of blocks.  onblock may fail, which leaves a gap in    *)
(* the records.  Heights are far from the end of uint32_t.                 *)
(***************************************************************************)
EXTENDS Integers, FiniteSets, FiniteSetsExt

CONSTANTS
    RollingWindowSize,   \* rolling_window_size, 10
    MaxHeight            \* bound: the last block

ASSUME BlockInfoAssumption ==
    RollingWindowSize \in Nat /\ MaxHeight \in Nat \ {0}

VARIABLES
    height,      \* the height of the latest block
    slot_of,     \* the time slot of every block of the chain, a function
    table,       \* the blockinfo table: the recorded slot by block_height
    recorded     \* history: the blocks whose onblock did not fail

infovars == <<height, slot_of, table, recorded>>

(* The table is introduced at some height of a running chain.              *)
InfoInit ==
    /\ height \in 0..1
    /\ slot_of = [h \in 0..height |-> h]
    /\ table = [h \in {} |-> 0]
    /\ recorded = {}

Rows == DOMAIN table

-----------------------------------------------------------------------------
(* The rows the loop erases: the two oldest, if they are prunable.         *)
Erased(rows, last_prunable) ==
    {h \in rows : h <= last_prunable
                  /\ Cardinality({g \in rows : g < h}) < 2}

(* Mutant: the row at the edge of the window is pruned.                    *)
last_prunable_block_height_Early(new_height) ==
    Max({new_height, RollingWindowSize}) - RollingWindowSize + 1

last_prunable_block_height(new_height) ==
    Max({new_height, RollingWindowSize}) - RollingWindowSize

(* The height in the id of the previous block, and one.                    *)
new_block_height == height + 1

add_to_blockinfo_table(slot) ==
    LET rows == Rows \cup (IF RollingWindowSize > 0 THEN {new_block_height} ELSE {})
        kept == rows \ Erased(rows, last_prunable_block_height(new_block_height))
    IN  table' = [h \in kept |-> IF h = new_block_height THEN slot ELSE table[h]]

(* A new block, some slots after the last one; onblock records it, or it   *)
(* fails and leaves no trace.                                              *)
Block(slot) ==
    /\ height < MaxHeight
    /\ height' = height + 1
    /\ slot_of' = [h \in 0..(height + 1) |->
                      IF h = height + 1 THEN slot ELSE slot_of[h]]

onblockRecords(slot) ==
    /\ Block(slot)
    /\ add_to_blockinfo_table(slot)
    /\ recorded' = recorded \cup {height + 1}

onblockFails(slot) ==
    /\ Block(slot)
    /\ UNCHANGED <<table, recorded>>

-----------------------------------------------------------------------------
(* The start of the latest batch: the blocks are cut into batches of size  *)
(* blocks, one of which starts at offset.                                  *)

(* Mutant: the batches are counted from 0.                                 *)
batch_start_height_FromZero(end, offset, size) == end - (end % size)

batch_start_height(end, offset, size) == end - ((end - offset) % size)

error(code) == [ error_code |-> code ]

get_latest_block_batch_info(offset, size) ==
    LET end == Max(Rows)
        start == batch_start_height(end, offset, size)
    IN  CASE size = 0 -> error("invalid_input")
          [] size # 0 /\ Rows = {} -> error("insufficient_data")
          [] size # 0 /\ Rows # {} /\ end < offset -> error("insufficient_data")
          [] OTHER ->
                IF start \in Rows
                THEN [ error_code |-> "no_error",
                       batch_start_height |-> start,
                       batch_start_timestamp |-> table[start],
                       batch_current_end_height |-> end,
                       batch_current_end_timestamp |-> table[end] ]
                ELSE error("insufficient_data")

InfoNext ==
    \/ \E d \in 1..2 : onblockRecords(slot_of[height] + d)
    \/ \E d \in 1..2 : onblockFails(slot_of[height] + d)
    \/ height = MaxHeight /\ UNCHANGED infovars    \* bound: the end of the run

InfoSpec == InfoInit /\ [][InfoNext]_infovars

-----------------------------------------------------------------------------
(* Properties.                                                             *)

InfoTypeOK ==
    /\ height \in 0..MaxHeight
    /\ DOMAIN slot_of = 0..height
    /\ Rows \subseteq 0..height
    /\ recorded \subseteq 0..height

(* The table never holds more rows than the window has blocks, however     *)
(* many blocks onblock missed before it prunes again, and every block that *)
(* was recorded stays in it, with the time it had, until as many blocks as *)
(* the window holds have come after it.                                    *)
WindowInv ==
    /\ InfoTypeOK
    /\ Cardinality(Rows) <= RollingWindowSize
    /\ Rows \subseteq recorded
    /\ \A h \in Rows : table[h] = slot_of[h]
    /\ \A h \in recorded : h > Max(recorded) - RollingWindowSize => h \in Rows

(* The batch as its documentation defines it: of the partition in which    *)
(* offset starts a batch, the one with the latest recorded block.          *)
LatestBatch(offset, size, end) ==
    CHOOSE b \in offset..end :
        /\ \E k \in 0..end : b = offset + k * size
        /\ end < b + size

(* What get_latest_block_batch_info answers is the batch of the definition *)
(* with the times the blocks really had; and it does answer whenever the   *)
(* batch fits the window and its blocks were all recorded.                 *)
BatchInv ==
    \A offset \in 0..MaxHeight, size \in 1..(RollingWindowSize + 1) :
        LET answer == get_latest_block_batch_info(offset, size) IN
        Rows # {} /\ offset <= Max(Rows) =>
            LET end == Max(Rows)
                start == LatestBatch(offset, size, end)
            IN  /\ answer.error_code = "no_error" =>
                      /\ answer.batch_start_height = start
                      /\ answer.batch_start_timestamp = slot_of[start]
                      /\ answer.batch_current_end_height = end
                      /\ answer.batch_current_end_timestamp = slot_of[end]
                /\ size <= RollingWindowSize /\ start..end \subseteq recorded
                      => answer.error_code = "no_error"
=============================================================================
