------------------------------- MODULE SdStore -------------------------------
(***************************************************************************)
(* What the SD host and its card promise a driver: a store of blocks, a    *)
(* buffer in memory, and at most one order at a time.  Data moves only by  *)
(* the order in force, to or from the blocks it names, and uses the order  *)
(* up; a transfer is reported good if and only if it moved all its blocks. *)
(***************************************************************************)
EXTENDS Integers, Sequences

CONSTANTS
  Value,       \* what a block may hold
  MaxLba,      \* bound on the blocks a driver addresses
  MaxCount     \* bound on the blocks of a transfer

VARIABLES
  image,       \* the card's blocks: block l is image[l + 1]
  buffer,      \* the blocks in memory at the address given to the host
  order,       \* the transfer the card has been told to make
  good         \* how the last transfer of each kind was reported

storeVars == <<image, buffer, order, good>>

NoOrder == [op |-> "none", lba |-> 0, single |-> TRUE]
Order == [op : {"read", "write", "info"}, lba : 0..MaxLba, single : BOOLEAN]
Buffers == [1..MaxCount -> Value]

\* The first k blocks of the order have moved into the buffer, or to the image.
Fetched(k) ==
  /\ order.lba + k <= Len(image)
  /\ buffer' = [i \in 1..MaxCount |-> IF i <= k THEN image[order.lba + i] ELSE buffer[i]]
Stored(k) ==
  /\ \A i \in 1..k : order.lba + i <= Len(image') /\ image'[order.lba + i] = buffer[i]
  /\ \A j \in 1..Len(image) : j \notin order.lba + 1..order.lba + k => image'[j] = image[j]
  /\ Len(image') \in {Len(image), order.lba + k}

Reported(kind, ok) ==
  /\ good' = [good EXCEPT ![kind] = ok]
  /\ order' = NoOrder
-----------------------------------------------------------------------------
\* A command gives a new order, or ends the one in force.
Command ==
  /\ order' \in Order \cup {NoOrder}
  /\ UNCHANGED <<image, buffer, good>>

Receive(n) ==
  /\ \/ /\ order.op = "read"
        /\ \E k \in 0..n : Fetched(k) /\ Reported("rx", k = n)
     \/ /\ order.op = "info"
        /\ \E v \in Value : buffer' = [buffer EXCEPT ![1] = v]
        /\ Reported("rx", TRUE)
     \/ /\ order.op \notin {"read", "info"}
        /\ Reported("rx", FALSE) /\ UNCHANGED buffer
  /\ UNCHANGED image

Transmit(n) ==
  /\ \/ /\ order.op = "write"
        /\ \E k \in 0..n : Stored(k) /\ Reported("tx", k = n)
     \/ /\ order.op # "write"
        /\ Reported("tx", FALSE) /\ UNCHANGED image
  /\ UNCHANGED buffer

\* The driver puts something else into the buffer.
Fill ==
  /\ buffer' \in Buffers
  /\ UNCHANGED <<image, order, good>>

StoreInit ==
  /\ image \in Seq(Value)
  /\ buffer \in Buffers
  /\ order = NoOrder
  /\ good = [kind \in {"rx", "tx"} |-> TRUE]

StoreNext ==
  \/ Command
  \/ \E n \in 1..MaxCount : (order.single => n = 1) /\ (Receive(n) \/ Transmit(n))
  \/ Fill

StoreSpec == StoreInit /\ [][StoreNext]_storeVars
=============================================================================
