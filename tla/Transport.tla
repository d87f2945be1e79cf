----------------------------- MODULE Transport -----------------------------
(***************************************************************************)
(* One snapshot transfer: SendSnapshot (wraith-go/pkg/transport/client.go) *)
(* and receiveOne (server.go) over one TCP connection, with the framing of *)
(* protocol.go.                                                            *)
(*                                                                         *)
(* The stream is a sequence of units, the bytes of the protocol scaled     *)
(* down: a unit holds a digit in base Base, the two 4-byte integers of a   *)
(* frame header are two digits each, big-endian, and the three integers of *)
(* a block header (offset, checksum, data_len) take one unit each.  A      *)
(* write that fails may have put any proper prefix of the frame on the     *)
(* stream, and sendBlockWithRetry then writes the frame again behind it.   *)
(* TCP neither corrupts nor reorders; it may break.                        *)
(***************************************************************************)
EXTENDS Integers, Sequences

CONSTANTS
    Base,         \* number of values of a unit (256 in the code)
    PageSize,     \* units per page (4096)
    MaxRetries,   \* TransferOptions.MaxRetries
    MaxSnapshotBytes, \* maxSnapshotBytes (128 GB)
    Snapshots,    \* the snapshots to be sent, sequences of digits
    XXHash64(_)   \* the checksum of a string, an ordinary unit of the stream

\* The values of protocol.go; MsgError is 0xFF there, above every other type.
MsgHandshake  == 1
MsgReadyAck   == 2
MsgDataBlock  == 3
MsgComplete   == 4
MsgRestoreAck == 5
MsgError      == 7

ASSUME BaseAssumption == Base \in Nat /\ Base > MsgError
ASSUME PageAssumption == PageSize \in 1 .. (Base - 1)
ASSUME RetriesAssumption == MaxRetries \in Nat
ASSUME LimitAssumption == MaxSnapshotBytes \in Nat
ASSUME SnapshotsAssumption ==
    \A s \in Snapshots : s \in Seq(0 .. (Base - 1)) /\ Len(s) < Base
ASSUME HashAssumption ==
    \A s \in Snapshots : \A i, j \in 1 .. Len(s) :
        XXHash64(SubSeq(s, i, j)) \in 0 .. (Base - 1)

VARIABLES
    data,      \* the snapshot file, as read by the transmitter
    tx,        \* where SendSnapshot is
    blk,       \* pages sent so far
    attempt,   \* retries of the current block
    resent,    \* was a block written again behind a part of it? (history)
    hs,        \* the Handshake / ReadyAck exchange
    link,      \* the TCP connection, "up" or "down"
    wire,      \* units written and not yet read
    rx,        \* where receiveOne is
    buf,       \* the receive buffer, TotalBytes long
    written,   \* bytesWritten
    result     \* the bytes AcceptSnapshot returned

txVars == <<tx, blk, attempt, resent>>
rxVars == <<rx, buf, written, result>>
vars == <<data, txVars, hs, link, wire, rxVars>>

TotalBytes == Len(data)

Init ==
    /\ data \in Snapshots
    /\ tx = "dial"
    /\ blk = 0
    /\ attempt = 0
    /\ resent = FALSE
    /\ hs = "none"
    /\ link = "up"
    /\ wire = <<>>
    /\ rx = "accept"
    /\ buf = <<>>
    /\ written = 0
    /\ result = <<>>

-----------------------------------------------------------------------------
(***************************************************************************)
(* Frames.                                                                 *)
(***************************************************************************)

\* binary.Write(w, binary.BigEndian, uint32)
Int2(n) == <<n \div Base, n % Base>>

\* Frame.WriteTo: type, length, payload.
Frame(type, payload) == Int2(type) \o Int2(Len(payload)) \o payload

PageCount == (TotalBytes + PageSize - 1) \div PageSize

\* data[offset:end] for the n-th page; on the first call DirtyOffsets returns
\* every page, in order.
Page(n) ==
    LET end == (n + 1) * PageSize
    IN  SubSeq(data, n * PageSize + 1, IF end > TotalBytes THEN TotalBytes ELSE end)

\* delta.HashPage.  Nothing is assumed of the function: strings may collide, and
\* the data of a page may hold a whole block with the checksum it should have.
HashPage(page) == XXHash64(page)

\* Mutant: the block is labelled with the number of its page.
BlockFrameByIndex(n) ==
    Frame(MsgDataBlock, <<n, HashPage(Page(n)), Len(Page(n))>> \o Page(n))

\* WriteBlock
BlockFrame(n) ==
    Frame(MsgDataBlock, <<n * PageSize, HashPage(Page(n)), Len(Page(n))>> \o Page(n))

HeaderLen == 4
BlockHeaderLen == 3

\* The header at the front of the stream, as ReadFrom decodes it.
WireType == wire[1] * Base + wire[2]
WireLen  == wire[3] * Base + wire[4]

\* ReadFrom can return: header and payload have arrived.
FrameArrived ==
    /\ Len(wire) >= HeaderLen
    /\ Len(wire) >= HeaderLen + WireLen

Payload == SubSeq(wire, HeaderLen + 1, HeaderLen + WireLen)

-----------------------------------------------------------------------------
(***************************************************************************)
(* The transmitter.                                                        *)
(***************************************************************************)

TxGives(outcome) == tx' = outcome /\ UNCHANGED <<blk, attempt, resent>>

Dial ==
    /\ tx = "dial"
    /\ \/ /\ link = "up"
          /\ TxGives("handshake")
          /\ rx' = "handshake"
       \/ TxGives("error") /\ UNCHANGED rx
    /\ UNCHANGED <<data, hs, link, wire, buf, written, result>>

SendHandshake ==
    /\ tx = "handshake"
    /\ \/ TxGives("await_ack") /\ hs' = "sent"
       \/ TxGives("error") /\ UNCHANGED hs
    /\ UNCHANGED <<data, link, wire, rxVars>>

\* Mutant: the answer is awaited without a deadline.
ReadReadyAckNoDeadline ==
    /\ tx = "await_ack"
    /\ \/ hs = "accepted" /\ TxGives("blocks")
       \/ hs = "rejected" /\ TxGives("error")
    /\ UNCHANGED <<data, hs, link, wire, rxVars>>

\* ReadFrame with its deadline, then the Accepted flag.  (Conn sets deadlines for
\* Timeout > 0 only, which the flag defaults of both programs are.)
ReadReadyAck ==
    /\ tx = "await_ack"
    /\ \/ hs = "accepted" /\ TxGives("blocks")
       \/ hs = "rejected" /\ TxGives("error")
       \/ hs = "sent" /\ TxGives("error")
    /\ UNCHANGED <<data, hs, link, wire, rxVars>>

\* Mutant: retries at will, the counter is not consulted.
SendBlockFailsUnbounded ==
    /\ tx = "blocks"
    /\ blk < PageCount
    /\ \E k \in 0 .. (Len(BlockFrame(blk)) - 1) :
          wire' = wire \o SubSeq(BlockFrame(blk), 1, k)
    /\ attempt <= MaxRetries
    /\ attempt' = attempt + 1
    /\ UNCHANGED <<data, tx, blk, resent, hs, link, rxVars>>

SendBlock ==
    /\ tx = "blocks"
    /\ blk < PageCount
    /\ link = "up"
    /\ wire' = wire \o BlockFrame(blk)
    /\ blk' = blk + 1
    /\ attempt' = 0
    /\ UNCHANGED <<data, tx, resent, hs, link, rxVars>>

\* A write error (deadline, broken connection) after k units of the frame; the
\* retry starts with the first unit again.
SendBlockFails ==
    /\ tx = "blocks"
    /\ blk < PageCount
    /\ \E k \in 0 .. (Len(BlockFrame(blk)) - 1) :
          /\ wire' = wire \o SubSeq(BlockFrame(blk), 1, k)
          /\ IF attempt < MaxRetries
             THEN /\ attempt' = attempt + 1
                  /\ resent' = (resent \/ k > 0)
                  /\ UNCHANGED tx
             ELSE tx' = "error" /\ UNCHANGED <<attempt, resent>>
    /\ UNCHANGED <<data, blk, hs, link, rxVars>>

\* Mutant: an acknowledgement is awaited after MsgComplete, with a deadline.
SendCompleteAwaitsAck ==
    /\ tx = "blocks"
    /\ blk = PageCount
    /\ link = "up"
    /\ wire' = wire \o Frame(MsgComplete, <<>>)
    /\ TxGives("ok") \/ TxGives("error")
    /\ UNCHANGED <<data, hs, link, rxVars>>

\* MsgComplete is not retried.  The transmitter does not wait for an answer:
\* MsgRestoreAck is never sent.
SendComplete ==
    /\ tx = "blocks"
    /\ blk = PageCount
    /\ \/ /\ link = "up"
          /\ wire' = wire \o Frame(MsgComplete, <<>>)
          /\ TxGives("ok")
       \/ \E k \in 0 .. (HeaderLen - 1) :
             /\ wire' = wire \o SubSeq(Frame(MsgComplete, <<>>), 1, k)
             /\ TxGives("error")
    /\ UNCHANGED <<data, hs, link, rxVars>>

TxClosed == tx \in {"ok", "error"}

-----------------------------------------------------------------------------
(***************************************************************************)
(* The receiver.                                                           *)
(***************************************************************************)

RxFails == rx' = "error" /\ UNCHANGED <<buf, written, result>>

\* Empty transfers are refused.  The size limit is looked at after the transfer
\* was accepted: the sender learns of it from the closed connection only.
ReceiveHandshake ==
    /\ rx = "handshake"
    /\ hs = "sent"
    /\ IF TotalBytes = 0
       THEN hs' = "rejected" /\ RxFails
       ELSE \/ /\ hs' = "accepted"
               /\ TotalBytes <= MaxSnapshotBytes
               /\ rx' = "receiving"
               /\ buf' = [i \in 1 .. TotalBytes |-> 0]
               /\ UNCHANGED <<written, result>>
            \/ hs' = "accepted" /\ TotalBytes > MaxSnapshotBytes /\ RxFails
            \/ link = "down" /\ RxFails /\ UNCHANGED hs
    /\ UNCHANGED <<data, txVars, link, wire>>

HandshakeFails ==
    /\ rx = "handshake"
    /\ hs = "none"
    /\ RxFails
    /\ UNCHANGED <<data, txVars, hs, link, wire>>

\* ReadBlock and the two checks that precede the copy.
BlockOffset   == Payload[1]
BlockChecksum == Payload[2]
BlockDataLen  == Payload[3]
BlockData     == SubSeq(Payload, BlockHeaderLen + 1, BlockHeaderLen + BlockDataLen)

BlockAcceptable ==
    /\ Len(Payload) >= BlockHeaderLen
    /\ BlockDataLen <= Len(Payload) - BlockHeaderLen
    /\ BlockOffset + BlockDataLen <= TotalBytes
    /\ HashPage(BlockData) = BlockChecksum

ConsumeFrame == wire' = SubSeq(wire, HeaderLen + WireLen + 1, Len(wire))

ReceiveBlock ==
    /\ rx = "receiving"
    /\ FrameArrived
    /\ WireType = MsgDataBlock
    /\ BlockAcceptable
    /\ ConsumeFrame
    /\ buf' = [i \in 1 .. TotalBytes |->
                  IF i \in (BlockOffset + 1) .. (BlockOffset + BlockDataLen)
                  THEN BlockData[i - BlockOffset] ELSE buf[i]]
    /\ written' = written + BlockDataLen
    /\ UNCHANGED <<data, txVars, hs, link, rx, result>>

\* A block that fails a check, or MsgError (which SendSnapshot never sends).
AbortsTransfer == WireType = MsgError \/ (WireType = MsgDataBlock /\ ~BlockAcceptable)

RejectFrame ==
    /\ rx = "receiving"
    /\ FrameArrived
    /\ AbortsTransfer
    /\ ConsumeFrame
    /\ RxFails
    /\ UNCHANGED <<data, txVars, hs, link>>

\* MsgComplete ends the loop; nothing compares written with TotalBytes, but the
\* slice buf[:written] panics when it exceeds the capacity of buf (a block that
\* arrived twice).
ReceiveComplete ==
    /\ rx = "receiving"
    /\ FrameArrived
    /\ WireType = MsgComplete
    /\ ConsumeFrame
    /\ IF written <= TotalBytes
       THEN rx' = "done" /\ result' = SubSeq(buf, 1, written) /\ UNCHANGED <<buf, written>>
       ELSE RxFails
    /\ UNCHANGED <<data, txVars, hs, link>>

\* "unknown frame type, skipping"
ReceiveUnknown ==
    /\ rx = "receiving"
    /\ FrameArrived
    /\ WireType \notin {MsgDataBlock, MsgComplete, MsgError}
    /\ ConsumeFrame
    /\ UNCHANGED <<data, txVars, hs, link, rxVars>>

\* Mutant: the `err == io.EOF` branch of the loop is taken at the end of the
\* stream, as the code reads, instead of never (ReadFrom wraps its errors).
ReadFailsEOFBreaks ==
    /\ rx = "receiving"
    /\ ~FrameArrived
    /\ IF TxClosed
       THEN rx' = "done" /\ result' = SubSeq(buf, 1, written) /\ UNCHANGED <<buf, written>>
       ELSE RxFails
    /\ UNCHANGED <<data, txVars, hs, link, wire>>

\* The read deadline expires, the connection breaks, or the stream ends: an
\* error in each case, since the io.EOF that receiveOne compares with is
\* wrapped by ReadFrom.
ReadFails ==
    /\ rx = "receiving"
    /\ ~FrameArrived \/ link = "down"
    /\ RxFails
    /\ UNCHANGED <<data, txVars, hs, link, wire>>

LinkBreaks ==
    /\ link = "up"
    /\ link' = "down"
    /\ UNCHANGED <<data, txVars, hs, wire, rxVars>>

-----------------------------------------------------------------------------
Transmit ==
    \/ Dial
    \/ SendHandshake
    \/ ReadReadyAck
    \/ SendBlock
    \/ SendBlockFails
    \/ SendComplete

Receive ==
    \/ ReceiveHandshake
    \/ HandshakeFails
    \/ ReceiveBlock
    \/ ReceiveComplete
    \/ RejectFrame
    \/ ReceiveUnknown
    \/ ReadFails

Next == Transmit \/ Receive \/ LinkBreaks

\* Both programs keep running; their deadlines are part of their steps.
Spec == Init /\ [][Next]_vars /\ WF_vars(Transmit) /\ WF_vars(Receive)

-----------------------------------------------------------------------------
Units == Nat

TypeOK ==
    /\ data \in Snapshots
    /\ tx \in {"dial", "handshake", "await_ack", "blocks", "ok", "error"}
    /\ blk \in 0 .. PageCount
    /\ attempt \in 0 .. MaxRetries
    /\ resent \in BOOLEAN
    /\ hs \in {"none", "sent", "accepted", "rejected"}
    /\ link \in {"up", "down"}
    /\ wire \in Seq(Units)
    /\ rx \in {"accept", "handshake", "receiving", "done", "error"}
    /\ buf \in Seq(Units)
    /\ written \in Nat
    /\ result \in Seq(Units)

\* As long as no block was written again behind a part of it, what AcceptSnapshot
\* returns is the snapshot, whole, wherever the link breaks, whatever the pages
\* look like, and however many blocks were tried again from a clean start.
ReceivedIsSent == (rx = "done" /\ ~resent) => result = data

\* As long as no block was written again behind a part of it, the receiver never
\* loses its place in the stream, whatever the pages contain and wherever writes
\* fail: the next frame it can read is the block it needs next, which passes every
\* check of receiveOne (server.go:113-145), or MsgComplete after the last one, and
\* what it has copied is the snapshot up to there.
ReceiverInStep ==
    (rx = "receiving" /\ ~resent) =>
        /\ written <= TotalBytes
        /\ \A i \in 1 .. written : buf[i] = data[i]
        /\ FrameArrived =>
              \/ WireType = MsgDataBlock /\ BlockAcceptable /\ BlockOffset = written
              \/ WireType = MsgComplete /\ written = TotalBytes

\* client.go: "On error the source process can be unfrozen because no data has
\* been committed on the destination yet".  (A stream on which a block was written
\* again is excepted: the receiver may take page data for MsgComplete.)
ErrorMeansUncommitted == (tx = "error" /\ ~resent) => rx # "done"

\* What the orchestrator's model sees of the two programs.
TeleporterXmit ==
    IF tx = "dial" THEN "dialing" ELSE IF TxClosed THEN tx ELSE "sending"

TeleporterRcv ==
    IF rx = "accept" THEN "listening"
    ELSE IF rx \in {"handshake", "receiving"} THEN "receiving"
    ELSE IF rx = "error" THEN "failed"
    ELSE IF result = data THEN "buffered" ELSE "buffered_cut"

\* The transfer of a migration, over a link that may break.
T == INSTANCE Teleporter WITH
        MaxWork <- 0, Faults <- {"network"}, TimeoutFlagParses <- TRUE,
        pc <- "transfer_wait", state <- "TRANSFERRING", exc <- "none", exit <- "none",
        opts <- [verify_only |-> FALSE, keep_snapshot |-> FALSE, strict_fds |-> FALSE],
        src <- "running", work <- 0, capt <- "ok", image <- 0, local <- "saved",
        xmit <- TeleporterXmit, rcv <- TeleporterRcv, remote <- "none",
        rst <- "none", dst <- "none"

\* The same, with blocks that are sent again behind a part of themselves.
R == INSTANCE Teleporter WITH
        MaxWork <- 0, Faults <- {"network", "retry"}, TimeoutFlagParses <- TRUE,
        pc <- "transfer_wait", state <- "TRANSFERRING", exc <- "none", exit <- "none",
        opts <- [verify_only |-> FALSE, keep_snapshot |-> FALSE, strict_fds |-> FALSE],
        src <- "running", work <- 0, capt <- "ok", image <- 0, local <- "saved",
        xmit <- TeleporterXmit, rcv <- TeleporterRcv, remote <- "none",
        rst <- "none", dst <- "none"

\* Every step of the two programs is one that Teleporter allows them, or none.
\* Above all, the receiver returns only after the transmitter has completed, and
\* then all of the snapshot, if no block was sent again behind a part of itself.
ImplementsTeleporter ==
    /\ TeleporterXmit = "dialing" /\ TeleporterRcv = "listening"
    /\ [][IF resent THEN R!TransmitterStep \/ R!ReceiverStep
          ELSE T!TransmitterStep \/ T!ReceiverStep]_(T!vars)

\* server.go: AcceptSnapshot "receives the full snapshot, and returns the raw
\* Protobuf bytes".  Retries break it.
ReceivesFullSnapshot == rx = "done" => result = data

\* A receiver that accepted a connection comes to an end, and so does
\* SendSnapshot, whatever the peer does.
TransferEnds ==
    /\ <>TxClosed
    /\ (rx \in {"handshake", "receiving"}) ~> (rx \in {"done", "error"})
=============================================================================
