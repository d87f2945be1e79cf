---------------------------- MODULE MCTransport ----------------------------
(***************************************************************************)
(* Instances of Transport for TLC.  The snapshots cover: none, less than a *)
(* page, a full page, a short last page, pages whose contents look like    *)
(* frame headers (0, 4 is MsgComplete, 0, 3 is MsgDataBlock), and one over *)
(* the size limit of that run.                                             *)
(***************************************************************************)
EXTENDS Transport, SequencesExt

MCSnapshots ==
    { <<>>, <<5>>, <<6, 2>>, <<1, 2, 3>>, <<0, 4, 0, 0>>, <<0, 3, 0, 4, 0>> }

\* A checksum that depends on every digit and its place.
MCHash(page) == FoldLeft(LAMBDA h, x : (3 * h + x + 1) % Base, 0, page)

\* Long enough for the frame header of a cut write to swallow whole blocks.
MCLongSnapshots == { <<1, 2, 3, 4, 5, 6>>, <<0, 0, 0, 4, 0, 0, 1>> }
=============================================================================
