---------------------------- MODULE MCStreamSink ----------------------------
(***************************************************************************)
(* Log entries for StreamSink: a short one, and the shortest one whose     *)
(* message does not fit beside its header.                                 *)
(***************************************************************************)
EXTENDS StreamSink

Short == [level |-> "INFO", category |-> "NETWORK", digits |-> 4, length |-> 8]
\* HeaderSize is 48 here, so that 464 bytes remain.
Long == [level |-> "CRITICAL", category |-> "FILESYSTEM", digits |-> 10,
         length |-> 464]
Entries == {Short, Long}
\* The long one reaches the threshold exactly.
Threshold == LineSize(Long)
=============================================================================
