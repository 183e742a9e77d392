----------------------------- MODULE TextRecord -----------------------------
(***************************************************************************)
(* prepare_text_record (include/vosp/logger.hpp): how a record is laid out *)
(* in the 512-byte buffer of a PreparedTextRecord.  A text is its length.  *)
(***************************************************************************)
EXTENDS Naturals

PrefixCapacity == 512
\* to_string of a Level and of a Category; an enum may hold other values.
LevelLength == [TRACE |-> 5, DEBUG |-> 5, INFO |-> 4, WARNING |-> 7,
                ERROR |-> 5, CRITICAL |-> 8, UNKNOWN |-> 7]
CategoryLength == [NETWORK |-> 7, DATABASE |-> 8, FILESYSTEM |-> 10,
                   NONE |-> 4, UNKNOWN |-> 7]

\* A LogEntry: "digits" is how many to_chars makes of a 32-bit code, "length"
\* the size of the message.
Entry(e) ==
  /\ e.level \in DOMAIN LevelLength /\ e.category \in DOMAIN CategoryLength
  /\ e.digits \in 1 .. 10 /\ e.length \in Nat

\* "[", "] [", "] code=" and " message=" around the four texts.
HeaderSize(e) ==
  LevelLength[e.level] + CategoryLength[e.category] + e.digits + 1 + 3 + 7 + 9
MessageFitsExactly(e) == e.length <= PrefixCapacity - HeaderSize(e) \* mutant
message_is_buffered(e) == e.length < PrefixCapacity - HeaderSize(e)
prefix_size(e) ==
  HeaderSize(e) + IF message_is_buffered(e) THEN e.length + 1 ELSE 0

\* The bytes of the whole line.
LineSize(e) == HeaderSize(e) + e.length + 1
=============================================================================
