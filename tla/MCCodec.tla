-------------------------------- MODULE MCCodec --------------------------------
(* Codec for model checking: a Buffer of ten units, a packet of each type and   *)
(* one wrong frame of each kind, two of them sent.                              *)
EXTENDS Codec

Packets == {packet(QueryResults, <<>>), packet(QueryResults, <<1>>), packet(AnswerResults, <<>>)}
badSum   == [packet(QueryResults, <<1>>) EXCEPT ![6] = @ + 1]
badName  == LET head == <<1, QueryResults, 0>> IN <<4>> \o head \o <<adler32(head)>>
unknown  == packet(13, <<>>)
badData  == packet(AnswerResults, <<unparsable>>)
tooLong  == <<8, 2, 11, 0, 1>>
negative == <<-1, 2, 11, 0, 1>>
MCFrames == Packets \cup {badSum, badName, unknown, badData, tooLong, negative}
AsWritten == {"noLength", "datavalue"}

\* What CodecProofs asks of the frames is true of these.
ASSUME MCFramesAssumption == framesAreClear
=============================================================================
