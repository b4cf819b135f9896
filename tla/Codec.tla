--------------------------------- MODULE Codec ---------------------------------
(***************************************************************************)
(* yprotobuf::ProtobufCodec over a Buffer, with Dispatcher_lite and Server *)
(* behind it.  A peer sends frames, right and wrong ones, and the socket   *)
(* delivers their bytes in pieces of any size.  An int32_t is one unit     *)
(* here, a character one unit, and a type name one character with its NUL; *)
(* the units of a frame are otherwise where the code puts and looks for    *)
(* them.  External: adler32, the descriptor pool, parsing of the payload.  *)
(***************************************************************************)
EXTENDS Buffer

CONSTANTS
    initialSize,        \* of a Buffer
    s_maxMessageLen,
    Frames,             \* bound: the byte strings a peer may send, one after another
    MaxFrames,          \* bound: how many of them
    Faults              \* what is as written, not as meant:
                        \*   "noLength"   fillEmptyBuffer leaves the length out
                        \*   "datavalue"  onQueryResults sets a field that is not there

ASSUME CodecAssumption ==
    /\ initialSize \in Nat /\ s_maxMessageLen \in Nat /\ MaxFrames \in Nat
    /\ Frames \subseteq Seq(Int)
    /\ Faults \subseteq {"noLength", "datavalue"}

VARIABLES
    wire,               \* bytes sent and not yet delivered
    sent,               \* history: the frames sent
    buf,                \* the connection's input Buffer
    parsing,            \* onMessage is in its loop
    handled,            \* history: the messages given to the message callback
    errors,             \* history: the codes given to the error callback
    replies,            \* what Server sent back
    connected,          \* TcpConnection::isConnected
    aborted             \* "no", or the assert or access that stopped the process

peerVars == <<wire, sent>>
callbackVars == <<handled, errors, replies, connected>>
vars == <<peerVars, buf, parsing, callbackVars, aborted>>

Init ==
    /\ wire = <<>> /\ sent = <<>>
    /\ buf = newBuffer(initialSize)
    /\ parsing = FALSE
    /\ handled = <<>> /\ errors = <<>> /\ replies = <<>>
    /\ connected = TRUE
    /\ aborted = "no"

-----------------------------------------------------------------------------
(* The format (protobufCodec.h).                                           *)

s_headerLen == 1
s_minMessageLen == 2 * s_headerLen + 2

QueryResults == 11
AnswerResults == 12
generated_pool == {QueryResults, AnswerResults}     \* types with a descriptor
registered == {QueryResults}                        \* Server's constructor
unparsable == 9                                     \* a payload ParseFromArray refuses

\* External: stands for adler32, and tells every two frames of a model apart.
adler32(s) ==
    LET sum[i \in 0..Len(s)] == IF i = 0 THEN 100 ELSE sum[i - 1] + (2 * i + 1) * s[i]
    IN  sum[Len(s)]

\* nameLen, name with NUL, payload, checksum: what fillEmptyBuffer writes.
body(type, payload) ==
    LET head == <<2, type, 0>> \o payload IN head \o <<adler32(head)>>

packet(type, payload) == <<Len(body(type, payload))>> \o body(type, payload)

\* The Buffer fillEmptyBuffer works on: with the name, the payload, the checksum.
named(type) == append(append(newBuffer(initialSize), <<2>>), <<type, 0>>)
serialized(type, payload) ==
    hasWritten(write(ensureSpace(named(type), Len(payload)), payload), Len(payload))
filled(type, payload) ==
    append(serialized(type, payload), <<adler32(contents(serialized(type, payload)))>>)

\* fillEmptyBuffer computes the length last and, as written, drops it.
fillEmptyBuffer(type, payload) ==
    LET d == filled(type, payload)
    IN  IF "noLength" \in Faults THEN contents(d) ELSE <<readableBytes(d)>> \o contents(d)

\* Its appends leave something writable, as append asserts.
fillEmptyBufferAsserts(type, payload) ==
    /\ appendAsserts(newBuffer(initialSize), <<2>>)
    /\ appendAsserts(append(newBuffer(initialSize), <<2>>), <<type, 0>>)
    /\ appendAsserts(serialized(type, payload), <<adler32(contents(serialized(type, payload)))>>)

-----------------------------------------------------------------------------
(* parse.                                                                  *)

\* The error code for the len bytes behind the length.
parse(s) ==
    LET head == SubSeq(s, 1, Len(s) - s_headerLen)
        nameLen == s[1]
    IN  IF s[Len(s)] # adler32(head) THEN "CheckSumError"
        ELSE IF nameLen < 2 \/ nameLen > Len(s) - 2 * s_headerLen THEN "InvalidNameLen"
        ELSE IF nameLen # 2 \/ s[2] \notin generated_pool THEN "UnknownMessageType"
        ELSE IF unparsable \in {s[i] : i \in 2 + nameLen..Len(s) - 1} THEN "ParseError"
        ELSE "NoError"

message(s) == [type |-> s[2], payload |-> SubSeq(s, 4, Len(s) - 1)]

-----------------------------------------------------------------------------
(* The peer and the socket.                                                *)

Send(f) ==
    /\ aborted = "no" /\ Len(sent) < MaxFrames
    /\ sent' = Append(sent, f) /\ wire' = wire \o f
    /\ UNCHANGED <<buf, parsing, callbackVars, aborted>>

\* TcpConnection::handleRead: what has come is read, and onMessage begins.
Receive(n) ==
    /\ aborted = "no" /\ ~parsing /\ n \in 1..Len(wire)
    /\ wire' = SubSeq(wire, n + 1, Len(wire))
    /\ IF readFromFdAsserts(buf, SubSeq(wire, 1, n))
       THEN /\ buf' = readFromFd(buf, SubSeq(wire, 1, n))
            /\ parsing' = TRUE /\ UNCHANGED aborted
       ELSE aborted' = "append" /\ UNCHANGED <<buf, parsing>>
    /\ UNCHANGED <<sent, callbackVars>>

-----------------------------------------------------------------------------
(* onMessage, one turn of its loop a step.                                 *)

bytes == contents(buf)
len == bytes[1]
enough == readableBytes(buf) >= s_minMessageLen + s_headerLen
validLength == s_minMessageLen <= len /\ len <= s_maxMessageLen
complete == readableBytes(buf) >= len + s_headerLen
frame == SubSeq(bytes, s_headerLen + 1, s_headerLen + len)

\* Too little for any message, or for this one.
OnMessageWaits ==
    /\ aborted = "no" /\ parsing
    /\ enough => validLength /\ ~complete
    /\ parsing' = FALSE
    /\ UNCHANGED <<peerVars, buf, callbackVars, aborted>>

\* defaultErrorCallback; what was wrong stays in the Buffer.
error(code) ==
    /\ errors' = Append(errors, code)
    /\ connected' = FALSE
    /\ parsing' = FALSE
    /\ UNCHANGED <<buf, handled, replies, aborted>>

OnMessageError ==
    /\ aborted = "no" /\ parsing /\ enough
    /\ \/ ~validLength /\ error("InvalidLength")
       \/ validLength /\ complete /\ parse(frame) # "NoError" /\ error(parse(frame))
    /\ UNCHANGED peerVars

\* send_mt takes nothing unless the connection is CONNECTED.
send(type, payload) ==
    IF fillEmptyBufferAsserts(type, payload)
    THEN /\ replies' = IF connected THEN Append(replies, fillEmptyBuffer(type, payload)) ELSE replies
         /\ UNCHANGED aborted
    ELSE aborted' = "append" /\ UNCHANGED replies

\* Server's answer; its data is set in a repeated field that has no elements,
\* which may end the process or go unnoticed.
onQueryResults ==
    /\ \/ "datavalue" \in Faults /\ aborted' = "datavalue" /\ UNCHANGED replies
       \/ send(AnswerResults, <<1>>)
    /\ UNCHANGED connected

onUnknownMessage == connected' = FALSE /\ UNCHANGED <<replies, aborted>>

\* Dispatcher_lite, whose default callback is Server::onUnknownMessage.
onProtobufMessage(m) == IF m.type \in registered THEN onQueryResults ELSE onUnknownMessage

\* Mutant: forgets that the length is part of the frame.
consumeFrame(n) == buf' = retrieve(buf, n)
consume(n) == buf' = retrieve(buf, s_headerLen + n)

OnMessageHandles ==
    /\ aborted = "no" /\ parsing /\ enough /\ validLength /\ complete
    /\ parse(frame) = "NoError"
    /\ handled' = Append(handled, message(frame))
    /\ onProtobufMessage(message(frame))
    /\ consume(len)
    /\ UNCHANGED <<peerVars, parsing, errors>>

Next ==
    \/ \E f \in Frames : Send(f)
    \/ \E n \in 1..Len(wire) : Receive(n)
    \/ OnMessageWaits \/ OnMessageError \/ OnMessageHandles

Spec == Init /\ [][Next]_vars

-----------------------------------------------------------------------------
(* Properties.                                                             *)

\* The shapes the declarations give, with the indexes of the Buffer inside it.
TypeOK ==
    /\ wire \in Seq(Int) /\ sent \in Seq(Frames)
    /\ buf \in Buffers /\ inRange(buf)
    /\ parsing \in BOOLEAN /\ connected \in BOOLEAN
    /\ handled \in Seq([type : generated_pool, payload : Seq(Int)])
    /\ errors \in Seq({"InvalidLength", "CheckSumError", "InvalidNameLen", "UnknownMessageType", "ParseError"})
    /\ replies \in Seq(Seq(Int))
    /\ aborted \in {"no", "append", "datavalue"}

\* What a reader of the format takes from frames that came whole: messages up to
\* the first frame that is not as documented.
good(f) ==
    LET payload == SubSeq(f, 5, Len(f) - 1)
    IN  /\ \A i \in 1..Len(payload) : payload[i] # unparsable
        /\ \E t \in generated_pool : f = packet(t, payload)
goodPrefix == CHOOSE n \in 0..Len(sent) :
    /\ \A i \in 1..n : good(sent[i])
    /\ n < Len(sent) => ~good(sent[n + 1])
expected == [i \in 1..goodPrefix |-> message(Tail(sent[i]))]

\* What a frame must be for the next one to begin behind it: good, and not too
\* long, or refused by what it holds itself, whatever comes behind it.
refused(f) ==
    \/ f[1] \notin s_minMessageLen..s_maxMessageLen
    \/ f[1] = Len(f) - s_headerLen /\ parse(Tail(f)) # "NoError"
framesAreClear ==
    \A f \in Frames :
        /\ Len(f) >= s_minMessageLen + s_headerLen
        /\ IF good(f) THEN Len(f) - s_headerLen <= s_maxMessageLen ELSE refused(f)

\* However the bytes are cut, onMessage hands on exactly the messages of the
\* frames before the first wrong one, in order and once each; nothing behind a
\* wrong frame is ever taken for a message.
HandledAsSent ==
    /\ TypeOK
    /\ Len(handled) <= Len(expected)
    /\ handled = SubSeq(expected, 1, Len(handled))
    /\ errors # <<>> => Len(handled) = goodPrefix /\ goodPrefix < Len(sent)
    /\ (aborted = "no" /\ wire = <<>> /\ ~parsing) =>
            /\ Len(handled) = goodPrefix
            /\ errors = <<>> => goodPrefix = Len(sent)

\* The input Buffer is a queue of bytes.
Queue == INSTANCE ByteQueue WITH queue <- contents(buf)
BufferIsQueue == Queue!Spec
=============================================================================
