-------------------------------- MODULE Logging --------------------------------
(***************************************************************************)
(* ybase::Logger over LogStream.  A statement makes a Logger on the stack  *)
(* of its thread, streams items into it, and its destructor writes the     *)
(* line out.  Writers share the level, the time zone and the output; each  *)
(* keeps the last second it formatted.  A Timestamp counts microseconds,   *)
(* kMicroSecondsPerSecond of them to a second.  A stream holds the pieces  *)
(* that were appended and their length in bytes.  setTimeZone races with   *)
(* no Logger: it is called between the steps of the others.  Thread ids    *)
(* have up to five digits, as "%5d " of threadUtils.h expects.             *)
(***************************************************************************)
EXTENDS TimeZone, Convert, FiniteSets

CONSTANTS
    Writers,            \* threads that log
    kMicroSecondsPerSecond,
    kSmallBuffer, kMaxNumericSize,
    Instants,           \* bound: the microseconds at which the clock is read
    Zones,              \* bound: the time zones that are set
    Items,              \* bound: what a statement streams
    MaxItems,           \* bound: how many
    Levels,             \* bound: the levels of statements, and set
    MaxLines,           \* bound: statements
    MaxSettings,        \* bound: calls of setLogLevel and setTimeZone
    Numbers, Years, Seconds     \* bound: what the conversions are checked for

ASSUME LoggingAssumption ==
    /\ kMicroSecondsPerSecond \in Nat \ {0} /\ MaxLines \in Nat /\ MaxItems \in Nat /\ MaxSettings \in Nat
    /\ kSmallBuffer \in Nat /\ kMaxNumericSize \in Nat
    /\ Instants \subseteq Nat /\ Instants # {}
    /\ \A zone \in Zones : valid(zone) => zone.localtimes # <<>> /\ ascending(zone)

\* A line has room for its time, thread and level: kSmallBuffer is 4000.
ASSUME HeadingFits == kSmallBuffer > 17 + 9 + 6 + 6

VARIABLES
    now,                \* what gettimeofday says
    g_logLevel, g_logTimeZone,
    settings,           \* how often they were set
    recentZones,        \* history: the zones in force at some time of this second
    tls_lastSecond, tls_timeString,     \* of each thread
    logger,             \* the Logger of each thread, or noLogger
    statements,         \* how many made a Logger
    line,               \* the last line written
    aborted             \* by a FATAL line

globals == <<g_logLevel, g_logTimeZone, settings, recentZones>>
tls == <<tls_lastSecond, tls_timeString>>
sink == <<statements, line, aborted>>
logVars == <<now, globals, tls, logger, sink>>

levels == <<"TRACE", "DEBUG", "INFO", "WARN", "ERROR", "FATAL">>
atLeast(level, least) ==
    \E i, j \in 1..6 : levels[i] = level /\ levels[j] = least /\ j <= i
noLogger == [level |-> "none", writer |-> "none", made |-> 0, zones |-> {},
             stream |-> [pieces |-> <<>>, start |-> <<>>, length |-> 0]]

LogInit ==
    /\ now = Min(Instants)
    /\ g_logLevel = "TRACE" /\ g_logTimeZone = noData /\ settings = 0 /\ recentZones = {noData}
    /\ tls_lastSecond = [t \in Writers |-> 0]
    /\ tls_timeString = [t \in Writers |-> "empty"]
    /\ logger = [t \in Writers |-> noLogger]
    /\ statements = 0 /\ line = noLogger /\ aborted = FALSE

secondsSinceEpoch(timestamp) == timestamp \div kMicroSecondsPerSecond
addTime(timestamp, seconds) == timestamp + seconds * kMicroSecondsPerSecond

-----------------------------------------------------------------------------
(* FixedBuffer and LogStream.                                              *)

avail(stream) == kSmallBuffer - stream.length
put(stream, piece) ==
    [pieces |-> Append(stream.pieces, piece), start |-> Append(stream.start, stream.length),
     length |-> stream.length + piece.len]

\* Mutant: a piece that fills the buffer to its last byte is taken.
appendFills(stream, piece) == IF avail(stream) >= piece.len THEN put(stream, piece) ELSE stream

\* A piece is appended when a byte is left behind it, and otherwise dropped.
append(stream, piece) == IF avail(stream) > piece.len THEN put(stream, piece) ELSE stream

\* Numbers are written in place, with a NUL behind them, if any number fits.
formatInteger(stream, piece) == IF avail(stream) >= kMaxNumericSize THEN put(stream, piece) ELSE stream

text(what, n) == [kind |-> "text", what |-> what, len |-> n]
integer(v, least) == [kind |-> "int", what |-> convert(v, least), value |-> v, len |-> Len(convert(v, least))]
pointer(v) == [kind |-> "hex", what |-> convertHex(v), value |-> v, len |-> 2 + Len(convertHex(v))]

\* The number of the line, and errno in its words.
lineNumber == integer(42, -128)
errnoNumber(savedErrno) == integer(savedErrno, -savedErrno - 1)

\* kMaxNumericSize is large enough for every number (the static_asserts of logStream.cc).
ASSUME NumbersFit ==
    \A piece \in Items \cup {lineNumber, errnoNumber(11)} :
        piece.len \in Nat /\ (piece.kind \in {"int", "hex"} => piece.len < kMaxNumericSize)

\* operator<< of an item: strings, characters and Fmt are appended.
stream(s, item) == IF item.kind \in {"int", "hex"} THEN formatInteger(s, item) ELSE append(s, item)

-----------------------------------------------------------------------------
(* Logger.                                                                 *)

localTm(seconds) ==
    IF valid(g_logTimeZone) THEN toLocalTime(g_logTimeZone, seconds).tm ELSE gmtime(seconds)

stampOf(tm) == [kind |-> "time", what |-> tm, len |-> 17]
microsOf(us) == [kind |-> "micros", what |-> us, len |-> IF valid(g_logTimeZone) THEN 8 ELSE 9]

\* Mutant: the string is made anew only when the minute changes.
timeStringByMinute(t, seconds) ==
    IF seconds \div 60 = tls_lastSecond[t] \div 60 THEN tls_timeString[t] ELSE localTm(seconds)

\* The string of the last second that was formatted serves while it lasts.
timeString(t, seconds) ==
    IF seconds = tls_lastSecond[t] THEN tls_timeString[t] ELSE localTm(seconds)

formatTime(tm) ==
    append(append(noLogger.stream, stampOf(tm)), microsOf(now % kMicroSecondsPerSecond))

\* Mutant: one string for all threads, that of the first.
tidStringShared(t) == text(CHOOSE w \in Writers : TRUE, 6)

\* Each thread keeps its id as a string.
tidString(t) == text(t, 6)

header(s, t, level, savedErrno) ==
    LET known == append(append(s, tidString(t)), text(level, 6))
    IN  IF savedErrno = 0 THEN known
        ELSE append(stream(append(append(known, text("strerror", 5)), text("errno=", 8)),
                           errnoNumber(savedErrno)), text("parenthesis", 2))

finish(s) ==
    LET named == append(append(append(s, text("dash", 3)), text("basename", 9)), text("colon", 1))
    IN  append(formatInteger(named, lineNumber), text("newline", 1))

\* The statements below WARN are skipped when the level is above theirs; the
\* others never are.
enabled(level) == level \in {"TRACE", "DEBUG", "INFO"} => atLeast(level, g_logLevel)

\* The constructors.
Statement(t, level, savedErrno) ==
    LET seconds == secondsSinceEpoch(now)
        tm == timeString(t, seconds)
        known == header(formatTime(tm), t, level, savedErrno)
        traced == level \in {"TRACE", "DEBUG"}
    IN  /\ ~aborted /\ logger[t] = noLogger /\ statements < MaxLines
        /\ enabled(level)
        /\ savedErrno # 0 => level \in {"ERROR", "FATAL"}
        /\ statements' = statements + 1
        /\ tls_lastSecond' = [tls_lastSecond EXCEPT ![t] = seconds]
        /\ tls_timeString' = [tls_timeString EXCEPT ![t] = tm]
        /\ logger' = [logger EXCEPT ![t] =
               [level |-> level, writer |-> t, made |-> now, zones |-> recentZones,
                stream |-> IF traced THEN append(append(known, text("func", 4)), text("space", 1)) ELSE known]]
        /\ UNCHANGED <<now, globals, line, aborted>>

items(s) == SelectSeq(s.pieces, LAMBDA piece : piece \in Items)

Stream(t, item) ==
    /\ ~aborted /\ logger[t] # noLogger /\ Len(items(logger[t].stream)) < MaxItems
    /\ logger' = [logger EXCEPT ![t].stream = stream(@, item)]
    /\ UNCHANGED <<now, globals, tls, sink>>

\* ~Logger.
Destroy(t) ==
    /\ ~aborted /\ logger[t] # noLogger
    /\ line' = [logger[t] EXCEPT !.stream = finish(@)]
    /\ aborted' = (logger[t].level = "FATAL")
    /\ logger' = [logger EXCEPT ![t] = noLogger]
    /\ UNCHANGED <<now, globals, tls, statements>>

SetLogLevel(level) ==
    /\ ~aborted /\ settings < MaxSettings /\ settings' = settings + 1
    /\ g_logLevel' = level
    /\ UNCHANGED <<now, g_logTimeZone, recentZones, tls, logger, sink>>

SetTimeZone(tz) ==
    /\ ~aborted /\ settings < MaxSettings /\ settings' = settings + 1
    /\ g_logTimeZone' = tz /\ recentZones' = recentZones \cup {tz}
    /\ UNCHANGED <<now, g_logLevel, tls, logger, sink>>

Tick ==
    /\ ~aborted /\ now' \in Instants /\ now < now' /\ \A i \in Instants : i <= now \/ now' <= i
    /\ recentZones' = IF secondsSinceEpoch(now') = secondsSinceEpoch(now) THEN recentZones ELSE {g_logTimeZone}
    /\ UNCHANGED <<g_logLevel, g_logTimeZone, settings, tls, logger, sink>>

LogNext ==
    \/ Tick
    \/ \E level \in Levels : SetLogLevel(level)
    \/ \E tz \in Zones : SetTimeZone(tz)
    \/ \E t \in Writers :
            \/ \E level \in Levels, savedErrno \in {0, 11} : Statement(t, level, savedErrno)
            \/ \E item \in Items : Stream(t, item)
            \/ Destroy(t)

LogSpec == LogInit /\ [][LogNext]_logVars

-----------------------------------------------------------------------------
(* Properties.                                                             *)

\* A buffer always has the byte left that debugString and a number's NUL need,
\* and its pieces lie one behind the other from its first byte to its last.
StreamOK(s) ==
    /\ s.length < kSmallBuffer /\ Len(s.start) = Len(s.pieces)
    /\ IF s.pieces = <<>> THEN s.length = 0 ELSE s.start[1] = 0
    /\ \A i \in DOMAIN s.pieces :
          s.start[i] + s.pieces[i].len = IF i = Len(s.pieces) THEN s.length ELSE s.start[i + 1]

LogTypeOK ==
    /\ now \in Instants /\ statements \in 0..MaxLines /\ aborted \in BOOLEAN
    /\ g_logLevel \in Levels \cup {"TRACE"} /\ g_logTimeZone \in Zones \cup {noData}
    /\ recentZones \subseteq Zones \cup {noData}
    /\ \A t \in Writers : logger[t].level \in Levels \cup {"none"} /\ StreamOK(logger[t].stream)

\* The time a zone shows, by the reference definition of its offset.
timeIn(zone, seconds) ==
    gmtime(seconds + (IF valid(zone) THEN offsetAt(zone, seconds).gmtOffset ELSE 0))

\* The heading of a Logger made by x.writer at x.made.
Headed(x) ==
    LET p == x.stream.pieces
        seconds == secondsSinceEpoch(x.made)
    IN  /\ Len(p) >= 4 /\ p[3] = text(x.writer, 6) /\ p[4] = text(x.level, 6)
        /\ p[2].what = x.made % kMicroSecondsPerSecond
        /\ seconds # 0 => \E zone \in x.zones : p[1].what = timeIn(zone, seconds)

\* A line starts with its time, its own thread and its level, whatever was
\* streamed and whatever other threads log.  The time is that of the moment the
\* Logger was made, in a zone that was in force within that very second, although
\* the string is kept from line to line and setTimeZone does not touch it
\* (Logger::Impl::formatTime).  A first line in second 0 would find its string empty.
LinesTellWhen ==
    /\ LogTypeOK /\ StreamOK(line.stream)
    /\ line.level # "none" => Headed(line)

CalendarAgrees == \A y \in Years : DatesAgree(y)
NumbersAgree ==
    \A n \in Numbers :
        /\ DigitsAgree(convert(n, -n), n, 10) /\ DigitsAgree(convert(-n, -n), -n, 10)
        /\ DigitsAgree(convertHex(n), n, 16)
        /\ ThreeDigits(formatSI(n), 999) /\ ThreeDigits(formatIEC(n), 1023)
ZonesAgree == \A zone \in Zones, s \in Seconds : TimesAgree(zone, s) /\ TimesAgree(noData, -s)

\* What is converted keeps its value: dates and times of the calendar, local
\* times of the zone that is set, numbers of every base and unit.
ConversionsAgree ==
    /\ CalendarAgrees /\ NumbersAgree /\ ZonesAgree
    /\ TimesAgree(g_logTimeZone, secondsSinceEpoch(now))
=============================================================================
