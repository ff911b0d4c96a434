------------------------------- MODULE Parts -------------------------------
(***************************************************************************)
(* The parts of the program that share no state with a running worker's    *)
(* threads: the business logic, the checksum, the configuration,           *)
(* formatting, logging and start-up.  They are put side by side: one part, *)
(* chosen at the beginning, runs, and the others stay as they are          *)
(* initially.                                                              *)
(***************************************************************************)
EXTENDS Logic, Integers

CONSTANTS
  Bytes, Errors, MaxLen,                            \* Crc32
  Chars,                                            \* Conf and Printf
  Files, Names, LineSize, ReadErrors,               \* Conf
  Formats, Rooms, UintValues, Uint64Values,         \* Printf
  PointerLen, Unit, MantissaValues,                 \* ... its types
  MaxErrorStr, TextLengths, LogLevels, MaxLines,    \* Log
  Starts, Ports, Daemons                            \* Startup

VARIABLES
  part,                                             \* the part that runs
  body, errors, crc, receivedCrc,                   \* Crc32
  file, at, eof, error, items, loaded,              \* Conf
  format, next, last, buf, full,                    \* Printf
  fd, log_level, console, logfile, errstr,          \* Log
  step, fds, logFd, nullFd, listening, exitcode     \* Startup

C == INSTANCE Crc32
F == INSTANCE Conf
P == INSTANCE Printf
G == INSTANCE Log
S == INSTANCE Startup

ASSUME PartsAssumption ==
  /\ C!Crc32Assumption /\ F!ConfAssumption /\ P!PrintfAssumption
  /\ G!LogAssumption /\ S!StartupAssumption

crcVars == <<body, errors, crc, receivedCrc>>
confVars == <<file, at, eof, error, items, loaded>>
printfVars == <<format, next, last, buf, full>>
logVars == <<fd, log_level, console, logfile, errstr>>
startupVars == <<step, fds, logFd, nullFd, listening, exitcode>>
partsVars == <<part, vars, crcVars, confVars, printfVars, logVars, startupVars>>

\* An empty file, not read yet, and an empty format.
NoFile ==
  file = <<>> /\ at = 0 /\ eof = FALSE /\ error = FALSE /\ items = <<>> /\ loaded = FALSE
NoFormat == format = <<>> /\ next = 1 /\ last = 0 /\ buf = <<>> /\ full = <<>>

PartsInit ==
  /\ part \in {"logic", "crc", "conf", "printf", "log", "startup"}
  /\ Init /\ C!Init /\ G!Init /\ S!Init
  /\ IF part = "conf" THEN F!Init ELSE NoFile
  /\ IF part = "printf" THEN P!Init ELSE NoFormat

LogicRuns ==
  /\ part = "logic" /\ Next
  /\ UNCHANGED <<part, crcVars, confVars, printfVars, logVars, startupVars>>
CrcRuns ==
  /\ part = "crc" /\ C!Next
  /\ UNCHANGED <<part, vars, confVars, printfVars, logVars, startupVars>>
ConfRuns ==
  /\ part = "conf" /\ F!Next
  /\ UNCHANGED <<part, vars, crcVars, printfVars, logVars, startupVars>>
PrintfRuns ==
  /\ part = "printf" /\ P!Next
  /\ UNCHANGED <<part, vars, crcVars, confVars, logVars, startupVars>>
LogRuns ==
  /\ part = "log" /\ G!Next
  /\ UNCHANGED <<part, vars, crcVars, confVars, printfVars, startupVars>>
StartupRuns ==
  /\ part = "startup" /\ S!Next
  /\ UNCHANGED <<part, vars, crcVars, confVars, printfVars, logVars>>

PartsNext == LogicRuns \/ CrcRuns \/ ConfRuns \/ PrintfRuns \/ LogRuns \/ StartupRuns

\* Only the business logic has a property that needs fairness.
PartsSpec == PartsInit /\ [][PartsNext]_partsVars /\ Fairness
-----------------------------------------------------------------------------
(* Correctness: the properties of Logic and those of the other parts *)

\* The types of the parts that begin in one state: what goes through a word or an
\* unsigned short stays in it, log lines in their buffer; a process counts no
\* port that it has not.
PartsTypeOK == TypeOK /\ C!TypeOK /\ G!TypeOK /\ S!TypeOK

\* The header of a reply announces the bytes that follow it and their CRC, in
\* network byte order (logic/ngx_c_slogic.cxx:142-189); only registrations are
\* answered, once, and the comparison of the send thread (net/ngx_c_socket.cxx:520)
\* lets an answer pass only while the client that asked is there.
AnswersRight == ReplyWellFormed /\ AskerThere

\* Get_CRC computes the CRC-32 of a body (misc/ngx_c_crc32.cxx), and damage
\* within 32 consecutive bits changes it (logic/ngx_c_slogic.cxx:99).
ChecksumRight == part = "crc" => C!CrcIsRemainder /\ C!BurstDetected

\* CConfig::Load makes of a file the items of its lines, and of several lines
\* with one name the first counts (CConfig::GetString); no line makes two items.
ConfigurationRight ==
  part = "conf" => F!TypeOK /\ F!ItemsRight /\ F!FirstLineCounts

\* ngx_vslprintf writes nothing at last or after it and cuts a text off at its
\* end and nowhere else; numbers can be read back, and doubles are rounded as far
\* as their types allow.
FormattingRight ==
  part = "printf" =>
    P!TypeOK /\ P!PrefixOfFull /\ P!NumberFaithful /\ P!FloatRounded

\* What is logged is whole lines, and the text of an error number is there wholly
\* or not at all (app/ngx_log.cxx).
LogRight == G!LinesWhole /\ G!ErrnoWhole

\* One master serves the ports, however often the program is started; it has
\* them all, its log and nothing else open, and ngx_log.fd is never a stale
\* descriptor, in the daemon either (main, ngx_daemon).
MasterRight == S!OneMaster /\ S!NothingStray /\ S!LogUsable

\* A launcher that ends with 0 leaves a child with all ports (main, ngx_daemon).
LauncherTrue == S!LauncherTrue
=============================================================================
