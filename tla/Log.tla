-------------------------------- MODULE Log --------------------------------
(***************************************************************************)
(* The log lines of a process (app/ngx_log.cxx).  ngx_log_stderr writes to *)
(* the terminal and, if the log is open, once more through                 *)
(* ngx_log_error_core, which takes the finished text for its format.       *)
(*                                                                         *)
(* A line is a sequence of characters, of which only some matter: "t" is   *)
(* any of a message.  No message of the program has a % in its text, so    *)
(* that formatting it a second time only cuts it (Printf, PrefixOfFull).   *)
(***************************************************************************)
EXTENDS Integers, Sequences, SequencesExt

CONSTANTS
  MaxErrorStr,     \* NGX_MAX_ERROR_STR: errstr has one byte more
  TextLengths,     \* lengths of messages
  LogLevels,       \* values of LogLevel in the configuration
  MaxLines         \* bound on the lines in a place

STDERR == 0                                  \* NGX_LOG_STDERR
Levels == {1, 8}                             \* NGX_LOG_EMERG, NGX_LOG_DEBUG
Prefix == <<"n">>                            \* nginx:
Stamp == <<"d", "l", "p">>                   \* time of day, level, process
ErrnoText == <<"(", "e", ")", "_">>             \* (number: text) and a blank
Newline == "\n"

\* What the constants have to be.
LogAssumption ==
  /\ MaxErrorStr \in Nat /\ MaxErrorStr > Len(Prefix \o Stamp) + 2
  /\ TextLengths \subseteq Nat /\ LogLevels \subseteq Nat /\ MaxLines \in Nat

VARIABLES
  fd,             \* ngx_log.fd: "none" and "closed" (-1), "file" or "stderr"
  log_level,
  console,        \* the lines written to the terminal,
  logfile,        \* and to the file
  errstr          \* the text ngx_log_stderr hands on, or <<>>

vars == <<fd, log_level, console, logfile, errstr>>

Message(n) == [k \in 1..n |-> "t"]

\* main sets fd to -1; ngx_log_init has not run yet.
Init ==
  /\ fd = "none" /\ log_level = 0
  /\ console = <<>> /\ logfile = <<>> /\ errstr = <<>>
-----------------------------------------------------------------------------
\* ngx_slprintf and ngx_vslprintf: up to last.
Fill(line, text) ==
  line \o SubSeq(text, 1, IF Len(line) + Len(text) <= MaxErrorStr
                          THEN Len(text) ELSE MaxErrorStr - Len(line))

\* Mutant of ngx_log_errno: what fits is copied.
ErrnoCut(line, err) == IF err THEN Fill(line, ErrnoText) ELSE line

\* All of the text, or nothing.
ngx_log_errno(line, err) ==
  IF err /\ Len(line) + Len(ErrnoText) < MaxErrorStr THEN line \o ErrnoText ELSE line

\* The newline overwrites the end of a line that is too long.
EndLine(line) ==
  Append(IF Len(line) >= MaxErrorStr - 1 THEN SubSeq(line, 1, MaxErrorStr - 2) ELSE line,
         Newline)

\* Mutant of WithoutNewline: the text is handed on as it was written.
WithNewline(line) == line
\* The newline is replaced by the end of the string.
WithoutNewline(line) == SubSeq(line, 1, Len(line) - 1)

Formatted(head, text, err) == EndLine(ngx_log_errno(Fill(head, text), err))

\* The end of ngx_log_error_core: a write that fails, unless the disk is full,
\* is tried on the terminal.
WriteLine(level, line) ==
  IF level > log_level THEN UNCHANGED <<console, logfile>>
  ELSE CASE fd = "file" ->
              \/ logfile' = Append(logfile, line) /\ UNCHANGED console
              \/ UNCHANGED <<console, logfile>>                     \* ENOSPC
              \/ console' = Append(console, line) /\ UNCHANGED logfile
         [] OTHER -> console' = Append(console, line) /\ UNCHANGED logfile

ngx_log_error_core(level, n, err) ==
  /\ errstr = <<>>
  /\ WriteLine(level, Formatted(Stamp, Message(n), err))
  /\ UNCHANGED <<fd, log_level, errstr>>

ngx_log_stderr(n, err) ==
  /\ errstr = <<>>
  /\ LET line == Formatted(Prefix, Message(n), err)
     IN  /\ console' = Append(console, line)
         /\ errstr' = IF fd = "file" THEN WithoutNewline(line) ELSE <<>>
  /\ UNCHANGED <<fd, log_level, logfile>>

\* ... and its call of ngx_log_error_core.
AlsoToFile ==
  /\ errstr # <<>>
  /\ WriteLine(STDERR, Formatted(Stamp, errstr, FALSE))
  /\ errstr' = <<>>
  /\ UNCHANGED <<fd, log_level>>

\* The file is opened, or the terminal takes its place with a line that says so.
ngx_log_init ==
  /\ fd = "none" /\ errstr = <<>>
  /\ log_level' \in LogLevels
  /\ \/ fd' = "file" /\ UNCHANGED console
     \/ /\ fd' = "stderr"
        /\ \E n \in TextLengths :
             console' = Append(console, Formatted(Prefix, Message(n), TRUE))
  /\ UNCHANGED <<logfile, errstr>>

\* freeresource
CloseLog ==
  /\ fd = "file" /\ errstr = <<>>
  /\ fd' = "closed"
  /\ UNCHANGED <<log_level, console, logfile, errstr>>

Next ==
  /\ Len(console) < MaxLines /\ Len(logfile) < MaxLines
  /\ \/ \E n \in TextLengths, err \in BOOLEAN :
          \/ ngx_log_stderr(n, err)
          \/ \E level \in Levels : ngx_log_error_core(level, n, err)
     \/ AlsoToFile
     \/ ngx_log_init
     \/ CloseLog

Spec == Init /\ [][Next]_vars
-----------------------------------------------------------------------------
(* Correctness *)

Lines == Range(console) \cup Range(logfile)

\* No line leaves its buffer.
TypeOK ==
  /\ fd \in {"none", "file", "stderr", "closed"} /\ log_level \in LogLevels \cup {0}
  /\ \A line \in Lines : Len(line) <= MaxErrorStr
  /\ errstr = <<>> \/ fd = "file"

\* Whatever is logged is one line: it begins with its head
\* and has one newline, the last character, also where a line of ngx_log_stderr
\* went through both functions.
LinesWhole ==
  \A line \in Lines :
    /\ \A k \in DOMAIN line : line[k] = Newline <=> k = Len(line)
    /\ IsPrefix(Prefix, line) \/ IsPrefix(Stamp, line)

\* The text of an error number is there from its first to its last character or
\* not at all; the blank after it may go.  Only the second of two passes may cut.
ErrnoWhole ==
  \A line \in {l \in Lines : ~IsPrefix(Stamp \o Prefix, l)} :
    \A k \in DOMAIN line : line[k] = "(" =>
      k + 2 <= Len(line) /\ SubSeq(line, k, k + 2) = SubSeq(ErrnoText, 1, 3)
=============================================================================
