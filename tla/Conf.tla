-------------------------------- MODULE Conf --------------------------------
(***************************************************************************)
(* The configuration file (app/ngx_c_conf.cxx, app/ngx_string.cxx): Load   *)
(* reads it line by line with fgets, GetString and GetIntDefault look an   *)
(* item up.                                                                *)
(*                                                                         *)
(* A file is a sequence of characters: "#" (as ;), "[", "=", " " (as a     *)
(* tab at the start of a line), "\n", and what names and values are made   *)
(* of, as "a", "A" and "b".  Only the room of linebuf is smaller than in   *)
(* the program.  Item names are short: the limit of 40 characters that     *)
(* nginx.conf:3 gives is a limit on the files considered.                  *)
(***************************************************************************)
EXTENDS Naturals, Sequences, SequencesExt

CONSTANTS
  Chars,          \* the characters of files
  Files,          \* the files that are read
  Names,          \* the names that are looked up
  LineSize,       \* the second argument of fgets
  ReadErrors      \* TRUE: read may fail, as for a directory

\* What the constants have to be.
ConfAssumption ==
  /\ Files \subseteq Seq(Chars) /\ Names \subseteq Seq(Chars)
  /\ LineSize \in Nat /\ LineSize > 1 /\ ReadErrors \in BOOLEAN

Newline == "\n"
Blank == " "

VARIABLES
  file,        \* the contents
  at,          \* how many characters have been read
  eof, error,  \* the flags of the stream
  items,       \* m_ConfigItemList
  loaded       \* Load has returned

vars == <<file, at, eof, error, items, loaded>>

Init ==
  /\ file \in Files
  /\ at = 0 /\ eof = FALSE /\ error = FALSE
  /\ items = <<>> /\ loaded = FALSE
-----------------------------------------------------------------------------
(* Lines *)

Trimmed(s, chars) ==
  LET kept == {k \in DOMAIN s : s[k] \notin chars}
  IN  IF kept = {} THEN <<>> ELSE SubSeq(s, 1, Max(kept))

Rtrim(s) == Trimmed(s, {Blank})
Ltrim(s) == Reverse(Rtrim(Reverse(s)))

\* A line that is a comment by its first character.
Skipped(line) == Head(line) \in {"#", Blank, Newline}

\* Mutant of Separator: the last = of the line.
SeparatorLast(text) == Max({k \in DOMAIN text : text[k] = "="})

\* strchr: the first = of the line.
Separator(text) == Min({k \in DOMAIN text : text[k] = "="})

\* What a round of the loop makes of the line that fgets has read: the item to
\* append, if any.
ItemsOf(line) ==
  LET text == Trimmed(line, {Newline, Blank})
      Trim(s) == Ltrim(Rtrim(s))
  IN  IF Skipped(line) \/ text = <<>> \/ Head(text) = "[" \/ "=" \notin Range(text) THEN <<>>
      ELSE <<[ItemName |-> Trim(SubSeq(text, 1, Separator(text) - 1)),
              ItemContent |-> Trim(SubSeq(text, Separator(text) + 1, Len(text)))]>>

\* fgets: up to and including a newline, at most LineSize - 1 characters.
NewlinesAfter == {k \in DOMAIN file : k > at /\ file[k] = Newline}
LineEnd ==
  LET room == Min({at + LineSize - 1, Len(file)})
  IN  IF NewlinesAfter = {} THEN room ELSE Min({room, Min(NewlinesAfter)})
-----------------------------------------------------------------------------
(* Load *)

\* A round of the loop.  The end of the file shows when fgets looks for more.
ReadLine ==
  /\ ~loaded /\ ~eof /\ ~error /\ at < Len(file)
  /\ LET line == SubSeq(file, at + 1, LineEnd)
     IN  /\ items' = items \o ItemsOf(line)
         /\ eof' = (Last(line) # Newline /\ Len(line) < LineSize - 1)
  /\ at' = LineEnd
  /\ UNCHANGED <<file, error, loaded>>

\* fgets returns NULL at the end of the file: back to the test.
ReadNothing ==
  /\ ~loaded /\ ~eof /\ ~error /\ at = Len(file)
  /\ eof' = TRUE
  /\ UNCHANGED <<file, at, error, items, loaded>>

\* fgets returns NULL after an error of read that lasts, as that of a directory:
\* back to the test, which asks for the end of the file only.
ReadFails ==
  /\ ReadErrors /\ ~loaded /\ ~eof
  /\ error' = TRUE
  /\ UNCHANGED <<file, at, eof, items, loaded>>

Close ==
  /\ ~loaded /\ eof
  /\ loaded' = TRUE
  /\ UNCHANGED <<file, at, eof, error, items>>

Load == ReadLine \/ ReadNothing \/ ReadFails \/ Close

Next == Load
Spec == Init /\ [][Next]_vars
-----------------------------------------------------------------------------
(* GetString, and GetIntDefault with its default instead of NULL *)

NULL == <<Newline>>
Lower(name) == [k \in DOMAIN name |-> IF name[k] = "A" THEN "a" ELSE name[k]]

\* Mutant of Found: a later item of the same name replaces an earlier one.
FoundLast(positions) == Max(positions)

\* The search goes from the beginning of the list.
Found(positions) == Min(positions)

\* strcasecmp does not tell small and capital letters apart.
GetString(list, name) ==
  LET same == {k \in DOMAIN list : Lower(list[k].ItemName) = Lower(name)}
  IN  IF same = {} THEN NULL ELSE list[Found(same)].ItemContent
-----------------------------------------------------------------------------
(* Correctness *)

\* What is read is what is before the place where the stream is.
TypeOK ==
  /\ file \in Files /\ at \in 0..Len(file)
  /\ eof \in BOOLEAN /\ error \in BOOLEAN /\ loaded \in BOOLEAN
  /\ Len(items) <= Cardinality({k \in 1..at : file[k] = "="})
  /\ eof => at = Len(file)

\* The positions of the newlines, and of an imaginary one at the end.
Ends == {k \in DOMAIN file : file[k] = Newline} \cup {Len(file) + 1}
\* The line that ends there.
LineTo(end) ==
  LET before == {k \in Ends \cup {0} : k < end}
  IN  SubSeq(file, Max(before) + 1, end - 1)
ShortLines == \A end \in Ends : Len(LineTo(end)) < LineSize - 1

\* text without blanks around it, by what it is and not by how it is found.
Stripped(text, inner) ==
  /\ \E i, k \in 0..Len(text) : i + k <= Len(text)
       /\ inner = SubSeq(text, i + 1, Len(text) - k)
       /\ \A j \in DOMAIN text : j <= i \/ j > Len(text) - k => text[j] = Blank
  /\ inner # <<>> => Head(inner) # Blank /\ Last(inner) # Blank

\* nginx.conf:2-5: a line is a comment, the name of a group, or an item.
IsItem(line) ==
  line # <<>> /\ Head(line) \notin {"#", "[", Blank} /\ "=" \in Range(line)

\* item is what the line says.
Says(line, item) ==
  \E k \in DOMAIN line :
    /\ line[k] = "=" /\ \A j \in 1..(k - 1) : line[j] # "="
    /\ Stripped(SubSeq(line, 1, k - 1), item.ItemName)
    /\ Stripped(SubSeq(line, k + 1, Len(line)), item.ItemContent)

ItemEnds == {end \in Ends : IsItem(LineTo(end))}

\* The items are those of the lines, in their order and without the blanks,
\* whether or not the last line ends in a newline and however lines end.
ItemsRight ==
  (loaded /\ ShortLines) =>
    \E ends \in [DOMAIN items -> ItemEnds] :
      /\ ItemEnds = Range(ends)
      /\ \A j, k \in DOMAIN items : j < k => ends[j] < ends[k]
      /\ \A k \in DOMAIN items : Says(LineTo(ends[k]), items[k])

\* Of several lines with one name the first counts.
FirstLineCounts ==
  (loaded /\ ShortLines) => \A name \in Names :
    LET named == {end \in ItemEnds : \E item \in Range(items) :
                    Says(LineTo(end), item) /\ Lower(item.ItemName) = Lower(name)}
        content == GetString(items, name)
    IN  IF named = {} THEN content = NULL
        ELSE \E item \in Range(items) :
               Says(LineTo(Min(named)), item) /\ item.ItemContent = content
=============================================================================
