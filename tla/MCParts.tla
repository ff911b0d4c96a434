------------------------------ MODULE MCParts ------------------------------
(***************************************************************************)
(* The instance of each of the parts for TLC.                              *)
(***************************************************************************)
EXTENDS Parts

\* Logic: eight kinds of packet, of which one is a registration.
MCCrc == <<513, 772>>
MCPacket(code, crc32, content) ==
  [pkgLen |-> Swap16(HeaderLen + content.len), msgCode |-> Swap16(code),
   crc32 |-> crc32, body |-> content]
MCBody(len) == [len |-> len, crc |-> MCCrc]
MCEmpty == [len |-> 0, crc |-> Zero32]
MCRequests ==
  {MCPacket(code, Swap32(MCCrc), MCBody(RegisterLen)) : code \in {4, 5, 6, 7}}
    \cup {MCPacket(5, MCCrc, MCBody(RegisterLen)),
          MCPacket(5, Swap32(MCCrc), MCBody(RegisterLen - 1)),
          MCPacket(5, Zero32, MCEmpty),
          MCPacket(5, Swap32(MCCrc), MCEmpty)}
MCGarbage == {MCCrc, <<65535, 0>>}

\* Crc32: bodies of up to five bytes hold bursts of up to 32 bits that begin and
\* end inside bytes, and longer ones, which need not be detected.
MCBytes == {{}, {0, 2, 5, 6}}
MCErrors == {{}, {0}, {7}, 0..7}

\* Conf: all short files, and all of two or three chosen lines.
MCFileChars == {"#", "[", "=", " ", "\n", "a", "A", "b"}
MCShort == UNION {[1..n -> MCFileChars] : n \in 0..4}
MCNames == {<<"A">>, <<"b">>}
MCLines ==
  {<<"a", "=", "b">>, <<"A", "=", "a">>, <<"a", " ", "=", "b">>,
   <<"b", "=", " ", "a">>, <<"b", "=", "a", " ">>, <<"a", "=", "=", "b">>,
   <<"a", "=", " ", " ">>, <<"#", "a", "=", "b">>, <<" ", "a", "=", "b">>,
   <<"b", " ", "=", " ">>, <<"[", "a", "=", "b">>, <<>>}
MCFiles ==
  MCShort \cup {p[1] \o <<"\n">> \o p[2] : p \in MCLines \X MCLines}
          \cup {p[1] \o <<"\n">> \o p[2] \o <<"\n">> \o p[3] :
                  p \in MCLines \X MCLines \X MCLines}

\* Printf: every kind of directive alone, and three of them in a row, into
\* buffers that end at every place.
MCNumbers ==
  [kind : {"number"}, arg : {-128, -42, -1, 0, 9, 10, 127}, size : {"d", "i"},
   sign : {TRUE}, hex : {0}, zero : {" ", "0"}, width : {0, 4}]
    \cup [kind : {"number"}, arg : {-128, -1, 0, 100, 127}, size : {"d", "L", "P"},
          sign : {FALSE}, hex : {0, 1, 2}, zero : {"0"}, width : {0, 3}]
\* The first integer that is not an int64_t, as a double; 10 ^ 5 is no uintptr_t.
MCLargest == (Uint64Values \div 2) * Unit
MCFloats ==
  [kind : {"float"}, arg : {-33, 0, 1, 31, 33, 318, 319, 320}, frac_width : 0..3,
   zero : {" ", "0"}, width : {0, 3}]
    \cup [kind : {"float"}, arg : {40, MCLargest - 8, MCLargest, MCLargest + 1024},
          frac_width : {0, 1, 3, 5}, zero : {" "}, width : {0}]
MCOthers ==
  {[kind |-> "char", char |-> "%"], [kind |-> "string", string |-> <<"a", "b", "c">>],
   [kind |-> "pointer", arg |-> 300]}
MCFew ==
  MCOthers \cup
  {[kind |-> "number", arg |-> -42, size |-> "d", sign |-> TRUE, hex |-> 0,
    zero |-> "0", width |-> 4],
   [kind |-> "float", arg |-> -33, frac_width |-> 2, zero |-> " ", width |-> 2]}
MCFormats ==
  {<<>>} \cup {<<d>> : d \in MCNumbers \cup MCFloats \cup MCOthers}
         \cup (MCFew \X MCFew \X MCFew)
MCChars == {"0", "1", "2", "3", "4", "5", "6", "7", "8", "9", "a", "b", "c", "d", "e", "f",
            " ", "-", ".", "%"} \cup MCFileChars
MCRooms == 0..14

\* Log: lines that just fit the buffer, and that miss by one or two, with and
\* without an error number.
MCTextLengths == {0, 1, 4, 5, 6, 7, 8, 9, 10, 12}
MCLogLevels == {0, 6, 8}

\* Startup: two starts of the program with two ports.
MCStarts == {"first", "second"}
MCPorts == <<"port0", "port1">>
=============================================================================
