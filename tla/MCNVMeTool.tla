----------------------------- MODULE MCNVMeTool -----------------------------
(* Instances of NVMeTool for TLC.                                          *)
EXTENDS NVMeTool

Line(ch, hex, dec) == [ch |-> ch, hex |-> hex, dec |-> dec]
Word(ch) == Line(ch, 0, 0)

\* Both answers to a confirmation, a letter for every command of the menu (d
\* and f are hexadecimal digits too), the codes that branch, temperatures in
\* and out of range, one that 16 bits do not hold, and a line that means nothing.
MCChunks ==
  {Word("y"), Word("Y"), Word("q"), Word("w"), Word("z"), Word("t"), Word("v"),
   Word("i"), Word("l"), Word("g"), Word("s"), Word("?"),
   Line("d", 13, 0), Line("f", 15, 0),
   Line("0", 0, 0), Line("1", 1, 1), Line("2", 2, 2), Line("5", 5, 5), Line("6", 6, 6),
   Line("7", 7, 7), Line("9", 9, 9), Line("1", 16, 10), Line("3", 768, 300),
   Line("3", 832, 340), Line("6", 415798, 65836), Line("-", -1, -1)}

Full == [genuine |-> TRUE, caps |-> Capability, mntmt |-> 273, mxtmt |-> 340]
Basic == [genuine |-> TRUE, caps |-> {"SecurityCommands"}, mntmt |-> 0, mxtmt |-> 340]
\* VID is 0, and every bit of the rest happens to be set.
Bogus == [genuine |-> FALSE, caps |-> Capability, mntmt |-> 0, mxtmt |-> 65535]

MCControllerData == {Full, Basic, Bogus}
\* The list is parsed whether or not the drive sent one: {} comes from a buffer
\* of zeroes.
MCProtocolLists == {{}, {0, 1, 2}}
=============================================================================
