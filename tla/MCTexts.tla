------------------------------ MODULE MCTexts ------------------------------
EXTENDS Texts

MCDecoded == (<<"\\", "u", "FFFF">> :> <<"U">>)

\* An array in an object under a key that occurs twice; white space, literals and a nested
\* object; numbers of every form; escapes; a number no double holds beside a tag; a scalar.
MCSeeds == {
  <<"{", "\"", "d", "\"", ":", "[", "1", "]", ",", "\"", "d", "\"", ":", "0", "}">>,
  <<"[", "null", " ", ",", "{", "}", "]">>,
  <<"-", "1", ".", "0", "e", "+", "2">>,
  <<"\"", "\\", "u", "0000", "\\", "\"", "H", "]", "\"">>,
  <<"[", "H", ",", "\"", "TAG", "\"", "]">>,
  <<"[", "[", "H", "]", "]">>,
  <<"1">> }
MCSymbols == {"}", "[", "]", ",", ":", "\"", "\\", "ff", "nl", "0", "1", "-", ".", "e", "tag"}
MCRoom == {0, 6}
=============================================================================
