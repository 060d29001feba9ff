---------------------------- MODULE MCSpellings ----------------------------
(* Code units at the boundaries of UTF-8 and of UTF-16's surrogates, and the *)
(* bytes that a pointer or a JSON string has to escape.                      *)
EXTENDS Spellings

Raws == {Slash, Zero, OneDigit, Tilde, LetterU, 128, 65535, 65536}
Escapes == {Quote, Backslash, 8}
Codes == {31, 127, 128, 2047, 2048, 55295, 55296, 56319, 56320, 57343, 57344, 65535}
MCUnits == [form : {"raw"}, code : Raws] \cup [form : {"escape"}, code : Escapes]
             \cup [form : {"u"}, code : Codes]
=============================================================================
