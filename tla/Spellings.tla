----------------------------- MODULE Spellings -----------------------------
(***************************************************************************)
(* The conversions under every pointer the toy SUT lists or resolves: the  *)
(* spelling of a key in the text, the key, its pointer token and back.     *)
(* Texts are sequences of bytes.  The state is a pointer being built, one  *)
(* code unit of one key at a time, so that every short one is reached.     *)
(***************************************************************************)
EXTENDS Integers, Sequences, SequencesExt

CONSTANTS Units,    \* what a key is spelled with: [form, code]
          MaxUnits  \* bound on units and keys together

VARIABLE keys       \* the keys of the pointer, each as the units that spell it

Quote == 34
Slash == 47
Zero == 48
OneDigit == 49
Backslash == 92
LetterU == 117
Tilde == 126

\* The escapes with a letter: \b \f \n \r \t; any other stands for itself.
LetterOf == [code \in {8, 9, 10, 12, 13} |->
               CASE code = 8 -> 98 [] code = 9 -> 116 [] code = 10 -> 110
                 [] code = 12 -> 102 [] code = 13 -> 114]
Unescaped(letter) ==
  IF \E code \in DOMAIN LetterOf : LetterOf[code] = letter
  THEN CHOOSE code \in DOMAIN LetterOf : LetterOf[code] = letter ELSE letter

HexDigit(n) == IF n < 10 THEN Zero + n ELSE 97 + n - 10
HexValue(c) == CASE c =< 57 -> c - Zero [] c >= 97 -> c - 87 [] OTHER -> c - 55

\* A loop over s from its start: at k it emits At(s, k).puts and moves At(s, k).takes on.
Takes(n, out) == [takes |-> n, puts |-> out]

Scan(At(_, _), s) ==
  LET from[k \in Nat] ==
        IF k \in DOMAIN s THEN At(s, k).puts \o from[k + At(s, k).takes] ELSE << >>
  IN  from[1]

-----------------------------------------------------------------------------
(* hex4(), append_utf8(), decode_key(), encode_key()                         *)
Hex4(s, k) == ((HexValue(s[k]) * 16 + HexValue(s[k + 1])) * 16 + HexValue(s[k + 2])) * 16
                + HexValue(s[k + 3])

Utf8(cp) ==
  CASE cp < 2^7  -> <<cp>>
    [] cp < 2^11 /\ cp >= 2^7 -> <<192 + (cp \div 2^6), 128 + (cp % 2^6)>>
    [] cp < 2^16 /\ cp >= 2^11 ->
         <<224 + (cp \div 2^12), 128 + ((cp \div 2^6) % 2^6), 128 + (cp % 2^6)>>
    [] OTHER -> <<240 + (cp \div 2^18), 128 + ((cp \div 2^12) % 2^6),
                  128 + ((cp \div 2^6) % 2^6), 128 + (cp % 2^6)>>

High(cp) == 55296 =< cp /\ cp =< 56319
Low(cp) == 56320 =< cp /\ cp =< 57343
Joined(hi, lo) == 65536 + (hi - 55296) * 2^10 + (lo - 56320)

\* Mutant: a high surrogate takes whatever escape follows for its low half.
PairsAny(s, k) ==
  /\ High(Hex4(s, k + 2))
  /\ k + 11 =< Len(s) /\ s[k + 6] = Backslash /\ s[k + 7] = LetterU

\* A \u escape at k is the first half of a pair.
PairsUp(s, k) ==
  /\ High(Hex4(s, k + 2))
  /\ k + 11 =< Len(s) /\ s[k + 6] = Backslash /\ s[k + 7] = LetterU
  /\ Low(Hex4(s, k + 8))

\* What the loop does with the byte at k.
DecodeAt(s, k) ==
  IF s[k] # Backslash \/ k = Len(s) THEN Takes(1, <<s[k]>>)
  ELSE IF s[k + 1] # LetterU THEN Takes(2, <<Unescaped(s[k + 1])>>)
  ELSE IF PairsUp(s, k) THEN Takes(12, Utf8(Joined(Hex4(s, k + 2), Hex4(s, k + 8))))
  ELSE Takes(6, Utf8(Hex4(s, k + 2)))

DecodeKey(raw) == Scan(DecodeAt, raw)

\* Mutant: a backslash in a key is written as it is.
EncodeByteBare(b) ==
  IF b = Quote THEN <<Backslash, b>>
  ELSE IF b < 32 THEN <<Backslash, LetterU, Zero, Zero, HexDigit(b \div 16), HexDigit(b % 16)>>
  ELSE <<b>>

EncodeByte(b) ==
  IF b \in {Quote, Backslash} THEN <<Backslash, b>>
  ELSE IF b < 32 THEN <<Backslash, LetterU, Zero, Zero, HexDigit(b \div 16), HexDigit(b % 16)>>
  ELSE <<b>>

EncodeKey(key) == FlattenSeq([k \in DOMAIN key |-> EncodeByte(key[k])])

-----------------------------------------------------------------------------
(* escape_pointer_token(), unescape_pointer_token(), split_pointer()         *)
EscapeByte(b) ==
  CASE b = Tilde -> <<Tilde, Zero>> [] b = Slash -> <<Tilde, OneDigit>> [] OTHER -> <<b>>

EscapeToken(key) == FlattenSeq([k \in DOMAIN key |-> EscapeByte(key[k])])

\* One pass that replaces a tilde and digit by a byte, and the mutant made of two.
PassAt(token, k, digit, byte) ==
  IF token[k] = Tilde /\ k < Len(token) /\ token[k + 1] = digit
  THEN Takes(2, <<byte>>) ELSE Takes(1, <<token[k]>>)
Pass(token, digit, byte) == Scan(LAMBDA s, k : PassAt(s, k, digit, byte), token)

\* Mutant: "~1" is replaced in what replacing "~0" yields.
UnescapeTwice(token) == Pass(Pass(token, Zero, Tilde), OneDigit, Slash)

UnescapeAt(token, k) ==
  IF token[k] = Tilde /\ k < Len(token) /\ token[k + 1] = Zero THEN Takes(2, <<Tilde>>)
  ELSE IF token[k] = Tilde /\ k < Len(token) /\ token[k + 1] = OneDigit THEN Takes(2, <<Slash>>)
  ELSE Takes(1, <<token[k]>>)

Unescape(token) == Scan(UnescapeAt, token)

\* collect_pointers(): a slash and an escaped token for each level.
Render(names) == FlattenSeq([k \in DOMAIN names |-> <<Slash>> \o EscapeToken(names[k])])

\* What is not empty and does not start with a slash is refused.
IsPointer(text) == text = << >> \/ text[1] = Slash

\* find('/', k + 1), the end of the text when there is none.
NextSlash(text, k) ==
  Min({j \in k + 1 .. Len(text) : text[j] = Slash} \cup {Len(text) + 1})

\* Each token runs from its slash to the next one.
SplitAt(text, k) ==
  LET next == NextSlash(text, k)
  IN  Takes(next - k, <<Unescape(SubSeq(text, k + 1, next - 1))>>)

SplitPointer(text) == Scan(SplitAt, text)

-----------------------------------------------------------------------------
(* The spelling of one unit: a character as it is, an escape with a letter,  *)
(* or \uXXXX: what parse_string() takes of a text that is UTF-8.             *)
Spellable(unit) ==
  \/ /\ unit.form = "raw"
     /\ unit.code \in Nat \ {Quote, Backslash} /\ 32 =< unit.code /\ unit.code < 17 * 2^16
     /\ ~High(unit.code) /\ ~Low(unit.code)
  \/ unit.form = "escape" /\ unit.code \in {Quote, Backslash, Slash, 8, 9, 10, 12, 13}
  \/ unit.form = "u" /\ unit.code \in Nat /\ unit.code < 2^16

ASSUME UnitsAssumption == \A unit \in Units : Spellable(unit)

RawOf(unit) ==
  CASE unit.form = "raw" -> Utf8(unit.code)
    [] unit.form = "escape" ->
         <<Backslash, IF unit.code \in DOMAIN LetterOf THEN LetterOf[unit.code] ELSE unit.code>>
    [] unit.form = "u" ->
         <<Backslash, LetterU, HexDigit(unit.code \div 2^12), HexDigit((unit.code \div 2^8) % 16),
           HexDigit((unit.code \div 16) % 16), HexDigit(unit.code % 16)>>

Spelled(key) == FlattenSeq([k \in DOMAIN key |-> RawOf(key[k])])
Decoded(key) == DecodeKey(Spelled(key))

Init == keys = <<<< >>>>

Room == FoldLeft(LAMBDA n, key : n + 1 + Len(key), 0, keys) < MaxUnits

Spell(unit) == Room /\ keys' = [keys EXCEPT ![Len(keys)] = Append(@, unit)]
NextKey == Room /\ keys' = Append(keys, << >>)

Next == NextKey \/ \E unit \in Units : Spell(unit)

Spec == Init /\ [][Next]_keys

-----------------------------------------------------------------------------
(* The members of an object are told apart by their keys as Unicode text, by *)
(* the SUT and by the reference alike: a pair of \u escapes is one code      *)
(* point, a lone surrogate its own (jsonfuzz_sut.cpp:387-391).               *)
PairStarts(key, k) ==
  /\ k < Len(key) /\ key[k].form = "u" /\ High(key[k].code)
  /\ key[k + 1].form = "u" /\ Low(key[k + 1].code)

CodePointAt(key, k) ==
  IF PairStarts(key, k) THEN Takes(2, <<Joined(key[k].code, key[k + 1].code)>>)
  ELSE Takes(1, <<key[k].code>>)

CodePoints(key) == Scan(CodePointAt, key)

\* A code point from its bytes: the first says how many, each other gives six bits.
CharacterAt(bytes, k) ==
  LET lead == bytes[k]
      six(j) == bytes[k + j] % 2^6
  IN  CASE lead < 128 -> Takes(1, <<lead>>)
        [] lead \in 192 .. 223 -> Takes(2, <<(lead % 2^5) * 2^6 + six(1)>>)
        [] lead \in 224 .. 239 -> Takes(3, <<((lead % 2^4) * 2^6 + six(1)) * 2^6 + six(2)>>)
        [] lead \in 240 .. 247 ->
             Takes(4, <<(((lead % 2^3) * 2^6 + six(1)) * 2^6 + six(2)) * 2^6 + six(3)>>)
        [] OTHER -> Takes(1, << -1 >>)

CharactersOf(bytes) == Scan(CharacterAt, bytes)

KeysAreUnicode ==
  \A k \in DOMAIN keys : CharactersOf(Decoded(keys[k])) = CodePoints(keys[k])

(* A member that set() adds is the one the next get() of that pointer finds: *)
(* the key it writes, escaped, decodes to the token it was given, quotes,    *)
(* backslashes and control characters included.                              *)
WrittenKeysDecode ==
  \A k \in DOMAIN keys : DecodeKey(EncodeKey(Decoded(keys[k]))) = Decoded(keys[k])

(* The pointer pointers() builds is split by get() into the very keys it was *)
(* built from, whatever slashes, tildes and empty keys are among them.       *)
PointersSplitBack ==
  LET names == [k \in DOMAIN keys |-> Decoded(keys[k])]
  IN  IsPointer(Render(names)) /\ SplitPointer(Render(names)) = names
=============================================================================
