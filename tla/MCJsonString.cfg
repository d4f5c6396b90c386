\* Strings of up to four bytes, texts of up to five pieces, numbers of up to
\* six bytes.
SPECIFICATION TextSpec
CONSTANTS
  Strings <- MCStrings
  Texts <- MCTexts
  MaxChunks = 5
  MaxNumber = 6
INVARIANTS
  InBounds
  DecodedIsUtf8
  RoundTrip
  ValidatesExactly
  ReadWriteInverse
  NumberExact
CHECK_DEADLOCK FALSE
