---------------------------- MODULE MCTextInput ----------------------------
(* Small instances of TextInput for TLC. *)
EXTENDS TextInput, TLC

CONSTANTS plain, wide      \* an ASCII letter, and a character outside the BMP

WideUtf8  == plain :> 1 @@ wide :> 4
WideUtf16 == plain :> 1 @@ wide :> 2
WideOffsets == {0, 1, 5}
WideTexts == {<<>>, <<plain>>, <<wide>>}

PlainUtf8  == plain :> 1
PlainUtf16 == plain :> 1
PlainOffsets == {1}
PlainTexts == {<<>>, <<plain>>}
=============================================================================
