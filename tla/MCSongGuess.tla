----------------------------- MODULE MCSongGuess -----------------------------
EXTENDS SongGuess

MCBlocks   == <<3, 1>>
MCLanguage == <<"en", "en">>

=============================================================================
