----------------------------- MODULE MC_UrlParse -----------------------------
EXTENDS UrlParse

CONSTANTS DefaultNs, NoGroupV, OutOfRangeV

Chars == {"a", "-", "/"}

MCTokens == {<<"a">>, <<"1">>, <<"a", "1">>}
MCGroupTokens == {<<"1">>, <<"1", "1">>, <<"-", "1">>, <<"a">>}
MCFiles == {<<c>> : c \in Chars} \cup {<<c, d>> : c, d \in Chars}
=============================================================================
