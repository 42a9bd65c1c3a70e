---------------------------- MODULE MCHTTPClient ----------------------------
(***************************************************************************)
(* Values of the constants of HTTPClient for TLC.                          *)
(***************************************************************************)
EXTENDS HTTPClient

CONSTANTS r1, r2

\* Two headers and the beginning of the body.
Block == <<"text", "\r", "\n", "text", "\r", "\n", "\r", "\n", "text">>

\* A doubled "\r", so that the loop runs into the body; or out of everything.
Spoiled(rest) == <<"text", "\r", "\r", "\n", "\r", "\n">> \o rest

GoodBlocks == {Block}
AllBlocks == {Block, Spoiled(<<"text">>), Spoiled(<<>>)}
=============================================================================
