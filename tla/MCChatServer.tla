---------------------------- MODULE MCChatServer ----------------------------
(* Characters and lines for the run of ChatServer.  The commands have two  *)
(* characters, so that a line may end inside them, and behind them.        *)
EXTENDS ChatServer

MCChar == {"/", "n", "w", "x", " ", "nl", "a", "b", "c", "d", "k"}
MCName == <<"/", "n">>
MCWho == <<"/", "w">>
KK == <<"k">>
Talk == {<<"/", "n", " ", "a", "nl">>, <<"/", "n", " ", "b", "c", "nl">>,
         <<"/", "n">>, <<"/">>, <<"/", "w", "nl">>, <<"/", "x", "nl">>,
         <<"a", "b", "c", "d", "nl">>}
=============================================================================
