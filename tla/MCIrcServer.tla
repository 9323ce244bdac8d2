---------------------------- MODULE MCIrcServer ----------------------------
(* Lines and tokens for the runs of IrcServer.                             *)
EXTENDS IrcServer

MCToken == Verbs \cup {"", "~", "text", "a", "b", "#c", "#d", "x"}
MCTrailing == {"text"}

(* A client that registers the way the comments of Connection() expect.    *)
PoliteFirst == {<<"NICK", "a">>}
PoliteSecond == {<<"USER", "x", "x", "x", "text">>}

TalkLines == {<<"JOIN", "#c">>, <<"JOIN", "#d">>, <<"PART", "#c">>, <<"QUIT">>}

OpenFirst == {<<"NICK", "a">>, <<"NICK", "a", "USERS">>, <<"QUIT">>,
              <<"JOIN", "#c">>, <<"PRIVMSG", "#c", "text">>}
OpenSecond == {<<"USER", "x", "x", "x", "text">>, <<"QUIT">>, <<"NICK", "b">>}
OpenLines == {<<"NICK", "a">>, <<"NICK", "b">>, <<"NICK">>, <<"JOIN", "#c">>,
              <<"JOIN", "#d">>, <<"JOIN">>, <<"TOPIC", "#c", "text">>,
              <<"PART", "#c">>, <<"NAMES">>, <<"LIST">>, <<"QUIT">>}

OneFirst == {<<"NICK", "a">>}
=============================================================================
