---------------------------- MODULE MCWebsocket ----------------------------
EXTENDS Websocket

SomeLengths == {0, 1, 3}
SomePings == {1, 2}
LatePings == {0, 1}
SomeReads == {0, 1, 4}
=============================================================================
