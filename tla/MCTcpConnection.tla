--------------------------- MODULE MCTcpConnection ---------------------------
(* TcpConnection for model checking: the loop thread and one other user.    *)
EXTENDS TcpConnection

CONSTANT c1

MCOthers  == {c1}
AsNamed   == {}
=============================================================================
