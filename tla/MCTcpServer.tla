------------------------------ MODULE MCTcpServer ------------------------------
(* TcpServer for model checking: up to two loops besides the base loop, two    *)
(* connections, four descriptors of which two belong to the acceptor.          *)
EXTENDS TcpServer

NoFaults == {}
=============================================================================
