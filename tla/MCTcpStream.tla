---------------------------- MODULE MCTcpStream ----------------------------
(* Instance of TcpStream for TLC: messages of no and of two bytes.         *)
EXTENDS TcpStream

CONSTANTS b1, b2

MCMessages == {<<>>, <<b1, b2>>}

=============================================================================
