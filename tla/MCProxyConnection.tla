------------------------- MODULE MCProxyConnection -------------------------
(* A small instance of ProxyConnection: the client sends more than a       *)
(* buffer of tokio::io::copy holds, so that its sniffed bytes make an h2   *)
(* frame that is longer than the buffer.                                   *)
EXTENDS ProxyConnection

FewBytes == [client |-> 3, server |-> 1]
=============================================================================
