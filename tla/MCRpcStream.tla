----------------------------- MODULE MCRpcStream -----------------------------
\* Instances of RpcStream: two calls one way and one back, packets longer than
\* the kernel's buffer.
EXTENDS RpcStream, TLC
CONSTANTS client, server, c1, c2, c3
MCEnds == {client, server}
MCCalls == {c1, c2, c3}
MCCaller == c1 :> client @@ c2 :> client @@ c3 :> server
MCSize == c1 :> 2 @@ c2 :> 0 @@ c3 :> 1
===============================================================================
