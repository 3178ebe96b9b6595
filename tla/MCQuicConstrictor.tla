-------------------------- MODULE MCQuicConstrictor --------------------------
(***************************************************************************)
(* Two flows of one endpoint, one told from the other by an address and a *)
(* port, and the flow of an endpoint with itself.                          *)
(***************************************************************************)
EXTENDS QuicConstrictor

Near == [address |-> 1, port |-> 1]
NextPort == [address |-> 1, port |-> 2]
Far == [address |-> 2, port |-> 1]
MCPair == {<<Near, NextPort>>, <<NextPort, Near>>, <<NextPort, Far>>,
           <<Far, NextPort>>, <<Near, Near>>}
MCConnectionId == {<<>>, <<0>>, <<0, 1>>}
=============================================================================
