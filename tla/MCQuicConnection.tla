-------------------------- MODULE MCQuicConnection --------------------------
(***************************************************************************)
(* Three connections between a client and a server on one address, as on   *)
(* the loopback interface; the client of the last one has no ID.           *)
(***************************************************************************)
EXTENDS QuicConnection

Client == [address |-> 1, port |-> 2]
Server == [address |-> 1, port |-> 1]
MCPair == {<<Client, Server>>, <<Server, Client>>}
MCConnectionId == {<<>>, <<0>>, <<0, 0>>, <<0, 1>>, <<1>>}

Ids(client_, server_) == [e \in {Client, Server} |->
                            IF e = Client THEN client_ ELSE server_]
MCConnection == {Ids(<<0>>, <<0, 1>>), Ids(<<1>>, <<0, 0>>),
                 Ids(<<>>, <<1>>)}
=============================================================================
