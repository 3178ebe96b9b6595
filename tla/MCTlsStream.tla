----------------------------- MODULE MCTlsStream -----------------------------
(***************************************************************************)
(* Two connections on one 4-tuple.  Records of the forward direction are   *)
(* shorter and longer than the keep sizes and than a packet, one is empty; *)
(* the initial sequence numbers make the streams wrap.                     *)
(***************************************************************************)
EXTENDS TlsStream, TLC

CONSTANTS
    client, server      \* model values

Up == <<client, server>>
Down == <<server, client>>
MCDirectionKey == {Up, Down}

Rec(type_, at_, total_) == [type |-> type_, at |-> at_, total |-> total_]

MCConnectionSet ==
    { Up :> [stream |-> { Rec("handshake", 0, 3), Rec("app_data", 3, 7),
                          Rec("app_data", 10, 3), Rec("control", 13, 3) },
             isn |-> 12]
        @@ Down :> [stream |-> { Rec("handshake", 0, 2), Rec("app_data", 2, 4) },
                    isn |-> 1],
      Up :> [stream |-> { Rec("handshake", 0, 2), Rec("control", 2, 5),
                          Rec("app_data", 7, 9) },
             isn |-> 17]
        @@ Down :> [stream |-> { Rec("control", 0, 3), Rec("app_data", 3, 3) },
                    isn |-> 16] }
=============================================================================
