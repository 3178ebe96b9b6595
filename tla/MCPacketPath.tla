---------------------------- MODULE MCPacketPath ----------------------------
(***************************************************************************)
(* PacketPath with frames that end inside and right behind the headers,    *)
(* limits on either side of their lengths, each constrictor on and off.    *)
(***************************************************************************)
EXTENDS PacketPath

Options(snaplen, max, saved, tls, quic) ==
    [default_snaplen |-> snaplen, max_capture_len |-> max,
     min_saved |-> saved, tls_enabled |-> tls, quic_enabled |-> quic]
MCConfig == {Options(57, 55, 1, TRUE, TRUE), Options(80, 80, 13, FALSE, TRUE),
             Options(42, 80, 0, TRUE, FALSE)}
=============================================================================
