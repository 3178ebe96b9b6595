-------------------------- MODULE MCTlsConstrictor --------------------------
(***************************************************************************)
(* A small instance of TlsConstrictor: one connection between two          *)
(* endpoints, payloads and records of a few bytes, headers of two bytes.   *)
(***************************************************************************)
EXTENDS TlsConstrictor, TLC

CONSTANTS
    a, b            \* the two endpoints, model values

MCDirectionKey == {<<a, b>>, <<b, a>>}

\* The two endpoints are told apart by name only.
EndpointSymmetry == Permutations({a, b})
=============================================================================
