---------------------------- MODULE QuicContract ----------------------------
(***************************************************************************)
(* What the QUIC constrictor promises, without flow tables: it remembers   *)
(* for every ordered pair of endpoints the connection ID the first last    *)
(* announced to the second, and it shortens a datagram only when what it   *)
(* keeps covers the long headers and a short header that is addressed to   *)
(* the ID the receiver announced.  A datagram may always be kept whole.    *)
(***************************************************************************)
EXTENDS Integers, Sequences

CONSTANTS
    Pair,           \* <<sender, receiver>>: who sends datagrams to whom
    ConnectionId,   \* the connection IDs, as sequences of bytes
    Symbol,         \* the values of a byte
    MaxPayload,     \* bound on the payload of one datagram
    Permissive      \* a short header to an unknown ID may be shortened too

VARIABLES
    learned,    \* <<sender, receiver>> |-> the ID last announced, or <<>>
    datagram,   \* the datagram in hand
    verdict     \* the last verdict, and the short header it is about

contractVars == <<learned, datagram, verdict>>

NoDatagram == <<>>
Datagram == {[src |-> pair[1], dst |-> pair[2], size |-> n] :
                pair \in Pair, n \in 1 .. MaxPayload}
NoVerdict == [cut |-> FALSE, kept |-> 0, short |-> <<>>]
Idle == datagram = NoDatagram

IsStartOf(id, bytes) ==
    Len(id) <= Len(bytes) /\ \A i \in 1 .. Len(id) : id[i] = bytes[i]

ContractInit ==
    /\ learned = [pair \in Pair |-> <<>>]
    /\ Idle
    /\ verdict = NoVerdict

Arrives ==
    /\ Idle
    /\ datagram' \in Datagram
    /\ verdict' = NoVerdict
    /\ UNCHANGED learned

\* A long header of the datagram announces its sender's ID.
Announces ==
    /\ ~Idle
    /\ \E id \in ConnectionId \ {<<>>} :
           learned' = [learned EXCEPT ![<<datagram.src, datagram.dst>>] = id]
    /\ UNCHANGED <<datagram, verdict>>

KeptWhole ==
    /\ ~Idle
    /\ datagram' = NoDatagram
    /\ verdict' = [cut |-> FALSE, kept |-> datagram.size, short |-> <<>>]
    /\ UNCHANGED learned

\* short holds what follows the first byte of the short header, which itself
\* follows the long headers: size - 1 - Len(short) bytes.
Shortened ==
    /\ ~Idle
    /\ datagram' = NoDatagram
    /\ \E n \in 0 .. datagram.size - 1 : \E short \in [1 .. n -> Symbol] :
       \E kept \in 1 .. datagram.size :
          LET id == learned[<<datagram.dst, datagram.src>>] IN
          /\ id = <<>> => Permissive
          /\ IsStartOf(id, short)
          /\ kept >= datagram.size - Len(short) + Len(id)
          /\ verdict' = [cut |-> TRUE, kept |-> kept, short |-> short]
    /\ UNCHANGED learned

ContractNext == Arrives \/ Announces \/ KeptWhole \/ Shortened

ContractSpec == ContractInit /\ [][ContractNext]_contractVars
=============================================================================
