--------------------------- MODULE MCCommunicator ---------------------------
(* Small instances of Communicator: bytes of one bit, numbers of one and three *)
(* bytes, std::size_t modulo 8.                                               *)
EXTENDS Communicator_proofs, TLC

MCWidths  == <<3, 1>>
AllFaults == {"sever", "kill_writer", "kill_reader"}

=============================================================================
