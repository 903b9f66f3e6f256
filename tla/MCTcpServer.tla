----------------------------- MODULE MCTcpServer -----------------------------
(* Instances of TcpServer for TLC.                                          *)
EXTENDS TcpServer_proofs, TLC

MCAddresses == <<"v6", "v4">>

NoFaults  == {}
AllFaults == {"socket", "accept", "crash", "kill_handler", "kill_client"}

=============================================================================
