----------------------------- MODULE MCServices ------------------------------
(***************************************************************************)
(* Instances of Services.                                                  *)
(***************************************************************************)
EXTENDS Services

CONSTANTS ClientStarts, ServerStarts

MCMaxStarts == [s \in {"client", "server"} |->
                  IF s = "client" THEN ClientStarts ELSE ServerStarts]
=============================================================================
