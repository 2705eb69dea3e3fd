------------------------ MODULE MCGatewayLifecycle -------------------------
(***************************************************************************)
(* The gateway's three workers, by name.                                   *)
(***************************************************************************)
EXTENDS GatewayLifecycle, TLC

CONSTANTS connection_manager, data_manager, storage_manager

MCWorkers == {connection_manager, data_manager, storage_manager}
=============================================================================
