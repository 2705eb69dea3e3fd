----------------------------- MODULE MCSBuffer -----------------------------
(***************************************************************************)
(* Instances of SBuffer for TLC: the gateway's three worker threads and    *)
(* its main thread, and two sensors whose readings are told apart.         *)
(***************************************************************************)
EXTENDS SBuffer, TLC

CONSTANTS connection_manager, data_manager, storage_manager, main, r1, r2

MCProducers == {connection_manager}
MCConsumers == {data_manager, storage_manager}
MCReading == {r1, r2}
=============================================================================
