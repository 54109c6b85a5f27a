---------------------------- MODULE MCDeviceStream ----------------------------
(* Blocks of up to three rows, of two in an untiled artifact; graphs of    *)
(* two or three rows or none.                                              *)
EXTENDS DeviceStream

MCConfigs == [tiled : {TRUE}, batch : {2, 3}] \cup [tiled : {FALSE}, batch : {0, 2, 3}]
=============================================================================
