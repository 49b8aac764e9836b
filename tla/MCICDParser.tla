----------------------------- MODULE MCICDParser -----------------------------
(* Frames that set each field to its extremes while its neighbours hold the *)
(* opposite; a payload of six bytes instead of 87, one more than is parsed. *)
EXTENDS ICDParser

CONSTANTS Modes, Authorities, Drivings, SourceSets, Stamps, Devices, Pads, Codes

MCFrame ==
  [mode : Modes, authority : Authorities, driving : Drivings, sources : SourceSets,
   complete : BOOLEAN, stamp : Stamps, devices : Devices, pad : Pads, msg_code : Codes]
=============================================================================
