---------------------------- MODULE MCSerialize ----------------------------
(***************************************************************************)
(* Model values for Serialize: the numbers are those of the enumerations   *)
(* (Byte and Float, Strided and Sparse, Contiguous and ChannelsLast), so   *)
(* that one may be taken for another as in the code.                       *)
(***************************************************************************)
EXTENDS Serialize

CONSTANTS cpu, cuda, t1, t2

MCDtypes == {0, 6}
MCLayouts == {0, 1}
MCFormats == {0, 2}
MCDevices == {cpu, cuda}
MCTensors == {t1, t2}
============================================================================
