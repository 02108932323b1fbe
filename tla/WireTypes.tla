------------------------------ MODULE WireTypes ------------------------------
(***************************************************************************)
(* The WSTP functions for each scalar type: the tables that the template   *)
(* specializations of Get.cpp, Put.cpp and Release.cpp write out.          *)
(***************************************************************************)

GetWire == [uchar |-> "Integer8", short |-> "Integer16", int |-> "Integer32",
            wsint64 |-> "Integer64", float |-> "Real32", double |-> "Real64"]

PutWire == [uchar |-> "Integer8", short |-> "Integer16", int |-> "Integer32",
            wsint64 |-> "Integer64", float |-> "Real32", double |-> "Real64"]

\* Deviation: the row of short repeated for int.
ReleaseWireTwice == [uchar |-> "Integer8", short |-> "Integer16", int |-> "Integer16",
                     wsint64 |-> "Integer64", float |-> "Real32", double |-> "Real64"]

ReleaseWire == [uchar |-> "Integer8", short |-> "Integer16", int |-> "Integer32",
                wsint64 |-> "Integer64", float |-> "Real32", double |-> "Real64"]
=============================================================================
