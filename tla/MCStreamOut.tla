---------------------------- MODULE MCStreamOut ----------------------------
(* StreamOut with the time and up to two signals, for several block sizes. *)
EXTENDS StreamOut

\* Three significant bits.
MCFloat32s == {m * e : m \in -7 .. 7, e \in {1, 2, 4, 8, 16, 32}}

Signal(type) == [type |-> type, samples |-> 1, elements |-> 1]
Array(type) == [type |-> type, samples |-> 1, elements |-> 2]

\* Configurations of which the data source accepts some and rejects others.
MCConfigurations ==
    [functions : {1}, functionSignals : {2, 3}, timeIdx : {0, 1}, eventDivision : 0 .. 5 \cup {NotSet},
     signals : {<<Signal("uint64"), Signal("float32"), Signal("uint32")>>,
                <<Signal("float64"), Signal("int32")>>}]
    \cup
    [functions : {1, 2}, functionSignals : {1, 2}, timeIdx : {0, NotSet}, eventDivision : {2},
     signals : {<<Signal("int32")>>, <<Signal("int32"), Array("float32")>>,
                <<Signal("int32"), Signal("uint16")>>,
                <<Signal("uint32"), Signal("int64")>>}]
=============================================================================
