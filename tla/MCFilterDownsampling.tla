------------------------ MODULE MCFilterDownsampling ------------------------
(* FilterDownsampling with up to two signals of up to two samples or elements. *)
EXTENDS FilterDownsampling

Signal(types, sizes) == [type : types, samples : sizes, elements : sizes]
Lists(signals) == {<< >>} \cup {<<a>> : a \in signals}
                          \cup {<<a, b>> : a \in signals, b \in signals}

MCAlphas == 0 .. Scale - 1
MCConfigurations ==
    [inputs : Lists(Signal({"int16", "int32"}, {1, 2})),
     outputs : Lists(Signal({"float64"}, {1}))]
    \cup
    [inputs : Lists(Signal({"int16"}, {1})),
     outputs : Lists(Signal({"float64", "float32"}, {1, 2}))]
=============================================================================
