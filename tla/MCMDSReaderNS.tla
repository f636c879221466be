--------------------------- MODULE MCMDSReaderNS ---------------------------
(* MDSReaderNS with every increasing timebase of one to three samples over a few
   ticks, for data as long or of one sample, read from before the first sample to
   after the last; and with a configuration for each reason to reject it. *)
EXTENDS MDSReaderNS

MCTicks == 0 .. 3
MCTimebases ==
    {tb \in UNION {[1 .. n -> MCTicks] : n \in 1 .. 3} :
        \A i, j \in DOMAIN tb : i < j => tb[i] < tb[j]}

MCNode(rows, timebase, management) ==
    [expressions |-> TRUE, columnOrder |-> NotSet, type |-> "float32", elements |-> 1,
     management |-> management,
     data |-> [elements |-> 1, rows |-> rows, timebase |-> timebase]]
MCNodes ==
    {MCNode(Len(tb), tb, m) : tb \in MCTimebases, m \in 0 .. 2}
    \cup {MCNode(2, tb, m) : tb \in MCTimebases, m \in 0 .. 2}

MCConfiguration(nodes) ==
    [parameters |-> TRUE, messages |-> <<"valid">>, functions |-> 1,
     functionSignals |-> Cardinality(Nodes) + 1, samples |-> 1,
     timeType |-> "uint64", timeElements |-> 1, nodes |-> nodes]
MCReplayed == {MCConfiguration(nodes) : nodes \in [Nodes -> MCNodes]}

MCBase == MCConfiguration([n \in Nodes |-> MCNode(2, <<0, 2>>, 1)])
MCOneNode == CHOOSE n \in Nodes : TRUE
MCVariants ==
    {MCBase,
     [MCBase EXCEPT !.parameters = FALSE],
     [MCBase EXCEPT !.messages = NotSet],
     [MCBase EXCEPT !.messages = <<"valid", "invalid">>],
     [MCBase EXCEPT !.functions = 2],
     [MCBase EXCEPT !.functionSignals = @ - 1],
     [MCBase EXCEPT !.samples = 2],
     [MCBase EXCEPT !.timeType = "float64"],
     [MCBase EXCEPT !.timeElements = 2]}
    \cup {[MCBase EXCEPT !.nodes[MCOneNode] = node] : node \in
            {[MCBase.nodes[MCOneNode] EXCEPT !.expressions = FALSE],
             [MCBase.nodes[MCOneNode] EXCEPT !.columnOrder = 2],
             [MCBase.nodes[MCOneNode] EXCEPT !.type = "invalid"],
             [MCBase.nodes[MCOneNode] EXCEPT !.elements = 0],
             [MCBase.nodes[MCOneNode] EXCEPT !.elements = 2],
             [MCBase.nodes[MCOneNode] EXCEPT !.management = 3],
             [MCBase.nodes[MCOneNode] EXCEPT !.data = NotSet]}}

MCConfigurations == MCReplayed \cup MCVariants
MCStartTime == -1
=============================================================================
