-------------------------------- MODULE MCSdk --------------------------------
EXTENDS Sdk, TLC

Shape(signs, quotes, result) == [signs |-> signs, quotes |-> quotes, result |-> result]
MCMethods ==
    {Shape("own", FALSE, r) : r \in {"plain", "order", "bulkOrders", "modify", "cancel"}}
        \cup {Shape("none", FALSE, "plain"), Shape("own", TRUE, "order")}

\* These are the methods there are, as far as Exchange tells them apart.
ASSUME ShapesAssumption == MCMethods = MethodShapes

CallerSymmetry == Permutations(Callers)
=============================================================================
