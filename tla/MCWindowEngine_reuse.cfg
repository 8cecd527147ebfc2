SPECIFICATION Spec
CONSTANT Configs <- ReuseShort
INVARIANT OperandsOwn
