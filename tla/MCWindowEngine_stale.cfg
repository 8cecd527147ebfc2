SPECIFICATION Spec
CONSTANT Configs <- ThreeWindows
INVARIANT SumExact
