SPECIFICATION Spec
INVARIANT FromInventoryCorrect
