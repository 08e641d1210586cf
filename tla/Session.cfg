SPECIFICATION Spec
INVARIANTS TypeOK DisplayOnlyReads SuccessIsComplete
PROPERTY HandlesBalanced
