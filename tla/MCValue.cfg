CONSTANTS
    Word = 4
    CountWord = 3
    Exponents <- MCExponents
    WordLogic <- MCWordLogic
SPECIFICATION Spec
INVARIANTS
    VariantsAreExact
    OperatorsAreExact
