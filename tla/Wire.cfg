SPECIFICATION Spec
CONSTANTS
    Base = 16
    LenWidth = 2
    TagWidth = 2
    HashWidth = 2
    AddressWidth = 1
    HeaderWidth = 2
    StringMark = 6
    ShortLimit = 3
    LengthBytes = 2
    Transactions <- WireTransactions
    Scripts <- WireScripts
INVARIANTS TypeOK DeliversWhatWasMeant PanicsOnlyAtReplacement RequestsReadBack
CHECK_DEADLOCK FALSE
