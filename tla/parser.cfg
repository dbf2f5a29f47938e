SPECIFICATION ParserSpec
CONSTANTS
    Names <- SomeNames
    Attributes <- NoneOrOne
    Strings <- SomeStrings
    Texts <- AllTexts
    MaxCalls = 7
INVARIANTS
    ParserTypeOK
    CurrentIsInnermost
    TreeAsSent
\* The parser stops at the end of the text.
CHECK_DEADLOCK FALSE
