SPECIFICATION Spec
CONSTANTS
    Bits <- MCBits
    useFastUTF8 = TRUE
    substituteCode = 26
    Sent <- MCSent
    Read <- MCRead
    EncodingIn = "UTF8"
    EncodingOut = "UTF8"
    Expressions <- MCExpressions
    Numbers <- MCNumbers
    Texts <- MCTexts
    MaxLen = 2
INVARIANT BuffersOwned
PROPERTIES BuffersSpec OneExpression KeptOnFailure RoundTrip
