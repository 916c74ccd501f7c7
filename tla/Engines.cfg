SPECIFICATION Spec
CONSTANTS
    Engines <- Both
    Signed = {}
INVARIANTS NoStaleUse HelperReady ResumesPending ArithmeticOnce
PROPERTY Implements
