SPECIFICATION Spec
CONSTANTS
  MaxPath = 2
  Times <- TwoDays
INVARIANTS SignatureAccepted MandatorySigned BodyCovered
