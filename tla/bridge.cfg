CONSTANTS
  b1 = b1  ana = ana  None = None
  Browser = {b1}
  Name = {ana}
  Tcp <- Two
  MaxEvents = 4
  MaxFail = 1
  Said <- Unbalanced
  MaxSay = 1
SPECIFICATION Spec
INVARIANTS StateOK EveryMessageHasAFate RegistroFirst
PROPERTIES ForgottenForGood RegistrationIsRetried PageIsTold
CHECK_DEADLOCK FALSE
