CONSTANTS
  c1 = c1
  c2 = c2
  o1 = o1
  Checker <- TwoCheckers
  NoChecker = none
  Owner <- OneOwner
  Price <- Prices
  Cooldown = 3
  Alerts <- SomeAlerts
  Edits <- SomeEdits
  MaxClock = 4
SPECIFICATION Spec
CHECK_DEADLOCK FALSE
SYMMETRY CheckerSymmetry
INVARIANT TypeOK
INVARIANT MailsMatchMarks
PROPERTY EndedForGood
INVARIANT CrossingsNotified
