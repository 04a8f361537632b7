CONSTANTS
  Pairing = {p1, p2}
  Profile = {k1}
  Browser = {b1, b2}
  MaxGen = 2
  MaxFaults = 1
SPECIFICATION PSpec
INVARIANT EnrolledIsOwned
INVARIANT OneCodeOneAccount
INVARIANT EnrolledOnce
INVARIANT UsableIsEnrolled
PROPERTY ApprovedByOwner
PROPERTY EnrolledLearnsIt
CHECK_DEADLOCK FALSE
