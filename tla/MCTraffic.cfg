SPECIFICATION FairSpec
CONSTANTS
  Users = {u1, u2}
  MaxAdds = 3
  MaxTwice = 1
INVARIANTS
  TypeOK
  Conservation
PROPERTY
  EventuallyBooked
