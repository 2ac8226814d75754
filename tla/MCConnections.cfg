SPECIFICATION FairSpec
CONSTANTS
  Inbound <- ComingIn
  Outbound <- GoingOut
  Kind <- WhatIsSent
  Descriptors <- FourDescriptors
INVARIANTS
  TypeOK
  OwnUnlessAsked
  NoneLeftOpen
PROPERTY ThreadsEnd
CHECK_DEADLOCK FALSE
