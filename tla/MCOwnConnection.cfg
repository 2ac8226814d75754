SPECIFICATION Spec
CONSTANTS
  Inbound <- ComingIn
  Outbound <- GoingOut
  Kind <- WhatIsSent
  Descriptors <- FourDescriptors
INVARIANT OwnConnection
CHECK_DEADLOCK FALSE
