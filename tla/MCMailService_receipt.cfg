\* A receipt that auth-service asks for and reports as queued.
CONSTANTS
  r1 = r1
  p1 = p1
  own = own
  other = other
  NoAddress = NoAddress
  Mails <- OneMail
  Users <- OneUser
  Addresses <- TwoAddresses
  AddressOf <- Home
SPECIFICATION MailSpec
CHECK_DEADLOCK FALSE
INVARIANTS
  ReceiptAccepted
