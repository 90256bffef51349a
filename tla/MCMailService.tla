--------------------------- MODULE MCMailService ---------------------------
(* One request, of any kind; a player, and an address of somebody else. *)
EXTENDS MailService, TLC

CONSTANTS r1, p1, own, other

OneMail      == {r1}
OneUser      == {p1}
TwoAddresses == {own, other}
Home         == p1 :> own
=============================================================================
