------------------------------ MODULE Mailbox ------------------------------
(***************************************************************************)
(* What the emulated serial line promises: every byte the program sends    *)
(* reaches the callback once, unchanged, before the next one is sent.      *)
(* Module Uart implements this.                                            *)
(***************************************************************************)
CONSTANT Chars

VARIABLE mail   \* the byte sent last, and whether it has been delivered

NoMail == [state |-> "empty"]

Init == mail = NoMail

Send(c) == mail.state # "sent" /\ mail' = [state |-> "sent", char |-> c]

Deliver == mail.state = "sent" /\ mail' = [mail EXCEPT !.state = "delivered"]

Next == Deliver \/ \E c \in Chars : Send(c)

Spec == Init /\ [][Next]_mail
=============================================================================
