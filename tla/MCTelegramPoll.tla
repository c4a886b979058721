---------------------------- MODULE MCTelegramPoll ----------------------------
(***************************************************************************)
(* TelegramPoll on a small instance: the owner sends voice notes and other *)
(* documents, a stranger sends voice notes.                                *)
(***************************************************************************)
EXTENDS TelegramPoll

CONSTANTS owner, stranger, home

MCIncoming ==
    {[user |-> owner, chat |-> home, attached |-> "voice"],
     [user |-> owner, chat |-> home, attached |-> "otherDocument"],
     [user |-> stranger, chat |-> home, attached |-> "voice"]}

=============================================================================
