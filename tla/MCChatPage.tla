------------------------------ MODULE MCChatPage ------------------------------
(* ChatView on small instances. *)
EXTENDS ChatView

CONSTANTS junior, senior, admin
===============================================================================
