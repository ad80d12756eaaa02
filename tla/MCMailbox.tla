------------------------------ MODULE MCMailbox ------------------------------
EXTENDS Mailbox
=============================================================================
