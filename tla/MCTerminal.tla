------------------------------ MODULE MCTerminal ------------------------------
EXTENDS Terminal

\* Both handlers; a shell gets messages that fit into the buffer and some that do not.
MCKinds == {"terminal", "logs"}
MCBufferSize == 2
=============================================================================
