---------------------------- MODULE MCAddrCursor ----------------------------
EXTENDS AddrCursor, WordsReference
=============================================================================
