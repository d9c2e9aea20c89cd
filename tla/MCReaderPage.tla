---------------------------- MODULE MCReaderPage ----------------------------
EXTENDS ReaderPage
=============================================================================
