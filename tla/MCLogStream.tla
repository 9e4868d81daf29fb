----------------------------- MODULE MCLogStream -----------------------------
EXTENDS LogStream

\* Logs of two full buffers.
MCReaderSize == 3
MCLength == 6
=============================================================================
