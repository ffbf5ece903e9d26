--------------------------- MODULE MCConnectionReader ---------------------------
(* A stream for TLC: headers of 2 bytes, a buffer of 8. *)
EXTENDS ConnectionReader

\* Empty messages, messages that just fit and every kind of neighbours; then a message
\* that announces more than fits, and more messages behind it.
StreamSize == <<2, 8, 3, 5, 2, 2, 7, 3, 8, 8, 4, 2, 9, 4, 2>>
StreamStart == <<0, 2, 10, 13, 18, 20, 22, 29, 32, 40, 48, 52, 54, 63, 67, 69>>
=============================================================================
