------------------------------ MODULE MCStored ------------------------------
(***************************************************************************)
(* Small instances of Stored for TLC.                                      *)
(***************************************************************************)
EXTENDS Stored, TLC

FileOf(enabled, p, address) ==
  [ok |-> TRUE, http_enabled |-> enabled, http_port |-> p,
   http_bind_address |-> address]

Unreadable == [ok |-> FALSE, http_enabled |-> TRUE, http_port |-> 8080,
               http_bind_address |-> "valid"]

\* A port number whose low 16 bits are those of the first, the server
\* switched off, and the two ways a file ends the process.
MCFiles == {FileOf(TRUE, 8080, "valid"), FileOf(TRUE, 8080 + 65536, "valid"),
            FileOf(FALSE, 8080, "valid"), FileOf(TRUE, 8080, "invalid"),
            Unreadable}

OneFile == {FileOf(TRUE, 8080, "valid")}

ClientOf(rx, tx, closes) == [rx |-> rx, tx |-> tx, closes |-> closes]

\* Requests that arrive whole.
WholeRequests == {ClientOf(<<"GET", "TEXT", "BLANK">>, <<>>, TRUE),
                  ClientOf(<<"TEXT", "BLANK">>, <<>>, FALSE)}

\* A client with another method, one that sends its request late, one that
\* closes without a word, and one that closes inside its headers.
AnyRequests == {ClientOf(<<"TEXT">>, <<>>, FALSE),
                ClientOf(<<>>, <<"GET", "BLANK">>, FALSE),
                ClientOf(<<>>, <<>>, TRUE),
                ClientOf(<<"GET">>, <<>>, TRUE)}

ShortRequest == {ClientOf(<<"GET", "TEXT">>, <<>>, TRUE)}

NoPoints == {}

Symmetry == Permutations(Threads)
=============================================================================
