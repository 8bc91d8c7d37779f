--------------------------- MODULE MCUserRequests ---------------------------
EXTENDS UserRequests

\* within the limit, beyond it, beyond it with a chunk that still fits after
\* it, cut off, and broken right after the document
SomeBodies == {[document |-> 2, chunks |-> <<1, 1>>],
               [document |-> 4, chunks |-> <<2, 2>>],
               [document |-> 4, chunks |-> <<1, 2, 1>>],
               [document |-> 2, chunks |-> <<1, Error>>],
               [document |-> 2, chunks |-> <<2, Error>>]}
SomePages == {NoParam, 0, 1, 2, 3, 9}
SomePerPages == {NoParam, 0, 1, 2, 9}
=============================================================================
