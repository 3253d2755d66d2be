--------------------------- MODULE MCCommandChannel ---------------------------
(* Model values for TLC.                                                    *)
EXTENDS CommandChannel, TLC

CONSTANTS c1, c2, s1, h1, h2

\* The commands are interchangeable; used only where no liveness is checked.
Symmetry == Permutations(Commands)

\* The station clock runs one tick behind: a command can still verify there when
\* the server already counts it as lapsed.
Behind == -1

==============================================================================
