-------------------------------- MODULE Lists --------------------------------
(***************************************************************************)
(* What the pages do with lists (tabular.js): written as a function of how *)
(* far a list has been read, which can be proved about.                    *)
(***************************************************************************)
EXTENDS Integers, SequencesExt

\* filter(), trim(): the elements of a list that are in S, in their order.
Among(s, S) ==
    LET upTo[i \in 0..Len(s)] ==
            IF i = 0 THEN <<>> ELSE IF s[i] \in S THEN Append(upTo[i - 1], s[i]) ELSE upTo[i - 1]
    IN  upTo[Len(s)]

=============================================================================
