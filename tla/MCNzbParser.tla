---------------------------- MODULE MCNzbParser ----------------------------
(* Values of the constants of NzbParser for TLC: subjects of each layout and *)
(* one that find_filename runs out of, and texts with blanks around them.    *)
EXTENDS NzbParser

MCSubject == { <<"\"", "a", "\"", "x", "\"", "b", "'", "\"", "x">>,
               <<"'", "d", "-", "'", "e", "'">>,
               <<"-", " ", "e", " ", "-", " ", "x">>,
               <<"e", "-", " ", "'">>,
               <<"x">> }
MCText == { <<"\n", " ", "m", "n", "\n">> }

=============================================================================
