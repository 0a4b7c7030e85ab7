------------------------------- MODULE MCYenc -------------------------------
(* Values of the constants of Yenc for TLC: bytes whose codes are NUL, '=', *)
(* '.', and an ordinary character.                                          *)
EXTENDS Yenc

MCByte == {214, 19, 4, 65}

=============================================================================
