----------------------------- MODULE MCAssembly -----------------------------
(* Values of the constants of Assembly for TLC: names that yEnc headers give *)
(* apart from those of the subjects.                                         *)
EXTENDS Assembly

OneSubject == { <<"\"", "c", "\"">> }
NoText == { <<>> }
OneName == { <<"d">> }

=============================================================================
