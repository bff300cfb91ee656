--------------------------- MODULE MCDeclarations ---------------------------
(* The declarations of the runs: at file scope every one there is, in a      *)
(* function those of one type with the usual classes.                        *)
EXTENDS Declarations

MCFileDecls   == Declared
MCBodyDecls   == {d \in Declared : d.type = "t" /\ d.class \notin {"auto", "register"}}
MCDefinitions == [class : {"none", "auto", "static"}, type : {"t", "unprototyped"}]

=============================================================================
