------------------------------ MODULE MCKbdbuf ------------------------------
EXTENDS Kbdbuf

\* "RUN" with its RETURN, and a text longer than the KERNAL's buffer.
TextDef == {<<"r", "return">>, <<"x", "y", "z">>}
CharDef == {"r", "x", "y", "z", "l", "s", "return", "zero", "key"}
CmdlineDef == <<"l", "return", "s">>
NoCmdline == <<>>
=============================================================================
