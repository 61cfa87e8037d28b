------------------------------ MODULE MCScreen ------------------------------
EXTENDS Screen
MCBoot == [x |-> 3, y |-> 6, w |-> 1, h |-> 2]
MCSizes == {<<1, 1>>, <<1, 2>>, <<9, 1>>}   \* the last never finds a place
MCStrings == {<<"text", "text", "text">>, <<"text", "NL", "text">>, <<"ink", "text", "UP", "text">>}
=============================================================================
