------------------------------ MODULE MCFat32 ------------------------------
EXTENDS Fat32

MCPaths == {<<"a">>, <<"d">>, <<"d", "b">>}
=============================================================================
