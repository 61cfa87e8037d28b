---------------------------- MODULE MCCompileRun ----------------------------
EXTENDS CGrammar, CPrograms, CompileRun
=============================================================================
