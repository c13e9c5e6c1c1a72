------------------------------ MODULE MCFmTasks ------------------------------
(***************************************************************************)
(* A small instance of FM: a log that an application holds open, two plain *)
(* files and a free name.                                                  *)
(***************************************************************************)
EXTENDS FmTasks

CONSTANTS log, a, free

MCNames == {log, a, free}

Cmd(cc, src, tgt, overwrite) ==
  [cc |-> cc, src |-> src, tgt |-> tgt, overwrite |-> overwrite]

MCCommands ==
  {Cmd("COPY", a, free, FALSE), Cmd("COPY", a, log, TRUE), Cmd("MOVE", a, free, TRUE),
   Cmd("RENAME", log, free, FALSE), Cmd("DELETE", a, None, FALSE),
   Cmd("DELETE_ALL", None, None, FALSE)}

=============================================================================
